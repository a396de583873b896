------------------------------ MODULE Taxonomy ------------------------------
(***************************************************************************)
(* The categories of the shop, which administrators edit and every start   *)
(* of the API seeds again.  A row is archived, never deleted, and its slug *)
(* is unique among all rows, archived ones included.                       *)
(***************************************************************************)
EXTENDS Naturals, Sequences

CONSTANTS
  Roots,    \* DIGITAL_SHOP_ROOT_CATEGORIES: a sequence of [name, slug]
  Names,    \* what administrators call categories
  Slugify,  \* the slug of each name, those of Roots included
  Suffixed, \* slugs with a random suffix
  Boots,    \* processes that seed: the API, and a command that fills a new shop
  Editors,  \* requests of administrators
  MaxRows, MaxRequests, \* bounds
  NoRow

VARIABLES
  categories, \* the rows, in the order of their creation; a row's id is its place
  boot,       \* how far each seeding is
  edit,       \* how far each request is
  requests,   \* how many requests there were
  touched     \* for each seeding, the roots whose slug a request has written on since it began, or
              \* one it overlaps

taxonomyVars == <<categories, boot, edit, requests, touched>>

RowIds == 1..MaxRows
CategorySlugs == {Slugify[n] : n \in DOMAIN Slugify} \cup Suffixed
Root == [name : DOMAIN Slugify, slug : CategorySlugs]
Category == [slug : CategorySlugs, name : DOMAIN Slugify, active : BOOLEAN, archived : BOOLEAN,
             top : BOOLEAN]   \* it has no parent
NoEdit == [op |-> "none"]

ASSUME TaxonomyAssumption ==
  /\ Roots \in Seq(Root) /\ Len(Roots) > 0
  /\ \A i, j \in DOMAIN Roots : Roots[i].slug = Roots[j].slug => i = j
  /\ Names \subseteq DOMAIN Slugify
  /\ MaxRows \in Nat /\ MaxRequests \in Nat /\ NoRow \notin RowIds /\ NoRow \notin DOMAIN Slugify

TaxonomyTypeOK ==
  /\ categories \in Seq(Category) /\ Len(categories) <= MaxRows
  /\ \A b \in Boots :
       boot[b] \in [pc : {"off", "find", "write", "up", "failed"}, at : DOMAIN Roots,
                    row : RowIds \cup {NoRow}]
  /\ \A e \in Editors : edit[e].pc \in {"idle", "slug", "write", "failed"}
  /\ touched \in [Boots -> SUBSET DOMAIN Roots] /\ requests \in 0..MaxRequests

Off == [pc |-> "off", at |-> 1, row |-> NoRow]
Rested == [pc |-> "idle", call |-> NoEdit, slug |-> NoRow]
TaxonomyInit ==
  /\ categories = <<>>
  /\ boot = [b \in Boots |-> Off] /\ edit = [e \in Editors |-> Rested]
  /\ requests = 0 /\ touched = [b \in Boots |-> {}]

Live(id) == id \in DOMAIN categories /\ ~categories[id].archived
\* The unique index does not know deletedAt.
Taken(slug, id) == \E k \in DOMAIN categories : k # id /\ categories[k].slug = slug
New(name, slug, top) ==
  [slug |-> slug, name |-> name, active |-> TRUE, archived |-> FALSE, top |-> top]
-----------------------------------------------------------------------------
(* seedDigitalShopTaxonomy, one root after the other, two statements for each. *)

Seeding == {b \in Boots : boot[b].pc \in {"find", "write"}}
\* A process starts, or is started again after it failed or was replaced.
Start(b) ==
  /\ boot[b].pc \in {"off", "up", "failed"}
  /\ boot' = [boot EXCEPT ![b] = [Off EXCEPT !.pc = "find"]]
  /\ touched' = [touched EXCEPT ![b] = UNION {touched[c] : c \in Seeding \ {b}}]
  /\ UNCHANGED <<categories, edit, requests>>

FindRoot(b) ==
  /\ boot[b].pc = "find"
  /\ \E row \in RowIds \cup {NoRow} :
       /\ IF row = NoRow THEN \A id \in RowIds : Live(id) => categories[id].slug # Roots[boot[b].at].slug
          ELSE Live(row) /\ categories[row].slug = Roots[boot[b].at].slug
       /\ boot' = [boot EXCEPT ![b].pc = "write", ![b].row = row]
  /\ UNCHANGED <<categories, edit, requests, touched>>

\* What the update sets: nothing of the administrators' work but slug and deletedAt is left.
Seeded_StaysHidden(row, root) ==                  \* mutant: active is not among the data
  [row EXCEPT !.name = root.name, !.top = TRUE]
Seeded(row, root) == [row EXCEPT !.name = root.name, !.active = TRUE, !.top = TRUE]

Advance(b) ==
  boot' = [boot EXCEPT ![b] = IF @.at = Len(Roots) THEN [Off EXCEPT !.pc = "up"]
                              ELSE [Off EXCEPT !.pc = "find", !.at = boot[b].at + 1]]
WriteRoot(b) ==
  /\ boot[b].pc = "write"
  /\ LET root == Roots[boot[b].at]
         row  == boot[b].row
     IN \/ row # NoRow /\ Advance(b)
           /\ categories' = [categories EXCEPT ![row] = Seeded(@, root)]
        \/ row = NoRow /\ ~Taken(root.slug, NoRow) /\ Len(categories) < MaxRows /\ Advance(b)
           /\ categories' = Append(categories, New(root.name, root.slug, TRUE))
        \/ row = NoRow /\ Taken(root.slug, NoRow) /\ UNCHANGED categories
           /\ boot' = [boot EXCEPT ![b] = [Off EXCEPT !.pc = "failed"]]
  /\ UNCHANGED <<edit, requests, touched>>
-----------------------------------------------------------------------------
(* createCategory and updateCategory.  Nothing is shared with a transaction. *)

Creating(name, top) == [op |-> "create", id |-> NoRow, name |-> name, top |-> top]
Updating(id, name, change) == [op |-> "update", id |-> id, name |-> name, change |-> change]
\* The page's Archive button sends the name it shows; the others are the API's.
Archiving(id) == Updating(id, categories[id].name, "archive")

OpenRequest(e, call) ==
  /\ edit[e].pc \in {"idle", "failed"} /\ requests < MaxRequests /\ requests' = requests + 1
  /\ call.op = "update" => Live(call.id)
  /\ edit' = [edit EXCEPT ![e] =
       IF call.name = NoRow
       THEN [pc |-> "write", call |-> call, slug |-> categories[call.id].slug]
       ELSE [pc |-> "slug", call |-> call, slug |-> NoRow]]
  /\ UNCHANGED <<categories, boot, touched>>

\* ensureUniqueSlug, whose last query decides; it counts the live rows alone.
PickSlug(e) ==
  LET Unused(slug) == \A id \in RowIds : Live(id) /\ id # edit[e].call.id => categories[id].slug # slug
      wanted == Slugify[edit[e].call.name]
      choice == IF Unused(wanted) THEN {wanted} ELSE {s \in Suffixed : Unused(s)}
  IN
  /\ edit[e].pc = "slug"
  /\ \/ \E s \in choice : edit' = [edit EXCEPT ![e].pc = "write", ![e].slug = s]
     \/ choice = {} /\ edit' = [edit EXCEPT ![e] = [Rested EXCEPT !.pc = "failed"]]
  /\ UNCHANGED <<categories, boot, requests, touched>>

Changed(row, call, slug) ==
  [slug |-> slug, name |-> IF call.name = NoRow THEN row.name ELSE call.name,
   active |-> row.active /\ call.change = "none",
   archived |-> row.archived \/ call.change = "archive", top |-> row.top]
\* The write, by id; the slug is always among its data.
WriteRow(e) ==
  LET call == edit[e].call
      slug == edit[e].slug
      old  == IF call.op = "create" THEN {} ELSE {categories[call.id].slug}
  IN
  /\ edit[e].pc = "write"
  /\ \/ /\ ~Taken(slug, call.id)
        /\ IF call.op = "create"
           THEN /\ Len(categories) < MaxRows
                /\ categories' = Append(categories, New(call.name, slug, call.top))
           ELSE categories' = [categories EXCEPT ![call.id] = Changed(@, call, slug)]
        /\ touched' = [b \in Boots |->
                        touched[b] \cup {i \in DOMAIN Roots : Roots[i].slug \in {slug} \cup old}]
        /\ edit' = [edit EXCEPT ![e] = Rested]
     \/ /\ Taken(slug, call.id) /\ UNCHANGED <<categories, touched>>
        /\ edit' = [edit EXCEPT ![e] = [Rested EXCEPT !.pc = "failed"]]
  /\ UNCHANGED <<boot, requests>>

Request(e) ==
  \/ \E name \in Names, top \in BOOLEAN : OpenRequest(e, Creating(name, top))
  \/ \E id \in DOMAIN categories :
       \/ OpenRequest(e, Archiving(id)) \/ OpenRequest(e, Updating(id, NoRow, "hide"))
       \/ \E name \in Names : OpenRequest(e, Updating(id, name, "none"))
  \/ PickSlug(e) \/ WriteRow(e)

TaxonomyNext ==
  \/ \E b \in Boots : Start(b) \/ FindRoot(b) \/ WriteRoot(b)
  \/ \E e \in Editors : Request(e)
TaxonomySpec == TaxonomyInit /\ [][TaxonomyNext]_taxonomyVars
-----------------------------------------------------------------------------
\* A start that went well leaves every root on sale under its name, at the top, however starts and
\* requests overlap, unless a request has written on that slug since it began,
\* or another start that it overlaps (seed-digital-taxonomy.ts, "Idempotent").
Stands(root) ==
  \E id \in RowIds : /\ Live(id) /\ categories[id].active /\ categories[id].top
                  /\ categories[id].slug = root.slug /\ categories[id].name = root.name
SeededRootsStand ==
  \A b \in Boots : boot[b].pc = "up" =>
    \A i \in DOMAIN Roots : i \notin touched[b] => Stands(Roots[i])

(* Statements that the code does not keep. *)

\* "Idempotent" (seed-digital-taxonomy.ts:5): the next start succeeds too.  One that finds a root
\* archived cannot create it again, and neither can any later one.
BootsSucceed == \A b \in Boots : boot[b].pc = "failed" => touched[b] # {}
\* "Admin-managed catalog is the production source of truth" (config/index.ts:199): a start puts
\* name, place and visibility of a root back.
EditsSurvive ==
  [][\A b \in Boots : WriteRoot(b) =>
       \A id \in DOMAIN categories : categories'[id] = categories[id]]_taxonomyVars
\* "Five top-level shop categories" (seed-digital-taxonomy.ts:4): a renamed root gets another slug,
\* and the next start creates the root again (Names = {"new"} for updates only).
RootsStayFive ==
  Len(SelectSeq(categories, LAMBDA row : ~row.archived /\ row.top)) <= Len(Roots)
\* A change that names neither slug nor name leaves the slug: one that overlaps a rename undoes it.
UnnamedSlugStays ==
  [][\A e \in Editors : WriteRow(e) /\ edit[e].call.op = "update" /\ edit[e].call.name = NoRow =>
       categories'[edit[e].call.id].slug = categories[edit[e].call.id].slug]_taxonomyVars
\* A name can be used again after its category was archived (one editor, no boots): the slug is
\* allocated as if it were free, and the insert fails.
NamesComeBack == \A e \in Editors : edit[e].pc # "failed"
=============================================================================
