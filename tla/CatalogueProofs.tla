---------------------------- MODULE CatalogueProofs ---------------------------
(***************************************************************************)
(* Proofs about products: Catalogue for any number of requests, products   *)
(* and slugs, ImportJob for any file and any number of deliveries,         *)
(* Taxonomy for any roots, seedings and requests, and SourceSync for any   *)
(* finite set of items, any reach and any runs.                            *)
(***************************************************************************)
EXTENDS Catalogue, ImportJob, Taxonomy, SourceSync, SequenceTheorems, FiniteSetTheorems, TLAPS

AllSlugs == Slugs \cup Fresh
Statuses == {"ACTIVE"} \cup {call.status : call \in Calls}
ProductRow == [slug : AllSlugs, status : Statuses, ver : Nat, price : 0..2]
Document == [ver : Nat, names : Nat]
Entry == [id : Nat, ver : Nat, price : 0..2, raced : BOOLEAN]
AnyKey == ({"id"} \X Nat) \cup ({"slug"} \X AllSlugs) \cup Requests
PCs == {"new", "get", "load", "fill", "create", "insert", "update", "check", "write", "drop",
        "price", "withdraw", "rename", "upload", "record", "delete", "unlink", "answered",
        "refused"}
Place == [pc : PCs, call : Calls \cup {NoCall}, old : AllSlugs \cup {None},
          new : AllSlugs \cup {None}, keys : Seq(AnyKey), entry : Entry]

Shapes ==
  /\ products \in Seq(ProductRow) /\ documents \in Seq(Document) /\ Len(documents) = Len(products)
  /\ names \in Nat /\ up \in BOOLEAN
  /\ cache \in [Layers -> [Keys -> Entry]]
  /\ assets \in [Requests -> {"none", "READY", "DELETED"}] /\ objects \subseteq Requests
  /\ req \in [Requests -> Place]

KeysOf(i) == {<<"id", i>>, <<"slug", products[i].slug>>}
\* What a request has read and still holds of it.
PlaceOK(p) ==
  /\ p.pc \notin Final \cup {"new"} => p.call \in Calls /\ p.call.id \in DOMAIN products
  /\ p.pc = "create" => p.call.op = "create"
  /\ p.pc \in {"insert", "write"} => p.new \in AllSlugs
  /\ p.pc \in {"check", "write"} => p.old \in AllSlugs
  /\ p.pc \in {"fill", "drop"} => p.keys # <<>>
  /\ p.pc = "fill" =>
       /\ p.entry.id \in DOMAIN products
       /\ ~p.entry.raced => Current(p.entry) /\ \A n \in DOMAIN p.keys : p.keys[n] \in KeysOf(p.entry.id)
PlacesOK == \A r \in Requests : PlaceOK(req[r])

\* An update of the product i has still to empty the cache at k.
Owed(k, i) ==
  \E r \in Requests :
    At(r, "drop") /\ Asked(r).id = i /\ \E n \in DOMAIN req[r].keys : req[r].keys[n] = k
EntryOK(e, k) ==
  e.id # 0 =>
    /\ e.id \in DOMAIN products
    /\ ~e.raced => (Current(e) /\ k \in KeysOf(e.id)) \/ Owed(k, e.id)
CacheOK == \A l \in Layers, k \in Keys : EntryOK(cache[l][k], k)

\* An upload writes its row last; a deletion marks the row before it touches the object.
MediaOK ==
  \A r \in Requests :
    /\ assets[r] # "none" => req[r].pc \in Final
    /\ At(r, "record") => r \in objects
    /\ assets[r] = "READY" => r \in objects
    /\ At(r, "unlink") => req[r].keys[1] \in Requests /\ assets[req[r].keys[1]] = "DELETED"

IInv == Shapes /\ PlacesOK /\ CacheOK /\ MediaOK

-----------------------------------------------------------------------------
LEMMA Sequence ==
  ASSUME NEW S, NEW s \in Seq(S)
  PROVE  /\ Len(s) \in Nat /\ DOMAIN s = 1..Len(s) /\ \A i \in DOMAIN s : i \in Nat /\ s[i] \in S
         /\ s # <<>> => Len(s) # 0
BY LenProperties, ElementOfSeq, EmptySeq

LEMMA Appended ==
  ASSUME NEW S, NEW s \in Seq(S), NEW e \in S
  PROVE  /\ Append(s, e) \in Seq(S) /\ Len(Append(s, e)) = Len(s) + 1
         /\ \A i \in DOMAIN s : i \in DOMAIN Append(s, e) /\ Append(s, e)[i] = s[i]
<1>1. DOMAIN s = 1..Len(s) /\ Len(s) \in Nat
  BY LenProperties
<1>2. /\ Append(s, e) \in Seq(S) /\ Len(Append(s, e)) = Len(s) + 1
      /\ \A i \in 1..Len(s) : Append(s, e)[i] = s[i]
  BY AppendProperties
<1>3. DOMAIN Append(s, e) = 1..(Len(s) + 1)
  BY <1>2, LenProperties
<1> QED
  BY <1>1, <1>2, <1>3

LEMMA Mapped ==
  ASSUME NEW S, NEW s \in Seq(S), NEW t \in [DOMAIN s -> S]
  PROVE  t \in Seq(S) /\ Len(t) = Len(s) /\ DOMAIN t = DOMAIN s
<1>1. DOMAIN s = 1..Len(s) /\ Len(s) \in Nat
  BY LenProperties
<1>2. t \in Seq(S)
  BY <1>1, SeqDef
<1>3. DOMAIN t = 1..Len(t) /\ Len(t) \in Nat
  BY <1>2, LenProperties
<1> QED
  BY <1>1, <1>2, <1>3

LEMMA Tailed ==
  ASSUME NEW S, NEW s \in Seq(S), Len(s) # 1, s # <<>>
  PROVE  /\ Tail(s) \in Seq(S) /\ Tail(s) # <<>> /\ Head(s) = s[1] /\ 1 \in DOMAIN s
         /\ \A n \in DOMAIN Tail(s) : n + 1 \in DOMAIN s /\ Tail(s)[n] = s[n + 1]
         /\ \A n \in DOMAIN s : n # 1 => \E m \in DOMAIN Tail(s) : Tail(s)[m] = s[n]
<1>1. Len(s) \in Nat /\ Len(s) # 0 /\ DOMAIN s = 1..Len(s)
  BY Sequence
<1>2. /\ Head(s) = s[1] /\ Tail(s) \in Seq(S) /\ Len(Tail(s)) = Len(s) - 1
      /\ \A i \in 1..(Len(s) - 1) : Tail(s)[i] = s[i + 1]
  BY HeadTailProperties
<1>3. DOMAIN Tail(s) = 1..(Len(s) - 1)
  BY <1>2, LenProperties
<1>4. Len(Tail(s)) # 0 /\ Len(<<>>) = 0
  BY <1>1, <1>2
<1>5. Tail(s) # <<>>
  BY <1>4
<1>6. ASSUME NEW n \in DOMAIN s, n # 1 PROVE \E m \in DOMAIN Tail(s) : Tail(s)[m] = s[n]
  <2>1. n - 1 \in DOMAIN Tail(s) /\ Tail(s)[n - 1] = s[n]
    BY <1>1, <1>2, <1>3, <1>6
  <2> QED
    BY <2>1
<1> QED
  BY <1>1, <1>2, <1>3, <1>5, <1>6

LEMMA Joined ==
  ASSUME NEW S, NEW s \in Seq(S), NEW t \in Seq(S)
  PROVE  /\ s \o t \in Seq(S) /\ (Len(s) # 0 => s \o t # <<>>)
         /\ \A n \in DOMAIN s : n \in DOMAIN (s \o t) /\ (s \o t)[n] = s[n]
<1>1. /\ s \o t \in Seq(S) /\ Len(s \o t) = Len(s) + Len(t)
      /\ \A n \in 1..Len(s) + Len(t) : (s \o t)[n] = IF n <= Len(s) THEN s[n] ELSE t[n - Len(s)]
  BY ConcatProperties
<1>2. /\ DOMAIN s = 1..Len(s) /\ DOMAIN (s \o t) = 1..Len(s \o t)
      /\ Len(s) \in Nat /\ Len(t) \in Nat
  BY <1>1, LenProperties
<1>3. Len(s) # 0 => Len(s \o t) # 0
  BY <1>1, <1>2
<1>4. Len(<<>>) = 0
  OBVIOUS
<1>5. Len(s) # 0 => s \o t # <<>>
  BY <1>3, <1>4
<1> QED
  BY <1>1, <1>2, <1>5

LEMMA Elements ==
  ASSUME Shapes
  PROVE  /\ Len(products) \in Nat /\ DOMAIN products = 1..Len(products)
         /\ DOMAIN documents = DOMAIN products
         /\ \A i \in DOMAIN products : i \in Nat /\ i # 0 /\ products[i] \in ProductRow
         /\ \A r \in Requests : req[r] \in Place
         /\ \A l \in Layers, k \in Keys : cache[l][k] \in Entry
         /\ Layer \in Layers
<1>1. /\ Len(products) \in Nat /\ DOMAIN products = 1..Len(products)
      /\ \A i \in DOMAIN products : i \in Nat /\ products[i] \in ProductRow
      /\ DOMAIN documents = 1..Len(documents)
  BY Sequence DEF Shapes
<1> QED
  BY <1>1 DEF Shapes, Layers, Layer

\* The call of a request that is under way.
LEMMA Called ==
  ASSUME Shapes, PlacesOK, NEW r \in Requests, req[r].pc \notin Final \cup {"new"}
  PROVE  /\ Asked(r) \in Calls /\ Asked(r).id \in DOMAIN products /\ Asked(r).id \in Nat \ {0}
         /\ Asked(r).slug \in Slugs \cup {None} /\ Asked(r).status \in Statuses
         /\ req[r] \in Place
<1>1. PlaceOK(req[r]) /\ req[r] \in Place
  BY DEF PlacesOK, Shapes
<1>2. req[r].call \in Calls /\ req[r].call.id \in DOMAIN products
  BY <1>1 DEF PlaceOK
<1> QED
  BY <1>1, <1>2, CatalogueAssumption DEF Asked, Statuses

-----------------------------------------------------------------------------
(* What every step but an update keeps of the products for the other requests. *)

Kept == /\ \A i \in DOMAIN products : i \in DOMAIN products'
        /\ \A i \in DOMAIN products : products'[i].slug = products[i].slug
        /\ \A i \in DOMAIN products : products'[i].ver = products[i].ver

LEMMA PlaceStays ==
  ASSUME Kept, NEW p, PlaceOK(p)
  PROVE  PlaceOK(p)'
BY DEF PlaceOK, Kept, Current, KeysOf, Final

\* One request moves to a place that is right; the others stay.
Moves(r) == \E p \in Place : PlaceOK(p) /\ req' = [req EXCEPT ![r] = p]

LEMMA PlacesStay ==
  ASSUME IInv, Kept, NEW r \in Requests, Moves(r)
  PROVE  PlacesOK' /\ req' \in [Requests -> Place]
<1>1. PICK p \in Place : PlaceOK(p) /\ req' = [req EXCEPT ![r] = p]
  BY DEF Moves
<1>2. ASSUME NEW q \in Requests PROVE PlaceOK(req[q])'
  <2>1. PICK k : k = (IF q = r THEN p ELSE req[q])
    OBVIOUS
  <2>2. req'[q] = k /\ PlaceOK(k)
    BY <1>1, <2>1 DEF IInv, Shapes, PlacesOK
  <2>3. PlaceOK(k)'
    BY <2>2, PlaceStays
  <2> QED
    BY <2>2, <2>3 DEF PlaceOK, Current, KeysOf
<1>3. req' \in [Requests -> Place]
  BY <1>1 DEF IInv, Shapes
<1> QED
  BY <1>2, <1>3 DEF PlacesOK

\* Where a step ends that ends the request or only names the next statement.
LEMMA Going ==
  ASSUME IInv, NEW r \in Requests, NEW pc \in PCs, Goto(r, pc),
         pc \notin Final => PlaceOK([req[r] EXCEPT !.pc = pc])
  PROVE  Moves(r)
<1>1. req[r] \in Place
  BY DEF IInv, Shapes
<1>2. CASE pc \in Final
  <2>1. <<>> \in Seq(AnyKey) /\ NoEntry \in Entry
    BY EmptySeq DEF NoEntry, Entry
  <2>2. [Idle EXCEPT !.pc = pc] = [pc |-> pc, call |-> NoCall, old |-> None, new |-> None,
                                   keys |-> <<>>, entry |-> NoEntry]
    BY DEF Idle
  <2>3. [Idle EXCEPT !.pc = pc] \in Place
    BY <2>1, <2>2 DEF Place
  <2> QED
    BY <1>2, <2>3 DEF Goto, Moves, PlaceOK, Idle, Final
<1>3. CASE pc \notin Final
  <2>1. [req[r] EXCEPT !.pc = pc] \in Place
    BY <1>1 DEF Place
  <2>2. req' = [req EXCEPT ![r] = [req[r] EXCEPT !.pc = pc]]
    BY <1>3 DEF Goto
  <2> QED
    BY <1>3, <2>1, <2>2 DEF Moves
<1> QED
  BY <1>2, <1>3
-----------------------------------------------------------------------------
(* What such a step leaves alone. *)

LEMMA OwedStays ==
  ASSUME IInv, NEW r \in Requests, ~At(r, "drop"), Moves(r), NEW k, NEW i, Owed(k, i)
  PROVE  Owed(k, i)'
<1>1. PICK q \in Requests :
        At(q, "drop") /\ Asked(q).id = i /\ \E n \in DOMAIN req[q].keys : req[q].keys[n] = k
  BY DEF Owed
<1>2. q # r
  BY <1>1
<1>3. req'[q] = req[q]
  BY <1>2 DEF Moves, IInv, Shapes
<1> QED
  BY <1>1, <1>3 DEF Owed, At, Asked

LEMMA EntryStays ==
  ASSUME Kept, NEW e, NEW k, EntryOK(e, k), \A i : Owed(k, i) => Owed(k, i)'
  PROVE  EntryOK(e, k)'
BY DEF EntryOK, Kept, Current, KeysOf

LEMMA CacheStays ==
  ASSUME IInv, Kept, NEW r \in Requests, ~At(r, "drop"), Moves(r), cache' = cache
  PROVE  CacheOK'
<1>1. ASSUME NEW l \in Layers, NEW k \in Keys PROVE EntryOK(cache[l][k], k)'
  <2>1. PICK e : e = cache[l][k]
    OBVIOUS
  <2>2. EntryOK(e, k)
    BY <2>1 DEF IInv, CacheOK
  <2>3. EntryOK(e, k)'
    BY <2>2, OwedStays, EntryStays
  <2>4. cache'[l][k] = e
    BY <2>1
  <2> QED
    BY <2>3, <2>4 DEF EntryOK, Current, KeysOf
<1> QED
  BY <1>1 DEF CacheOK, Layers, Keys, Ids

LEMMA MediaStays ==
  ASSUME IInv, NEW r \in Requests, req[r].pc \notin Final, Moves(r), UNCHANGED Media,
         req'[r].pc \notin {"record", "unlink"}
  PROVE  MediaOK'
<1>1. PICK p \in Place : req' = [req EXCEPT ![r] = p]
  BY DEF Moves
<1>2. ASSUME NEW q \in Requests, q # r PROVE req'[q] = req[q]
  BY <1>1, <1>2 DEF IInv, Shapes
<1>3. assets[r] = "none"
  BY DEF IInv, MediaOK
<1>4. ASSUME NEW q \in Requests
      PROVE  /\ assets'[q] # "none" => req'[q].pc \in Final
             /\ req'[q].pc = "record" => q \in objects'
             /\ assets'[q] = "READY" => q \in objects'
             /\ req'[q].pc = "unlink" =>
                  req'[q].keys[1] \in Requests /\ assets'[req'[q].keys[1]] = "DELETED"
  <2>1. CASE q = r
    BY <1>3, <2>1 DEF Media
  <2>2. CASE q # r
    BY <1>2, <2>2 DEF Media, IInv, MediaOK, At
  <2> QED
    BY <2>1, <2>2
<1> QED
  BY <1>4 DEF MediaOK, At

LEMMA PlainStep ==
  ASSUME IInv, NEW r \in Requests, req[r].pc \notin Final \cup {"drop"}, Moves(r),
         req'[r].pc \notin {"record", "unlink"}, UNCHANGED <<Rows, up, cache, Media>>
  PROVE  IInv'
<1>1. Kept
  BY DEF Kept, Rows
<1>2. PlacesOK' /\ req' \in [Requests -> Place]
  BY <1>1, PlacesStay
<1>3. CacheOK'
  BY <1>1, CacheStays DEF At
<1>4. MediaOK'
  BY MediaStays
<1>5. Shapes'
  BY <1>2 DEF IInv, Shapes, Rows, Media, Layers, Keys, Ids
<1> QED
  BY <1>2, <1>3, <1>4, <1>5 DEF IInv

\* A step that only names the next statement, or ends the request.
LEMMA GoingOn ==
  ASSUME IInv, NEW r \in Requests, req[r].pc \notin Final \cup {"drop"},
         NEW pc \in PCs \ {"record", "unlink"}, Goto(r, pc),
         pc \notin Final => PlaceOK([req[r] EXCEPT !.pc = pc]),
         UNCHANGED <<Rows, up, cache, Media>>
  PROVE  IInv'
<1>1. Moves(r)
  BY Going
<1>2. req'[r].pc = pc
  BY DEF Goto, IInv, Shapes, Place, Idle
<1> QED
  BY <1>1, <1>2, PlainStep
-----------------------------------------------------------------------------
(* Reads. *)

LEMMA SendKeeps ==
  ASSUME IInv, NEW r \in Requests, NEW call \in Calls, Send(r, call)
  PROVE  IInv'
<1> DEFINE p == [req[r] EXCEPT !.pc = call.op, !.call = call]
<1>1. req[r] \in Place /\ Len(products) \in Nat /\ DOMAIN products = 1..Len(products)
  BY Elements DEF IInv, Shapes
<1>2. p \in Place /\ p.pc = call.op /\ p.call = call
  BY <1>1, CatalogueAssumption DEF Place, PCs
<1>3. call.op \notin Final \cup {"insert", "write", "check", "fill", "drop", "record", "unlink"}
  BY CatalogueAssumption DEF Final
<1>4. call.id \in DOMAIN products
  BY <1>1, CatalogueAssumption DEF Send
<1>5. PlaceOK(p)
  BY <1>2, <1>3, <1>4 DEF PlaceOK
<1>6. req' = [req EXCEPT ![r] = p] /\ req[r].pc = "new"
  BY DEF Send, At
<1>7. Moves(r) /\ req'[r] = p
  BY <1>2, <1>5, <1>6 DEF Moves, IInv, Shapes
<1> QED
  BY <1>2, <1>3, <1>6, <1>7, PlainStep DEF Send, Final

LEMMA GetCachedKeeps ==
  ASSUME IInv, NEW r \in Requests, GetCached(r)
  PROVE  IInv'
<1>1. PICK pc \in {"answered", "load"} : Goto(r, pc)
  BY DEF GetCached
<1>2. req[r].pc = "get" /\ Asked(r) \in Calls /\ Asked(r).id \in DOMAIN products /\ req[r] \in Place
  BY Called DEF GetCached, At, IInv, Final
<1>3. PlaceOK([req[r] EXCEPT !.pc = "load"])
  BY <1>2 DEF PlaceOK, Asked, Place, Final
<1> QED
  BY <1>1, <1>2, <1>3, GoingOn DEF GetCached, PCs, Final

LEMMA LoadKeeps ==
  ASSUME IInv, NEW r \in Requests, Load(r)
  PROVE  IInv'
<1>1. /\ req[r].pc = "load" /\ Asked(r) \in Calls /\ Asked(r).id \in DOMAIN products
      /\ Asked(r).id \in Nat /\ Asked(r).slug \in Slugs \cup {None} /\ req[r] \in Place
  BY Called DEF Load, At, IInv, Final
<1>2. CASE Goto(r, "refused")
  BY <1>1, <1>2, GoingOn DEF Load, PCs, Final
<1>3. ASSUME NEW i \in DOMAIN products, products[i].status = "ACTIVE",
             KeyAsked(r) \in {<<"id", i>>, <<"slug", products[i].slug>>},
             req' = [req EXCEPT ![r].pc = "fill", ![r].keys = FillKeys(r, i),
                 ![r].entry = [id |-> i, ver |-> products[i].ver,
                               price |-> products[i].price, raced |-> FALSE]]
      PROVE  IInv'
  <2> DEFINE e == [id |-> i, ver |-> products[i].ver, price |-> products[i].price, raced |-> FALSE]
             p == [req[r] EXCEPT !.pc = "fill", !.keys = FillKeys(r, i), !.entry = e]
  <2>1. i \in Nat /\ products[i] \in ProductRow
    BY Elements DEF IInv
  <2>2. e \in Entry /\ Current(e) /\ KeysOf(i) \subseteq AnyKey
    BY <2>1 DEF ProductRow, Entry, Current, KeysOf, AnyKey
  <2>3. PICK K : K = KeysOf(i) /\ FillKeys(r, i) \in Seq(K) /\ FillKeys(r, i) # <<>>
    <3>1. PICK a, b, c : a = KeyAsked(r) /\ b = <<"slug", products[i].slug>> /\ c = <<"id", i>>
      OBVIOUS
    <3>2. PICK K : K = KeysOf(i) /\ a \in K /\ b \in K /\ c \in K
      BY <1>3, <3>1 DEF KeysOf
    <3>3. PICK m : m = (IF a[1] = "id" THEN <<b>> ELSE <<>>)
      OBVIOUS
    <3>4. <<a>> \in Seq(K) /\ Len(<<a>>) = 1 /\ m \in Seq(K) /\ <<c>> \in Seq(K)
      BY <3>2, <3>3
    <3>5. Len(<<a>> \o m) = 1 + Len(m) /\ <<a>> \o m \in Seq(K) /\ Len(m) \in Nat
      BY <3>4, ConcatProperties, LenProperties
    <3>6. (<<a>> \o m) \o <<c>> \in Seq(K) /\ (<<a>> \o m) \o <<c>> # <<>>
      BY <3>4, <3>5, Joined
    <3>7. FillKeys(r, i) = (<<a>> \o m) \o <<c>>
      BY <3>1, <3>3 DEF FillKeys
    <3> QED
      BY <3>2, <3>6, <3>7
  <2>4. /\ FillKeys(r, i) \in Seq(AnyKey) /\ FillKeys(r, i) # <<>>
        /\ \A n \in DOMAIN FillKeys(r, i) : FillKeys(r, i)[n] \in KeysOf(i)
    <3>1. K \subseteq AnyKey
      BY <2>2, <2>3
    <3>2. \A f \in Seq(K) : f \in Seq(AnyKey) /\ \A n \in DOMAIN f : f[n] \in K
      BY <3>1, SeqDef, ElementOfSeq
    <3> QED
      BY <2>3, <3>2
  <2>5. p \in Place /\ p.pc = "fill" /\ p.call = Asked(r) /\ p.keys = FillKeys(r, i) /\ p.entry = e
    BY <1>1, <2>2, <2>4 DEF Place, PCs, Asked
  <2>6. e.id = i /\ ~e.raced
    OBVIOUS
  <2> HIDE DEF e, p
  <2>7. PlaceOK(p)
    BY <1>1, <2>2, <2>4, <2>5, <2>6 DEF PlaceOK
  <2>8. req' = [req EXCEPT ![r] = p]
    BY <1>3 DEF e, p
  <2>9. Moves(r) /\ req'[r] = p
    BY <2>5, <2>7, <2>8 DEF Moves, IInv, Shapes
  <2> QED
    BY <1>1, <2>5, <2>9, PlainStep DEF Load, Final
<1> QED
  BY <1>2, <1>3 DEF Load
-----------------------------------------------------------------------------
(* Steps of an administrator that change no cache. *)

LEMMA CheckSlugKeeps ==
  ASSUME IInv, NEW r \in Requests, CheckSlug(r)
  PROVE  IInv'
<1>1. /\ req[r].pc = "create" /\ Asked(r) \in Calls /\ Asked(r).id \in DOMAIN products
      /\ req[r] \in Place /\ PlaceOK(req[r])
  BY Called DEF CheckSlug, At, IInv, Final, PlacesOK
<1>2. Asked(r).slug \in Slugs
  BY <1>1, CatalogueAssumption DEF PlaceOK, Asked
<1>3. PICK s \in Allocated(Asked(r).slug, 0) :
        req' = [req EXCEPT ![r].pc = "insert", ![r].new = s]
  BY DEF CheckSlug
<1>4. s \in AllSlugs
  BY <1>2, <1>3 DEF Allocated, AllSlugs
<1> DEFINE p == [req[r] EXCEPT !.pc = "insert", !.new = s]
<1>5. p \in Place /\ p.pc = "insert" /\ p.call = Asked(r) /\ p.new = s
  BY <1>1, <1>4 DEF Place, PCs, Asked
<1>6. req' = [req EXCEPT ![r] = p]
  BY <1>3
<1> HIDE DEF p
<1>7. PlaceOK(p)
  BY <1>1, <1>4, <1>5 DEF PlaceOK
<1>8. Moves(r) /\ req'[r] = p
  BY <1>5, <1>6, <1>7 DEF Moves, IInv, Shapes
<1> QED
  BY <1>1, <1>5, <1>8, PlainStep DEF CheckSlug, Final

LEMMA FindProductKeeps ==
  ASSUME IInv, NEW r \in Requests, FindProduct(r)
  PROVE  IInv'
<1>1. /\ req[r].pc = "update" /\ Asked(r) \in Calls /\ Asked(r).id \in DOMAIN products
      /\ req[r] \in Place
  BY Called DEF FindProduct, At, IInv, Final
<1>2. PICK s : s = products[Asked(r).id].slug
  OBVIOUS
<1>3. s \in AllSlugs
  BY <1>1, <1>2, Elements DEF IInv, ProductRow
<1> DEFINE p == [req[r] EXCEPT !.pc = "check", !.old = s]
<1>4. p \in Place /\ p.pc = "check" /\ p.call = Asked(r) /\ p.old = s
  BY <1>1, <1>3 DEF Place, PCs, Asked
<1>5. req' = [req EXCEPT ![r] = p]
  BY <1>2 DEF FindProduct
<1> HIDE DEF p
<1>6. PlaceOK(p)
  BY <1>1, <1>3, <1>4 DEF PlaceOK
<1>7. Moves(r) /\ req'[r] = p
  BY <1>4, <1>5, <1>6 DEF Moves, IInv, Shapes
<1> QED
  BY <1>1, <1>4, <1>7, PlainStep DEF FindProduct, Final

LEMMA CheckKeeps ==
  ASSUME IInv, NEW r \in Requests, Check(r)
  PROVE  IInv'
<1>1. /\ req[r].pc = "check" /\ Asked(r) \in Calls /\ Asked(r).id \in DOMAIN products
      /\ Asked(r).slug \in Slugs \cup {None} /\ req[r] \in Place /\ req[r].old \in AllSlugs
  BY Called DEF Check, At, IInv, Final, PlacesOK, PlaceOK
<1>2. CASE Goto(r, "refused")
  BY <1>1, <1>2, GoingOn DEF Check, PCs, Final
<1>3. ASSUME NEW s \in (IF Asked(r).slug \in {None, req[r].old} THEN {req[r].old}
                        ELSE Allocated(Asked(r).slug, Asked(r).id)),
             req' = [req EXCEPT ![r].pc = "write", ![r].new = s]
      PROVE  IInv'
  <2> DEFINE p == [req[r] EXCEPT !.pc = "write", !.new = s]
  <2>1. s \in AllSlugs
    BY <1>1, <1>3 DEF Allocated, AllSlugs
  <2>2. p \in Place /\ p.pc = "write" /\ p.call = Asked(r) /\ p.new = s /\ p.old = req[r].old
    BY <1>1, <2>1 DEF Place, PCs, Asked
  <2>3. req' = [req EXCEPT ![r] = p]
    BY <1>3
  <2> HIDE DEF p
  <2>4. PlaceOK(p)
    BY <1>1, <2>1, <2>2 DEF PlaceOK
  <2>5. Moves(r) /\ req'[r] = p
    BY <2>2, <2>3, <2>4 DEF Moves, IInv, Shapes
  <2> QED
    BY <1>1, <2>2, <2>5, PlainStep DEF Check, Final
<1> QED
  BY <1>2, <1>3 DEF Check

\* A step that changes the products or the names but neither a slug nor a version.
LEMMA RowStep ==
  ASSUME IInv, NEW r \in Requests, req[r].pc \notin Final \cup {"drop"}, Kept,
         NEW pc \in Final, Goto(r, pc), UNCHANGED <<up, cache, Media>>,
         products' \in Seq(ProductRow), documents' \in Seq(Document), Len(documents') = Len(products'),
         names' \in Nat
  PROVE  IInv'
<1>1. Moves(r)
  BY Going DEF Final, PCs
<1>2. req'[r].pc = pc
  BY DEF Goto, IInv, Shapes, Place, Idle
<1>3. PlacesOK' /\ req' \in [Requests -> Place]
  BY <1>1, PlacesStay
<1>4. CacheOK'
  BY <1>1, CacheStays DEF At
<1>5. MediaOK'
  BY <1>1, <1>2, MediaStays DEF Final
<1>6. Shapes'
  BY <1>3 DEF IInv, Shapes, Media, Layers, Keys, Ids
<1> QED
  BY <1>3, <1>4, <1>5, <1>6 DEF IInv

LEMMA CreateKeeps ==
  ASSUME IInv, NEW r \in Requests, Create(r)
  PROVE  IInv'
<1>1. /\ req[r].pc = "insert" /\ Asked(r).status \in Statuses /\ req[r].new \in AllSlugs
  BY Called DEF Create, At, IInv, Final, PlacesOK, PlaceOK
<1>2. CASE SlugTaken(req[r].new, 0)
  BY <1>1, <1>2, GoingOn DEF Create, PCs, Final, Rows
<1>3. CASE ~SlugTaken(req[r].new, 0)
  <2>1. PICK row, doc : row = Product(req[r].new, Asked(r).status, 1)
                        /\ doc = [ver |-> 1, names |-> names]
    OBVIOUS
  <2>2. row \in ProductRow /\ doc \in Document
    BY <1>1, <2>1 DEF Product, ProductRow, Document, IInv, Shapes
  <2>3. products' = Append(products, row) /\ documents' = Append(documents, doc)
        /\ Goto(r, "answered") /\ UNCHANGED <<names, up, cache, Media>>
    BY <1>3, <2>1 DEF Create
  <2>4. /\ products' \in Seq(ProductRow) /\ Len(products') = Len(products) + 1
        /\ documents' \in Seq(Document) /\ Len(documents') = Len(documents) + 1
        /\ \A i \in DOMAIN products : i \in DOMAIN products' /\ products'[i] = products[i]
    BY <2>2, <2>3, Appended DEF IInv, Shapes
  <2>5. Kept
    BY <2>4 DEF Kept
  <2> QED
    BY <1>1, <2>3, <2>4, <2>5, RowStep DEF Final, IInv, Shapes
<1> QED
  BY <1>2, <1>3

LEMMA SetOfferKeeps ==
  ASSUME IInv, NEW r \in Requests, SetOffer(r)
  PROVE  IInv'
<1>1. /\ req[r].pc \in {"price", "withdraw"}
  BY DEF SetOffer, At
<1>2. Asked(r).id \in DOMAIN products
  BY <1>1, Called DEF IInv, Final
<1>3. PICK c \in {0, 2} : products' = [products EXCEPT ![Asked(r).id].price = c]
  BY DEF SetOffer
<1>4. /\ \A i \in DOMAIN products : products[i] \in ProductRow /\ products'[i] \in ProductRow
      /\ \A i \in DOMAIN products :
           products'[i].slug = products[i].slug /\ products'[i].ver = products[i].ver
  BY <1>3, Elements DEF IInv, ProductRow
<1>5. products' \in [DOMAIN products -> ProductRow]
  BY <1>3, <1>4
<1>6. products' \in Seq(ProductRow) /\ Len(products') = Len(products) /\ DOMAIN products' = DOMAIN products
  BY <1>5, Mapped DEF IInv, Shapes
<1>7. Kept
  BY <1>4, <1>6 DEF Kept
<1> QED
  BY <1>1, <1>6, <1>7, RowStep DEF SetOffer, Final, IInv, Shapes

LEMMA RenameKeeps ==
  ASSUME IInv, NEW r \in Requests, Rename(r)
  PROVE  IInv'
<1>1. Kept /\ names' \in Nat
  BY DEF Rename, Kept, IInv, Shapes
<1> QED
  BY <1>1, RowStep DEF Rename, At, Final, IInv, Shapes

-----------------------------------------------------------------------------
(* Images. *)

LEMMA NoMediaKeeps ==
  ASSUME IInv, NEW r \in Requests, NoMedia(r)
  PROVE  IInv'
BY GoingOn DEF NoMedia, At, PCs, Final

\* A step of an upload or a deletion: the products and the cache are as they were.
LEMMA MediaStep ==
  ASSUME IInv, NEW r \in Requests, req[r].pc \notin Final \cup {"drop"}, Moves(r),
         UNCHANGED <<Rows, up, cache>>,
         assets' \in [Requests -> {"none", "READY", "DELETED"}], objects' \subseteq Requests,
         MediaOK'
  PROVE  IInv'
<1>1. Kept
  BY DEF Kept, Rows
<1>2. PlacesOK' /\ req' \in [Requests -> Place]
  BY <1>1, PlacesStay
<1>3. CacheOK'
  BY <1>1, CacheStays DEF At
<1>4. Shapes'
  BY <1>2 DEF IInv, Shapes, Rows, Layers, Keys, Ids
<1> QED
  BY <1>2, <1>3, <1>4 DEF IInv

LEMMA OtherPlaces ==
  ASSUME IInv, NEW r \in Requests, NEW q \in Requests, q # r, Moves(r)
  PROVE  req'[q] = req[q]
BY DEF Moves, IInv, Shapes

LEMMA PutKeeps ==
  ASSUME IInv, NEW r \in Requests, Put(r)
  PROVE  IInv'
<1>1. /\ req[r].pc = "upload" /\ Asked(r) \in Calls /\ Asked(r).id \in DOMAIN products
      /\ req[r] \in Place
  BY Called DEF Put, At, IInv, Final
<1>2. PlaceOK([req[r] EXCEPT !.pc = "record"])
  BY <1>1 DEF PlaceOK, Asked, Place, Final
<1>3. Moves(r)
  BY <1>2, Going DEF Put, PCs
<1>4. req'[r].pc = "record"
  BY <1>1 DEF Put, Goto, Final, IInv, Shapes, Place
<1>5. assets[r] = "none"
  BY <1>1 DEF IInv, MediaOK, Final
<1>6. objects' = objects \cup {r} /\ assets' = assets /\ UNCHANGED <<Rows, up, cache>>
  BY DEF Put
<1>7. ASSUME NEW q \in Requests
      PROVE  /\ assets'[q] # "none" => req'[q].pc \in Final
             /\ req'[q].pc = "record" => q \in objects'
             /\ assets'[q] = "READY" => q \in objects'
             /\ req'[q].pc = "unlink" =>
                  req'[q].keys[1] \in Requests /\ assets'[req'[q].keys[1]] = "DELETED"
  <2>1. CASE q = r
    BY <1>4, <1>5, <1>6, <2>1
  <2>2. CASE q # r
    BY <1>3, <1>6, <2>2, OtherPlaces DEF IInv, MediaOK, At
  <2> QED
    BY <2>1, <2>2
<1>8. MediaOK'
  BY <1>7 DEF MediaOK, At
<1> QED
  BY <1>1, <1>3, <1>6, <1>8, MediaStep DEF Final, IInv, Shapes

LEMMA CreateMediaKeeps ==
  ASSUME IInv, NEW r \in Requests, CreateMedia(r)
  PROVE  IInv'
<1>1. req[r].pc = "record" /\ r \in objects /\ assets[r] = "none"
  BY DEF CreateMedia, At, IInv, MediaOK, Final
<1>2. Moves(r)
  BY Going DEF CreateMedia, PCs, Final
<1>3. req'[r].pc = "answered"
  BY DEF CreateMedia, Goto, Final, IInv, Shapes, Idle
<1>4. /\ assets' = [assets EXCEPT ![r] = "READY"] /\ objects' = objects /\ UNCHANGED <<Rows, up, cache>>
      /\ assets \in [Requests -> {"none", "READY", "DELETED"}]
  BY DEF CreateMedia, IInv, Shapes
<1>5. ASSUME NEW q \in Requests
      PROVE  /\ assets'[q] # "none" => req'[q].pc \in Final
             /\ req'[q].pc = "record" => q \in objects'
             /\ assets'[q] = "READY" => q \in objects'
             /\ req'[q].pc = "unlink" =>
                  req'[q].keys[1] \in Requests /\ assets'[req'[q].keys[1]] = "DELETED"
  <2>1. CASE q = r
    BY <1>1, <1>3, <1>4, <2>1 DEF Final
  <2>2. CASE q # r
    BY <1>1, <1>2, <1>4, <2>2, OtherPlaces DEF IInv, MediaOK, At
  <2> QED
    BY <2>1, <2>2
<1>6. MediaOK'
  BY <1>5 DEF MediaOK, At
<1> QED
  BY <1>1, <1>2, <1>4, <1>6, MediaStep DEF Final, IInv, Shapes

LEMMA DeleteMediaKeeps ==
  ASSUME IInv, NEW r \in Requests, NEW d \in Requests, DeleteMedia(r, d)
  PROVE  IInv'
<1>1. /\ req[r].pc = "delete" /\ Asked(r) \in Calls /\ Asked(r).id \in DOMAIN products
      /\ req[r] \in Place /\ assets[d] = "READY"
  BY Called DEF DeleteMedia, At, IInv, Final
<1> DEFINE p == [req[r] EXCEPT !.pc = "unlink", !.keys = <<d>>]
<1>2. <<d>> \in Seq(AnyKey) /\ <<d>>[1] = d
  BY DEF AnyKey
<1>3. p \in Place /\ p.pc = "unlink" /\ p.call = Asked(r) /\ p.keys = <<d>>
  BY <1>1, <1>2 DEF Place, PCs, Asked
<1>4. /\ req' = [req EXCEPT ![r] = p] /\ objects' = objects /\ UNCHANGED <<Rows, up, cache>>
      /\ assets' = [assets EXCEPT ![d] = "DELETED"]
      /\ assets \in [Requests -> {"none", "READY", "DELETED"}]
  BY DEF DeleteMedia, IInv, Shapes
<1> HIDE DEF p
<1>5. PlaceOK(p)
  BY <1>1, <1>3 DEF PlaceOK
<1>6. Moves(r) /\ req'[r] = p
  BY <1>3, <1>4, <1>5 DEF Moves, IInv, Shapes
<1>7. assets[r] = "none" /\ req[d].pc \in Final /\ d # r
  BY <1>1 DEF IInv, MediaOK, Final
<1>8. ASSUME NEW q \in Requests
      PROVE  /\ assets'[q] # "none" => req'[q].pc \in Final
             /\ req'[q].pc = "record" => q \in objects'
             /\ assets'[q] = "READY" => q \in objects'
             /\ req'[q].pc = "unlink" =>
                  req'[q].keys[1] \in Requests /\ assets'[req'[q].keys[1]] = "DELETED"
  <2>1. CASE q = r
    BY <1>2, <1>3, <1>4, <1>6, <1>7, <2>1
  <2>2. CASE q # r
    BY <1>4, <1>6, <1>7, <2>2, OtherPlaces DEF IInv, MediaOK, At
  <2> QED
    BY <2>1, <2>2
<1>9. MediaOK'
  BY <1>8 DEF MediaOK, At
<1> QED
  BY <1>1, <1>4, <1>6, <1>9, MediaStep DEF Final, IInv, Shapes

LEMMA UnlinkKeeps ==
  ASSUME IInv, NEW r \in Requests, Unlink(r)
  PROVE  IInv'
<1>1. req[r].pc = "unlink" /\ assets[req[r].keys[1]] = "DELETED" /\ assets[r] = "none"
      /\ req[r].keys[1] \in Requests
  BY DEF Unlink, At, IInv, MediaOK, Final
<1>2. Moves(r)
  BY Going DEF Unlink, PCs, Final
<1>3. req'[r].pc = "answered"
  BY DEF Unlink, Goto, Final, IInv, Shapes, Idle
<1>4. req[req[r].keys[1]].pc \in Final
  BY <1>1 DEF IInv, MediaOK
<1>5. /\ objects' \in {objects, objects \ {req[r].keys[1]}} /\ assets' = assets
      /\ UNCHANGED <<Rows, up, cache>>
  BY DEF Unlink
<1>6. ASSUME NEW q \in Requests
      PROVE  /\ assets'[q] # "none" => req'[q].pc \in Final
             /\ req'[q].pc = "record" => q \in objects'
             /\ assets'[q] = "READY" => q \in objects'
             /\ req'[q].pc = "unlink" =>
                  req'[q].keys[1] \in Requests /\ assets'[req'[q].keys[1]] = "DELETED"
  <2>1. CASE q = r
    BY <1>1, <1>3, <1>5, <2>1
  <2>2. CASE q # r
    BY <1>1, <1>2, <1>4, <1>5, <2>2, OtherPlaces DEF IInv, MediaOK, At, Final
  <2> QED
    BY <2>1, <2>2
<1>7. MediaOK'
  BY <1>6 DEF MediaOK, At
<1> QED
  BY <1>1, <1>2, <1>5, <1>7, MediaStep DEF Final, IInv, Shapes
-----------------------------------------------------------------------------
(* The cache. *)

LEMMA CacheStep ==
  ASSUME IInv, NEW r \in Requests, req[r].pc \notin Final, Moves(r),
         req'[r].pc \notin {"record", "unlink"}, UNCHANGED <<Rows, up, Media>>,
         cache' \in [Layers -> [Keys -> Entry]],
         \A l \in Layers, k \in Keys : EntryOK(cache[l][k], k)'
  PROVE  IInv'
<1>1. Kept
  BY DEF Kept, Rows
<1>2. PlacesOK' /\ req' \in [Requests -> Place]
  BY <1>1, PlacesStay
<1>3. MediaOK'
  BY MediaStays
<1>4. CacheOK'
  BY DEF CacheOK, Layers, Keys, Ids, EntryOK, Current, KeysOf
<1>5. Shapes'
  BY <1>2 DEF IInv, Shapes, Rows, Media, Layers, Keys, Ids
<1> QED
  BY <1>2, <1>3, <1>4, <1>5 DEF IInv

\* A request goes on to its next cache command, or is done.
LEMMA Resting ==
  ASSUME IInv, NEW r \in Requests, req[r].pc \in {"fill", "drop"}, Rest(r)
  PROVE  /\ Moves(r) /\ req'[r].pc \in {"answered", req[r].pc}
         /\ Head(req[r].keys) = req[r].keys[1] /\ 1 \in DOMAIN req[r].keys
         /\ \A n \in DOMAIN req[r].keys : n # 1 =>
              /\ req'[r].pc = req[r].pc /\ req'[r].call = req[r].call
              /\ \E m \in DOMAIN req'[r].keys : req'[r].keys[m] = req[r].keys[n]
<1>1. req[r] \in Place /\ PlaceOK(req[r])
  BY DEF IInv, Shapes, PlacesOK
<1>2. PICK s : s = req[r].keys
  OBVIOUS
<1>3. s \in Seq(AnyKey) /\ s # <<>>
  BY <1>1, <1>2 DEF Place, PlaceOK
<1>4. Len(s) \in Nat /\ Len(s) # 0 /\ DOMAIN s = 1..Len(s) /\ Head(s) = s[1]
  BY <1>3, Sequence, HeadTailProperties
<1>5. CASE Len(s) = 1
  <2>1. Goto(r, "answered")
    BY <1>2, <1>5 DEF Rest
  <2>2. Moves(r)
    BY <2>1, Going DEF PCs, Final
  <2>3. req'[r].pc = "answered"
    BY <2>1 DEF Goto, Final, IInv, Shapes, Idle
  <2> QED
    BY <1>2, <1>4, <1>5, <2>2, <2>3
<1>6. CASE Len(s) # 1
  <2> DEFINE p == [req[r] EXCEPT !.keys = Tail(s)]
  <2>1. /\ Tail(s) \in Seq(AnyKey) /\ Tail(s) # <<>>
        /\ \A n \in DOMAIN Tail(s) : n + 1 \in DOMAIN s /\ Tail(s)[n] = s[n + 1]
        /\ \A n \in DOMAIN s : n # 1 => \E m \in DOMAIN Tail(s) : Tail(s)[m] = s[n]
    BY <1>3, <1>6, Tailed
  <2>2. /\ p \in Place /\ p.pc = req[r].pc /\ p.call = req[r].call /\ p.keys = Tail(s)
        /\ p.entry = req[r].entry
    BY <1>1, <2>1 DEF Place
  <2>3. req' = [req EXCEPT ![r] = p]
    BY <1>2, <1>6 DEF Rest
  <2> HIDE DEF p
  <2>4. PlaceOK(p)
    <3>1. p.call \in Calls /\ p.call.id \in DOMAIN products /\ p.keys # <<>>
      BY <1>1, <2>1, <2>2 DEF PlaceOK, Final
    <3>2. p.pc = "fill" =>
            /\ p.entry.id \in DOMAIN products
            /\ ~p.entry.raced =>
                 Current(p.entry) /\ \A n \in DOMAIN p.keys : p.keys[n] \in KeysOf(p.entry.id)
      BY <1>1, <1>2, <2>1, <2>2 DEF PlaceOK
    <3> QED
      BY <2>2, <3>1, <3>2 DEF PlaceOK
  <2>5. Moves(r) /\ req'[r] = p
    BY <2>2, <2>3, <2>4 DEF Moves, IInv, Shapes
  <2>6. req'[r].keys = Tail(s) /\ req'[r].pc = req[r].pc /\ req'[r].call = req[r].call
    BY <2>2, <2>5
  <2>7. ASSUME NEW n \in DOMAIN req[r].keys, n # 1
        PROVE  \E m \in DOMAIN req'[r].keys : req'[r].keys[m] = req[r].keys[n]
    <3>1. PICK m \in DOMAIN Tail(s) : Tail(s)[m] = s[n]
      BY <1>2, <2>1, <2>7
    <3> QED
      BY <1>2, <2>6, <3>1
  <2> QED
    BY <1>2, <1>4, <2>5, <2>6, <2>7
<1> QED
  BY <1>5, <1>6

LEMMA FillKeeps ==
  ASSUME IInv, NEW r \in Requests, Fill(r)
  PROVE  IInv'
<1>1. /\ req[r].pc = "fill" /\ req[r] \in Place /\ PlaceOK(req[r])
      /\ cache \in [Layers -> [Keys -> Entry]] /\ Layer \in Layers
  BY Elements DEF Fill, At, IInv, Shapes, PlacesOK
<1>2. PICK h, e : h = Head(req[r].keys) /\ e = req[r].entry
  OBVIOUS
<1>3. Moves(r) /\ req'[r].pc \in {"answered", "fill"} /\ h = req[r].keys[1] /\ 1 \in DOMAIN req[r].keys
  BY <1>1, <1>2, Resting DEF Fill
<1>4. e \in Entry /\ EntryOK(e, h)
  BY <1>1, <1>2, <1>3 DEF Place, PlaceOK, EntryOK
<1>5. cache' = [cache EXCEPT ![Layer][h] = e] /\ UNCHANGED <<Rows, up, Media>>
  BY <1>2 DEF Fill
<1>6. cache' \in [Layers -> [Keys -> Entry]]
  BY <1>1, <1>4, <1>5
<1>7. ASSUME NEW l \in Layers, NEW k \in Keys PROVE EntryOK(cache[l][k], k)'
  <2>1. PICK f : f = cache'[l][k]
    OBVIOUS
  <2>2. (f = e /\ k = h) \/ f = cache[l][k]
    BY <1>1, <1>5, <2>1
  <2>3. EntryOK(f, k)
    BY <1>4, <2>2 DEF IInv, CacheOK
  <2>4. EntryOK(f, k)'
    BY <1>1, <1>3, <1>5, <2>3, EntryStays, OwedStays DEF At, Kept, Rows
  <2> QED
    BY <2>1, <2>4 DEF EntryOK, Current, KeysOf
<1> QED
  BY <1>1, <1>3, <1>5, <1>6, <1>7, CacheStep DEF Final

\* An invalidation that is sent, or never will be, is owed by nobody else's keys.
LEMMA OwedByOthers ==
  ASSUME IInv, NEW r \in Requests, Moves(r), NEW k, NEW i, Owed(k, i)
  PROVE  \/ Owed(k, i)'
         \/ /\ At(r, "drop") /\ Asked(r).id = i
            /\ \E n \in DOMAIN req[r].keys : req[r].keys[n] = k
<1>1. PICK q \in Requests :
        At(q, "drop") /\ Asked(q).id = i /\ \E n \in DOMAIN req[q].keys : req[q].keys[n] = k
  BY DEF Owed
<1>2. q # r => req'[q] = req[q]
  BY OtherPlaces
<1> QED
  BY <1>1, <1>2 DEF Owed, At, Asked

LEMMA RacedEntry ==
  ASSUME IInv, NEW l \in Layers, NEW k \in Keys
  PROVE  /\ Raced(l, k) \in Entry /\ Raced(l, k).id = cache[l][k].id
         /\ Raced(l, k).id # 0 => Raced(l, k).raced
<1>1. PICK e \in Entry : e = cache[l][k]
  BY DEF IInv, Shapes
<1>2. PICK b \in BOOLEAN : b = (e.id # 0)
  OBVIOUS
<1>3. Raced(l, k) = [e EXCEPT !.raced = b]
  BY <1>1, <1>2 DEF Raced
<1>4. [e EXCEPT !.raced = b] \in Entry
  BY <1>1, <1>2 DEF Entry
<1>5. [e EXCEPT !.raced = b].id = e.id /\ [e EXCEPT !.raced = b].raced = b
  BY <1>1, <1>2 DEF Entry
<1> QED
  BY <1>1, <1>2, <1>3, <1>4, <1>5

LEMMA DropKeeps ==
  ASSUME IInv, NEW r \in Requests, Drop(r)
  PROVE  IInv'
<1>1. /\ req[r].pc = "drop" /\ req[r] \in Place
      /\ cache \in [Layers -> [Keys -> Entry]] /\ Layer \in Layers
  BY Elements DEF Drop, At, IInv, Shapes
<1>2. PICK h : h = Head(req[r].keys)
  OBVIOUS
<1>3. /\ Moves(r) /\ req'[r].pc \in {"answered", "drop"} /\ h = req[r].keys[1]
      /\ \A n \in DOMAIN req[r].keys : n # 1 =>
           /\ req'[r].pc = "drop" /\ req'[r].call = req[r].call
           /\ \E m \in DOMAIN req'[r].keys : req'[r].keys[m] = req[r].keys[n]
  BY <1>1, <1>2, Resting DEF Drop
<1>4. /\ cache' = [l \in Layers |-> [cache[l] EXCEPT
                     ![h] = IF l = Layer THEN NoEntry ELSE Raced(l, h)]]
      /\ UNCHANGED <<Rows, up, Media>>
  BY <1>2 DEF Drop
<1>5. NoEntry \in Entry /\ NoEntry.id = 0
  BY DEF NoEntry, Entry
<1>6. ASSUME NEW l \in Layers, NEW k \in Keys
      PROVE  /\ Raced(l, k) \in Entry /\ Raced(l, k).id = cache[l][k].id
             /\ Raced(l, k).id # 0 => Raced(l, k).raced
  BY RacedEntry
<1>7. cache' \in [Layers -> [Keys -> Entry]]
  <2>1. ASSUME NEW l \in Layers
        PROVE  [cache[l] EXCEPT ![h] = IF l = Layer THEN NoEntry ELSE Raced(l, h)] \in [Keys -> Entry]
    BY <1>1, <1>5, <1>6
  <2> QED
    BY <1>4, <2>1
<1>8. ASSUME NEW l \in Layers, NEW k \in Keys PROVE EntryOK(cache[l][k], k)'
  <2>1. PICK f : f = cache'[l][k]
    OBVIOUS
  <2>2. cache[l][k] \in Entry /\ EntryOK(cache[l][k], k)
    BY <1>1 DEF IInv, CacheOK
  <2>3. CASE k = h
    <3>1. f = NoEntry \/ f = Raced(l, k)
      BY <1>1, <1>4, <2>1, <2>3
    <3>2. f.id = 0 \/ (f.raced /\ f.id \in DOMAIN products)
      BY <1>5, <1>6, <2>2, <3>1 DEF EntryOK
    <3>3. EntryOK(f, k)'
      BY <1>4, <3>2 DEF EntryOK, Rows
    <3> QED
      BY <2>1, <3>3 DEF EntryOK, Current, KeysOf
  <2>4. CASE k # h
    <3>1. f = cache[l][k] /\ EntryOK(f, k)
      BY <1>1, <1>4, <2>1, <2>2, <2>4
    <3>2. ASSUME NEW i, Owed(k, i) PROVE Owed(k, i)'
      <4>1. CASE Owed(k, i)'
        BY <4>1
      <4>2. CASE At(r, "drop") /\ Asked(r).id = i
                 /\ \E n \in DOMAIN req[r].keys : req[r].keys[n] = k
        <5>1. PICK n \in DOMAIN req[r].keys : req[r].keys[n] = k
          BY <4>2
        <5>2. n # 1
          BY <1>3, <2>4, <5>1
        <5>3. /\ req'[r].pc = "drop" /\ req'[r].call.id = i
              /\ \E m \in DOMAIN req'[r].keys : req'[r].keys[m] = k
          BY <1>3, <4>2, <5>1, <5>2 DEF Asked
        <5> QED
          BY <5>3 DEF Owed, At, Asked
      <4> QED
        BY <1>3, <3>2, <4>1, <4>2, OwedByOthers
    <3>3. EntryOK(f, k)'
      BY <1>4, <3>1, <3>2, EntryStays DEF Kept, Rows
    <3> QED
      BY <2>1, <3>3 DEF EntryOK, Current, KeysOf
  <2> QED
    BY <2>3, <2>4
<1> QED
  BY <1>1, <1>3, <1>4, <1>7, <1>8, CacheStep DEF Final

LEMMA DieKeeps ==
  ASSUME IInv, NEW r \in Requests, Die(r)
  PROVE  IInv'
<1>1. req[r].pc \notin Final /\ cache \in [Layers -> [Keys -> Entry]]
  BY DEF Die, IInv, Shapes
<1>2. Moves(r)
  BY Going DEF Die, PCs, Final
<1>3. req'[r].pc = "refused"
  BY DEF Die, Goto, Final, IInv, Shapes, Idle
<1>4. /\ cache' = [l \in Layers |-> [k \in Keys |->
           IF At(r, "drop") /\ cache[l][k].id = Asked(r).id THEN Raced(l, k) ELSE cache[l][k]]]
      /\ UNCHANGED <<Rows, up, Media>>
  BY DEF Die
<1>5. ASSUME NEW l \in Layers, NEW k \in Keys
      PROVE  /\ Raced(l, k) \in Entry /\ Raced(l, k).id = cache[l][k].id
             /\ Raced(l, k).id # 0 => Raced(l, k).raced
  BY RacedEntry
<1>6. cache' \in [Layers -> [Keys -> Entry]]
  BY <1>1, <1>4, <1>5
<1>7. ASSUME NEW l \in Layers, NEW k \in Keys PROVE EntryOK(cache[l][k], k)'
  <2>1. PICK f : f = cache'[l][k]
    OBVIOUS
  <2>2. EntryOK(cache[l][k], k)
    BY DEF IInv, CacheOK
  <2>3. CASE At(r, "drop") /\ cache[l][k].id = Asked(r).id
    <3>1. f.id = 0 \/ (f.raced /\ f.id \in DOMAIN products)
      BY <1>4, <1>5, <2>1, <2>2, <2>3 DEF EntryOK
    <3>2. EntryOK(f, k)'
      BY <1>4, <3>1 DEF EntryOK, Rows
    <3> QED
      BY <2>1, <3>2 DEF EntryOK, Current, KeysOf
  <2>4. CASE ~(At(r, "drop") /\ cache[l][k].id = Asked(r).id)
    <3>1. f = cache[l][k] /\ EntryOK(f, k)
      BY <1>4, <2>1, <2>2, <2>4
    <3>2. Owed(k, f.id) => Owed(k, f.id)'
      <4>1. PICK i : i = f.id
        OBVIOUS
      <4>2. Owed(k, i) => Owed(k, i)'
        BY <1>2, <2>4, <3>1, <4>1, OwedByOthers
      <4> QED
        BY <4>1, <4>2 DEF Owed
    <3>3. EntryOK(f, k)'
      BY <1>4, <3>1, <3>2 DEF EntryOK, Current, KeysOf, Rows
    <3> QED
      BY <2>1, <3>3 DEF EntryOK, Current, KeysOf
  <2> QED
    BY <2>3, <2>4
<1> QED
  BY <1>1, <1>2, <1>3, <1>4, <1>6, <1>7, CacheStep

LEMMA ExpireKeeps ==
  ASSUME IInv, NEW l \in Layers, NEW k \in Keys, Expire(l, k)
  PROVE  IInv'
<1>1. cache \in [Layers -> [Keys -> Entry]] /\ NoEntry \in Entry /\ NoEntry.id = 0
  BY DEF IInv, Shapes, NoEntry, Entry
<1>2. cache' = [cache EXCEPT ![l][k] = NoEntry] /\ UNCHANGED <<Rows, up, Media, req>>
  BY DEF Expire
<1>3. Shapes'
  BY <1>1, <1>2 DEF IInv, Shapes, Rows, Media, Layers, Keys, Ids
<1>4. PlacesOK'
  BY <1>2 DEF IInv, PlacesOK, PlaceOK, Current, KeysOf, Rows
<1>5. MediaOK'
  BY <1>2 DEF IInv, MediaOK, At, Media
<1>6. ASSUME NEW m \in Layers, NEW j \in Keys PROVE EntryOK(cache[m][j], j)'
  <2>1. PICK f : f = cache'[m][j]
    OBVIOUS
  <2>2. f.id = 0 \/ EntryOK(f, j)
    BY <1>1, <1>2, <2>1 DEF IInv, CacheOK
  <2>3. EntryOK(f, j)'
    BY <1>2, <2>2 DEF EntryOK, Current, KeysOf, Owed, At, Asked, Rows
  <2> QED
    BY <2>1, <2>3 DEF EntryOK, Current, KeysOf
<1> QED
  BY <1>3, <1>4, <1>5, <1>6 DEF IInv, CacheOK, Layers, Keys, Ids

LEMMA StutterKeeps ==
  ASSUME IInv, UNCHANGED <<products, documents, names, cache, assets, objects, req>>, up' \in BOOLEAN
  PROVE  IInv'
<1>1. Shapes' /\ PlacesOK' /\ MediaOK'
  BY DEF IInv, Shapes, PlacesOK, PlaceOK, MediaOK, Current, KeysOf, At, Layers, Keys, Ids
<1>2. CacheOK'
  BY DEF IInv, CacheOK, EntryOK, Current, KeysOf, Owed, At, Asked, Layers, Keys, Ids
<1> QED
  BY <1>1, <1>2 DEF IInv
-----------------------------------------------------------------------------
(* An update: the row, the document and, for the requests that hold the product, its stale copies. *)

LEMMA StaleCovers ==
  ASSUME NEW r \in Requests, Asked(r).id \in Nat, req[r].old \in AllSlugs, req[r].new \in AllSlugs
  PROVE  /\ StaleKeys(r) \in Seq(AnyKey) /\ StaleKeys(r) # <<>>
         /\ \E n \in DOMAIN StaleKeys(r) : StaleKeys(r)[n] = <<"id", Asked(r).id>>
         /\ \E n \in DOMAIN StaleKeys(r) : StaleKeys(r)[n] = <<"slug", req[r].old>>
<1>1. PICK a, b, c : /\ a = <<"id", Asked(r).id>> /\ b = <<"slug", req[r].old>>
                     /\ c = <<"slug", req[r].new>>
  OBVIOUS
<1>2. a \in AnyKey /\ b \in AnyKey /\ c \in AnyKey
  BY <1>1 DEF AnyKey
<1>3. PICK m : m = (IF req[r].new # req[r].old THEN <<a, c>> ELSE <<>>)
  OBVIOUS
<1>4. <<a, b>> \in Seq(AnyKey) /\ Len(<<a, b>>) = 2 /\ m \in Seq(AnyKey)
  BY <1>2, <1>3
<1>5. StaleKeys(r) = <<a, b>> \o m
  BY <1>1, <1>3 DEF StaleKeys
<1>6. 1 \in DOMAIN <<a, b>> /\ 2 \in DOMAIN <<a, b>> /\ <<a, b>>[1] = a /\ <<a, b>>[2] = b
  OBVIOUS
<1>7. /\ StaleKeys(r) \in Seq(AnyKey) /\ StaleKeys(r) # <<>>
      /\ 1 \in DOMAIN StaleKeys(r) /\ 2 \in DOMAIN StaleKeys(r)
      /\ StaleKeys(r)[1] = a /\ StaleKeys(r)[2] = b
  BY <1>4, <1>5, <1>6, Joined
<1> QED
  BY <1>1, <1>7

LEMMA WriteKeeps ==
  ASSUME IInv, NEW r \in Requests, Write(r)
  PROVE  IInv'
<1>1. /\ req[r].pc = "write" /\ Asked(r) \in Calls /\ Asked(r).id \in DOMAIN products
      /\ Asked(r).id \in Nat \ {0} /\ Asked(r).status \in Statuses
      /\ req[r] \in Place /\ req[r].old \in AllSlugs /\ req[r].new \in AllSlugs
  BY Called DEF Write, At, IInv, Final, PlacesOK, PlaceOK
<1>2. CASE SlugTaken(req[r].new, Asked(r).id)
  BY <1>1, <1>2, GoingOn DEF Write, PCs, Final, Rows
<1>3. CASE ~SlugTaken(req[r].new, Asked(r).id)
  <2> DEFINE i == Asked(r).id
             now == products[i].slug
             p == [req[r] EXCEPT !.pc = "drop", !.keys = StaleKeys(r)]
  <2>1. /\ products' = [products EXCEPT ![i].slug = req[r].new, ![i].ver = @ + 1,
               ![i].status = IF Asked(r).status = None THEN @ ELSE Asked(r).status]
        /\ documents' = [documents EXCEPT ![i] = [ver |-> products[i].ver + 1, names |-> names]]
        /\ cache' = [l \in Layers |-> [k \in Keys |->
               IF k = <<"slug", now>> /\ now # req[r].old THEN Raced(l, k) ELSE cache[l][k]]]
        /\ req' = [q \in Requests |->
               IF q = r THEN p
               ELSE IF At(q, "fill") /\ req[q].entry.id = i
                    THEN [req[q] EXCEPT !.entry.raced = TRUE] ELSE req[q]]
        /\ names' = names /\ up' = up /\ UNCHANGED Media
    BY <1>3 DEF Write
  <2>2. /\ DOMAIN documents = DOMAIN products /\ i \in DOMAIN products /\ now \in AllSlugs
        /\ \A j \in DOMAIN products : products[j] \in ProductRow
    BY <1>1, Elements DEF IInv, ProductRow
  <2>3. /\ p \in Place /\ p.pc = "drop" /\ p.call = Asked(r) /\ p.keys = StaleKeys(r)
        /\ p.keys # <<>>
        /\ \E n \in DOMAIN p.keys : p.keys[n] = <<"id", i>>
        /\ \E n \in DOMAIN p.keys : p.keys[n] = <<"slug", req[r].old>>
    BY <1>1, StaleCovers DEF Place, PCs, Asked
  <2> HIDE DEF p
  <2>4. /\ products' \in Seq(ProductRow) /\ Len(products') = Len(products)
        /\ DOMAIN products' = DOMAIN products
        /\ \A j \in DOMAIN products : j # i => products'[j] = products[j]
    <3>1. products'[i] \in ProductRow
      BY <1>1, <2>1, <2>2 DEF ProductRow
    <3>2. \A j \in DOMAIN products : j # i => products'[j] = products[j]
      BY <2>1
    <3>3. products' \in [DOMAIN products -> ProductRow]
      BY <2>1, <2>2, <3>1, <3>2
    <3> QED
      BY <3>2, <3>3, Mapped DEF IInv, Shapes
  <2>5. documents' \in Seq(Document) /\ Len(documents') = Len(documents)
    <3>1. [ver |-> products[i].ver + 1, names |-> names] \in Document
      BY <2>2 DEF IInv, Shapes, Document, ProductRow
    <3>2. documents \in Seq(Document) /\ \A j \in DOMAIN documents : documents[j] \in Document
      BY Sequence DEF IInv, Shapes
    <3>3. documents' \in [DOMAIN documents -> Document]
      BY <2>1, <3>1, <3>2
    <3> QED
      BY <3>2, <3>3, Mapped
  <2>6. req'[r] = p
    BY <2>1
  <2>7. ASSUME NEW q \in Requests, q # r
        PROVE  /\ req'[q] \in Place /\ req'[q].pc = req[q].pc /\ req'[q].call = req[q].call
               /\ req'[q].keys = req[q].keys /\ req'[q].new = req[q].new /\ req'[q].old = req[q].old
               /\ req'[q].entry.id = req[q].entry.id
               /\ req[q].pc = "fill" /\ ~req'[q].entry.raced =>
                    req'[q].entry = req[q].entry /\ req[q].entry.id # i
    <3>1. req[q] \in Place /\ req[q].entry \in Entry
      BY DEF IInv, Shapes, Place
    <3>2. CASE At(q, "fill") /\ req[q].entry.id = i
      <4>1. req'[q] = [req[q] EXCEPT !.entry = [req[q].entry EXCEPT !.raced = TRUE]]
        BY <2>1, <2>7, <3>2
      <4>2. /\ [req[q].entry EXCEPT !.raced = TRUE] \in Entry
            /\ [req[q].entry EXCEPT !.raced = TRUE].id = req[q].entry.id
            /\ [req[q].entry EXCEPT !.raced = TRUE].raced
        BY <3>1 DEF Entry
      <4> QED
        BY <3>1, <4>1, <4>2 DEF Place
    <3>3. CASE ~(At(q, "fill") /\ req[q].entry.id = i)
      <4>1. req'[q] = req[q]
        BY <2>1, <2>7, <3>3
      <4> QED
        BY <3>1, <3>3, <4>1 DEF At
    <3> QED
      BY <3>2, <3>3
  <2>8. req' \in [Requests -> Place]
    BY <2>1, <2>3, <2>6, <2>7
  <2>9. cache' \in [Layers -> [Keys -> Entry]]
    <3>1. \A l \in Layers, k \in Keys : Raced(l, k) \in Entry /\ cache[l][k] \in Entry
      BY RacedEntry DEF IInv, Shapes
    <3> QED
      BY <2>1, <3>1
  <2>10. Shapes'
    BY <2>1, <2>4, <2>5, <2>8, <2>9 DEF IInv, Shapes, Media, Layers, Keys, Ids
  <2>11. PlacesOK'
    <3>1. ASSUME NEW q \in Requests PROVE PlaceOK(req[q])'
      <4>1. PICK k : k = req'[q]
        OBVIOUS
      <4>2. PlaceOK(k)'
        <5>1. CASE q = r
          BY <1>1, <2>3, <2>4, <2>6, <4>1, <5>1 DEF PlaceOK
        <5>2. CASE q # r
          <6>1. PlaceOK(req[q])
            BY DEF IInv, PlacesOK
          <6>2. k.pc \notin Final \cup {"new"} => k.call \in Calls /\ k.call.id \in DOMAIN products'
            BY <2>4, <2>7, <4>1, <5>2, <6>1 DEF PlaceOK
          <6>3. /\ k.pc = "create" => k.call.op = "create"
                /\ k.pc \in {"insert", "write"} => k.new \in AllSlugs
                /\ k.pc \in {"check", "write"} => k.old \in AllSlugs
                /\ k.pc \in {"fill", "drop"} => k.keys # <<>>
            BY <2>7, <4>1, <5>2, <6>1 DEF PlaceOK
          <6>4. k.pc = "fill" => k.entry.id \in DOMAIN products'
            BY <2>4, <2>7, <4>1, <5>2, <6>1 DEF PlaceOK
          <6>5. ASSUME k.pc = "fill", ~k.entry.raced
                PROVE  /\ products'[k.entry.id].ver = k.entry.ver
                       /\ \A n \in DOMAIN k.keys :
                            k.keys[n] \in {<<"id", k.entry.id>>, <<"slug", products'[k.entry.id].slug>>}
            <7>1. k.entry = req[q].entry /\ k.keys = req[q].keys /\ req[q].pc = "fill"
                  /\ k.entry.id # i
              BY <2>7, <4>1, <5>2, <6>5
            <7>2. products'[k.entry.id] = products[k.entry.id]
              BY <2>4, <6>1, <7>1 DEF PlaceOK
            <7> QED
              BY <6>1, <6>5, <7>1, <7>2 DEF PlaceOK, Current, KeysOf
          <6> QED
            BY <6>2, <6>3, <6>4, <6>5 DEF PlaceOK, Current, KeysOf
        <5> QED
          BY <5>1, <5>2
      <4> QED
        BY <4>1, <4>2 DEF PlaceOK, Current, KeysOf
    <3> QED
      BY <3>1 DEF PlacesOK
  <2>12. ASSUME NEW k, NEW j, Owed(k, j) PROVE Owed(k, j)'
    <3>1. PICK q \in Requests :
            At(q, "drop") /\ Asked(q).id = j /\ \E n \in DOMAIN req[q].keys : req[q].keys[n] = k
      BY <2>12 DEF Owed
    <3>2. q # r
      BY <1>1, <3>1 DEF At
    <3> QED
      BY <2>7, <3>1, <3>2 DEF Owed, At, Asked
  <2>13. ASSUME NEW j, j = i, NEW k, k \in {<<"id", i>>, <<"slug", req[r].old>>}
         PROVE  Owed(k, j)'
    BY <2>3, <2>6, <2>13 DEF Owed, At, Asked
  <2>14. CacheOK'
    <3>1. ASSUME NEW l \in Layers, NEW k \in Keys PROVE EntryOK(cache[l][k], k)'
      <4>1. PICK f : f = cache'[l][k]
        OBVIOUS
      <4>2. EntryOK(cache[l][k], k)
        BY DEF IInv, CacheOK
      <4>3. CASE k = <<"slug", now>> /\ now # req[r].old
        <5>1. f = Raced(l, k)
          BY <2>1, <4>1, <4>3
        <5>2. f.id = 0 \/ (f.raced /\ f.id \in DOMAIN products')
          BY <2>4, <4>2, <5>1, RacedEntry DEF EntryOK
        <5> QED
          BY <4>1, <5>2 DEF EntryOK, Current, KeysOf
      <4>4. CASE ~(k = <<"slug", now>> /\ now # req[r].old)
        <5>1. f = cache[l][k] /\ EntryOK(f, k)
          BY <2>1, <4>1, <4>2, <4>4
        <5>2. PICK j : j = f.id
          OBVIOUS
        <5>3. CASE j = i
          <6>1. k \in KeysOf(i) => k \in {<<"id", i>>, <<"slug", req[r].old>>}
            BY <4>4 DEF KeysOf
          <6>2. f.id # 0 /\ ~f.raced => Owed(k, j)'
            BY <2>12, <2>13, <5>1, <5>2, <5>3, <6>1 DEF EntryOK
          <6>3. f.id # 0 => f.id \in DOMAIN products'
            BY <2>4, <5>1 DEF EntryOK
          <6>4. EntryOK(f, k)'
            BY <5>2, <6>2, <6>3 DEF EntryOK
          <6> QED
            BY <4>1, <6>4 DEF EntryOK, Current, KeysOf
        <5>4. CASE j # i
          <6>1. f.id # 0 => f.id \in DOMAIN products' /\ products'[f.id] = products[f.id]
            BY <2>4, <5>1, <5>2, <5>4 DEF EntryOK
          <6>2. EntryOK(f, k)'
            BY <2>12, <5>1, <6>1 DEF EntryOK, Current, KeysOf
          <6> QED
            BY <4>1, <6>2 DEF EntryOK, Current, KeysOf
        <5> QED
          BY <5>3, <5>4
      <4> QED
        BY <4>3, <4>4
    <3> QED
      BY <3>1 DEF CacheOK, Layers, Keys, Ids
  <2>15. MediaOK'
    <3>1. ASSUME NEW q \in Requests
          PROVE  /\ assets'[q] # "none" => req'[q].pc \in Final
                 /\ req'[q].pc = "record" => q \in objects'
                 /\ assets'[q] = "READY" => q \in objects'
                 /\ req'[q].pc = "unlink" =>
                      req'[q].keys[1] \in Requests /\ assets'[req'[q].keys[1]] = "DELETED"
      <4>1. CASE q = r
        BY <1>1, <2>1, <2>3, <2>6, <4>1 DEF IInv, MediaOK, Media, Final
      <4>2. CASE q # r
        BY <2>1, <2>7, <4>2 DEF IInv, MediaOK, Media, At
      <4> QED
        BY <4>1, <4>2
    <3> QED
      BY <3>1 DEF MediaOK, At
  <2> QED
    BY <2>10, <2>11, <2>14, <2>15 DEF IInv
<1> QED
  BY <1>2, <1>3
-----------------------------------------------------------------------------
LEMMA InitOK ==
  ASSUME Init
  PROVE  IInv
<1>1. PICK s \in Slugs : products = <<Product(s, "ACTIVE", 1)>>
  BY DEF Init
<1>2. Product(s, "ACTIVE", 1) \in ProductRow /\ [ver |-> 1, names |-> 1] \in Document
  BY DEF Product, ProductRow, Statuses, AllSlugs, Document
<1>3. /\ products \in Seq(ProductRow) /\ documents \in Seq(Document)
      /\ Len(documents) = Len(products)
  BY <1>1, <1>2 DEF Init
<1>4. <<>> \in Seq(AnyKey) /\ NoEntry \in Entry /\ NoEntry.id = 0
  BY EmptySeq DEF NoEntry, Entry
<1>5. Idle \in Place
  BY <1>4 DEF Idle, Place, PCs
<1>6. Shapes
  BY <1>3, <1>4, <1>5 DEF Init, Shapes
<1>7. PlacesOK /\ MediaOK
  BY DEF Init, PlacesOK, PlaceOK, MediaOK, Idle, At, Final
<1>8. CacheOK
  BY <1>4 DEF Init, CacheOK, EntryOK
<1> QED
  BY <1>6, <1>7, <1>8 DEF IInv

LEMMA HandleKeeps ==
  ASSUME IInv, NEW r \in Requests, Handle(r)
  PROVE  IInv'
<1>1. CASE GetCached(r)
  BY <1>1, GetCachedKeeps
<1>2. CASE Load(r)
  BY <1>2, LoadKeeps
<1>3. CASE Fill(r)
  BY <1>3, FillKeeps
<1>4. CASE CheckSlug(r)
  BY <1>4, CheckSlugKeeps
<1>5. CASE Create(r)
  BY <1>5, CreateKeeps
<1>6. CASE FindProduct(r)
  BY <1>6, FindProductKeeps
<1>7. CASE Check(r)
  BY <1>7, CheckKeeps
<1>8. CASE Write(r)
  BY <1>8, WriteKeeps
<1>9. CASE Drop(r)
  BY <1>9, DropKeeps
<1>10. CASE SetOffer(r)
  BY <1>10, SetOfferKeeps
<1>11. CASE Rename(r)
  BY <1>11, RenameKeeps
<1>12. CASE Put(r)
  BY <1>12, PutKeeps
<1>13. CASE CreateMedia(r)
  BY <1>13, CreateMediaKeeps
<1>14. CASE \E q \in Requests : DeleteMedia(r, q)
  BY <1>14, DeleteMediaKeeps
<1>15. CASE NoMedia(r)
  BY <1>15, NoMediaKeeps
<1>16. CASE Unlink(r)
  BY <1>16, UnlinkKeeps
<1> QED
  BY <1>1, <1>2, <1>3, <1>4, <1>5, <1>6, <1>7, <1>8, <1>9, <1>10, <1>11, <1>12, <1>13, <1>14,
     <1>15, <1>16 DEF Handle

LEMMA StepOK ==
  ASSUME IInv, [Next]_vars
  PROVE  IInv'
<1>1. ASSUME NEW r \in Requests, NEW call \in Calls, Send(r, call) PROVE IInv'
  BY <1>1, SendKeeps
<1>2. ASSUME NEW r \in Requests, Handle(r) PROVE IInv'
  BY <1>2, HandleKeeps
<1>3. ASSUME NEW r \in Requests, Die(r) PROVE IInv'
  BY <1>3, DieKeeps
<1>4. ASSUME NEW l \in Layers, NEW k \in Keys, Expire(l, k) PROVE IInv'
  BY <1>4, ExpireKeeps
<1>5. CASE Toggle
  BY <1>5, StutterKeeps DEF Toggle, Rows, Media, IInv, Shapes
<1>6. CASE UNCHANGED vars
  BY <1>6, StutterKeeps DEF vars, IInv, Shapes
<1> QED
  BY <1>1, <1>2, <1>3, <1>4, <1>5, <1>6 DEF Next

\* The steps of the operations keep the invariant: whatever requests overlap, die or are retried.
LEMMA Invariant == Spec => []IInv
<1>1. Init => IInv
  BY InitOK
<1>2. IInv /\ [Next]_vars => IInv'
  BY StepOK
<1> QED
  BY <1>1, <1>2, PTL DEF Spec
-----------------------------------------------------------------------------
\* The tables, the cache and the media rows keep their types, for any set of requests.
THEOREM TypeCorrect == Spec => []TypeOK
<1>1. IInv => TypeOK
  <2>1. ASSUME IInv PROVE \A i \in DOMAIN products :
          products[i].slug \in Slugs \cup Fresh /\ products[i].price \in 0..2
    BY <2>1, Elements DEF IInv, ProductRow, AllSlugs
  <2>2. ASSUME IInv PROVE DOMAIN documents = DOMAIN products
    BY <2>2, Elements DEF IInv
  <2>3. ASSUME IInv PROVE \A l \in Layers, k \in Keys : cache[l][k].id \in {0} \cup DOMAIN products
    BY <2>3 DEF IInv, CacheOK, EntryOK
  <2> QED
    BY <2>1, <2>2, <2>3 DEF TypeOK, IInv, Shapes
<1> QED
  BY <1>1, Invariant, PTL

\* A cached product is current or an update still owes its removal, unless the entry is known
\* to have been raced (catalog.service.ts:314-331, 856-859; product-cache.ts:55-77).
THEOREM FreshCache == Spec => []CacheIsFresh
<1>1. IInv => CacheIsFresh
  <2>1. ASSUME IInv, NEW l \in Layers, NEW k \in Keys,
               cache[l][k].id # 0, ~cache[l][k].raced
        PROVE  Current(cache[l][k]) \/ Invalidating(cache[l][k].id)
    BY <2>1 DEF IInv, CacheOK, EntryOK, Owed, Invalidating
  <2> QED
    BY <2>1 DEF CacheIsFresh
<1> QED
  BY <1>1, Invariant, PTL

\* An image whose row is READY is in the store, wherever uploads and deletions are cut off
\* (catalog.service.ts:1089-1161).
THEOREM StoredMedia == Spec => []ReadyMediaIsStored
<1>1. IInv => ReadyMediaIsStored
  BY DEF IInv, MediaOK, ReadyMediaIsStored
<1> QED
  BY <1>1, Invariant, PTL

-----------------------------------------------------------------------------
(***************************************************************************)
(* The import.                                                             *)
(***************************************************************************)

SlugValues == {<<"slug", File[k].slug>> : k \in DOMAIN File} \cup {<<"random", n>> : n \in Nat}
SkuValues ==
  {<<"sku", File[k].sku>> : k \in DOMAIN File} \cup {<<"random", n>> : n \in Nat} \cup {<<>>}
Item == [row : DOMAIN File, slug : SlugValues, sku : SkuValues,
         offer : BOOLEAN, stock : BOOLEAN, document : BOOLEAN]
Steps == {"waiting", "row", "reject", "product", "sku", "offer", "stock", "document", "report",
          "done", "dead"}
Job == [pc : Steps, row : Nat, item : Nat, found : BOOLEAN,
        created : Nat, updated : Nat, rejected : Nat]
ReportRow == [row : DOMAIN File, ok : BOOLEAN, item : Nat]
States == {"none", "DRY_RUN", "PENDING", "RUNNING", "SUCCESS", "PARTIAL", "FAILED"}
Import == [status : States, queued : BOOLEAN, created : Nat, updated : Nat, rejected : Nat]

ImportTyped ==
  /\ items \in Seq(Item) /\ job \in [Deliveries -> Job] /\ import \in Import
  /\ rows \in Seq(ReportRow) /\ \A k \in DOMAIN rows : rows[k].item \in {0} \cup DOMAIN items
\* An item has the names of the row that made it, where that row has them.
NamedItem(i) ==
  LET r == File[items[i].row] IN
  /\ r.slug # NoName => items[i].slug = <<"slug", r.slug>>
  /\ r.sku # NoName /\ items[i].sku # <<>> => items[i].sku = <<"sku", r.sku>>
  /\ items[i].offer => items[i].sku # <<>>
ItemsNamed == \A i \in DOMAIN items : NamedItem(i)
\* The two unique indexes.
NamesDiffer ==
  \A i, j \in DOMAIN items : i # j =>
    /\ items[i].slug # items[j].slug
    /\ items[i].sku # <<>> => items[i].sku # items[j].sku
\* What a delivery has read and still holds of it.
JobOK(d) ==
  /\ job[d].pc \in Steps \ {"waiting", "row", "done", "dead"} => job[d].row \in DOMAIN File
  /\ job[d].pc = "row" => job[d].row >= 1
  /\ job[d].pc \in {"sku", "offer", "stock", "document", "report"} => job[d].item \in DOMAIN items
  /\ job[d].pc = "sku" => items[job[d].item].row = job[d].row
  /\ job[d].pc = "offer" => items[job[d].item].sku # <<>>
JobsOK == \A d \in Deliveries : JobOK(d)
ImportInv == ImportTyped /\ ItemsNamed /\ NamesDiffer /\ JobsOK

LEMMA ImportStarts == ImportInit => ImportInv
<1> SUFFICES ASSUME ImportInit PROVE ImportInv
  OBVIOUS
<1>1. items = <<>> /\ rows = <<>> /\ DOMAIN items = {} /\ DOMAIN rows = {}
  BY DEF ImportInit
<1>2. items \in Seq(Item) /\ rows \in Seq(ReportRow)
  BY <1>1
<1>3. import \in Import /\ job \in [Deliveries -> Job] /\ \A d \in Deliveries : job[d] = Waiting
  BY ImportConstants DEF ImportInit, Import, States, Job, Steps, Waiting
<1>4. \A d \in Deliveries : job[d].pc = "waiting"
  <2>1. Waiting.pc = "waiting"
    BY DEF Waiting
  <2> QED
    BY <1>3, <2>1
<1>5. JobsOK
  BY <1>4 DEF JobsOK, JobOK
<1> QED
  BY <1>1, <1>2, <1>3, <1>5 DEF ImportInv, ImportTyped, ItemsNamed, NamesDiffer

LEMMA ItemFacts ==
  ASSUME ImportTyped
  PROVE  /\ DOMAIN items = 1..Len(items) /\ Len(items) \in Nat
         /\ \A i \in DOMAIN items : i \in Nat /\ items[i] \in Item
         /\ \A d \in Deliveries : job[d] \in Job
BY LenProperties, ElementOfSeq DEF ImportTyped

\* One delivery's step, seen from the others: items keep their place, their row and a SKU they have.
Grow ==
  /\ DOMAIN items \subseteq DOMAIN items'
  /\ \A i \in DOMAIN items :
       items'[i].row = items[i].row /\ (items[i].sku # <<>> => items'[i].sku # <<>>)
LEMMA OthersStay ==
  ASSUME ImportInv, Grow, NEW d \in Deliveries, NEW j \in Job, job' = [job EXCEPT ![d] = j], JobOK(d)'
  PROVE  JobsOK' /\ job' \in [Deliveries -> Job]
<1>1. job \in [Deliveries -> Job] /\ job' \in [Deliveries -> Job]
  BY DEF ImportInv, ImportTyped
<1>2. ASSUME NEW e \in Deliveries, e # d PROVE JobOK(e)'
  <2>1. job'[e] = job[e] /\ JobOK(e)
    BY <1>1, <1>2 DEF ImportInv, JobsOK
  <2> QED
    BY <2>1 DEF JobOK, Grow
<1> QED
  BY <1>1, <1>2 DEF JobsOK

\* A step that leaves the items alone.
LEMMA ItemsStay ==
  ASSUME ImportInv, UNCHANGED items
  PROVE  Grow /\ ItemsNamed' /\ NamesDiffer'
BY DEF ImportInv, Grow, ItemsNamed, NamesDiffer, NamedItem

LEMMA RowsStay ==
  ASSUME ImportInv, Grow, UNCHANGED rows
  PROVE  rows' \in Seq(ReportRow) /\ \A k \in DOMAIN rows' : rows'[k].item \in {0} \cup DOMAIN items'
BY DEF ImportInv, ImportTyped, Grow

\* Another place, nothing else.
LEMMA SetMoves ==
  ASSUME ImportInv, NEW d \in Deliveries, NEW pc \in Steps, Set(d, pc)
  PROVE  /\ [job[d] EXCEPT !.pc = pc] \in Job /\ job' = [job EXCEPT ![d] = [job[d] EXCEPT !.pc = pc]]
         /\ job'[d].pc = pc /\ job'[d].row = job[d].row /\ job'[d].item = job[d].item
BY DEF ImportInv, ImportTyped, Set, Job

LEMMA OnlyJob ==
  ASSUME ImportInv, NEW d \in Deliveries, NEW j \in Job, job' = [job EXCEPT ![d] = j], JobOK(d)',
         UNCHANGED <<items, rows>>, import' \in Import
  PROVE  ImportInv'
<1>1. Grow /\ ItemsNamed' /\ NamesDiffer'
  BY ItemsStay
<1>2. JobsOK' /\ job' \in [Deliveries -> Job]
  BY <1>1, OthersStay
<1>3. items' \in Seq(Item)
  BY DEF ImportInv, ImportTyped
<1> QED
  BY <1>1, <1>2, <1>3, RowsStay DEF ImportInv, ImportTyped

LEMMA ApiKeeps ==
  ASSUME ImportInv, Queue \/ \E dry \in BOOLEAN : Submit(dry)
  PROVE  ImportInv'
<1>1. import' \in Import
  BY ImportConstants DEF ImportInv, ImportTyped, Import, States, Queue, Submit
<1>2. UNCHANGED <<items, rows, job>>
  BY DEF Queue, Submit
<1>3. JobsOK'
  BY <1>2 DEF ImportInv, JobsOK, JobOK
<1> QED
  BY <1>1, <1>2, <1>3, ItemsStay DEF ImportInv, ImportTyped

LEMMA RestKeeps ==
  ASSUME ImportInv, NEW d \in Deliveries, Begin(d) \/ Finish(d) \/ Crash(d)
  PROVE  ImportInv'
<1>1. import' \in Import
  <2>1. job[d] \in Job
    BY ItemFacts DEF ImportInv
  <2>2. Outcome(job[d]) \in States
    BY DEF Outcome, States
  <2> QED
    BY <2>1, <2>2 DEF ImportInv, ImportTyped, Import, States, Begin, Finish, Crash, Job
<1>2. UNCHANGED <<items, rows>>
  BY DEF Begin, Finish, Crash
<1>3. PICK j \in Job : job' = [job EXCEPT ![d] = j] /\ j.pc \in {"row", "done", "dead"} /\ j.row = 1
  <2>1. /\ [Waiting EXCEPT !.pc = "row", !.rejected = ParseErrors] \in Job
        /\ [Waiting EXCEPT !.pc = "done"] \in Job /\ [Waiting EXCEPT !.pc = "dead"] \in Job
    BY ImportConstants DEF Waiting, Job, Steps
  <2>2. /\ [Waiting EXCEPT !.pc = "row", !.rejected = ParseErrors].pc = "row"
        /\ [Waiting EXCEPT !.pc = "done"].pc = "done" /\ [Waiting EXCEPT !.pc = "dead"].pc = "dead"
        /\ [Waiting EXCEPT !.pc = "row", !.rejected = ParseErrors].row = 1
        /\ [Waiting EXCEPT !.pc = "done"].row = 1 /\ [Waiting EXCEPT !.pc = "dead"].row = 1
    BY DEF Waiting
  <2> QED
    BY <2>1, <2>2 DEF Begin, Finish, Crash
<1>4. job'[d] = j
  BY <1>3 DEF ImportInv, ImportTyped
<1>5. JobOK(d)'
  BY <1>3, <1>4 DEF JobOK, Steps
<1> QED
  BY <1>1, <1>2, <1>3, <1>5, OnlyJob

LEMMA FindSkuKeeps ==
  ASSUME ImportInv, NEW d \in Deliveries, FindSku(d)
  PROVE  ImportInv'
<1>1. UNCHANGED <<items, rows>> /\ import' \in Import
  BY DEF FindSku, ImportInv, ImportTyped
<1>2. job[d].row \in DOMAIN File /\ job[d] \in Job
  <2>1. job[d] \in Job /\ job[d].row \in Nat
    BY ItemFacts DEF ImportInv, Job
  <2>2. job[d].pc = "row" /\ job[d].row <= Len(File) /\ JobOK(d)
    BY DEF FindSku, InJob, ImportInv, JobsOK
  <2> QED
    BY <2>1, <2>2, ImportConstants DEF JobOK
<1>3. CASE Set(d, "reject") \/ Set(d, "product")
  <2>1. PICK pc \in {"reject", "product"} : Set(d, pc)
    BY <1>3
  <2>2. pc \in Steps
    BY DEF Steps
  <2>3. JobOK(d)'
    BY <1>2, <2>1, <2>2, SetMoves DEF JobOK
  <2> QED
    BY <1>1, <2>1, <2>2, <2>3, SetMoves, OnlyJob
<1>4. CASE \E i \in DOMAIN items : /\ Row(d).sku # NoName /\ items[i].sku = SkuOf(d)
                                   /\ job' = [job EXCEPT ![d].pc = "offer", ![d].item = i, ![d].found = TRUE]
  <2>1. PICK i \in DOMAIN items : /\ Row(d).sku # NoName /\ items[i].sku = SkuOf(d)
                                  /\ job' = [job EXCEPT ![d].pc = "offer", ![d].item = i, ![d].found = TRUE]
    BY <1>4
  <2> DEFINE j == [job[d] EXCEPT !.pc = "offer", !.item = i, !.found = TRUE]
  <2>2. i \in Nat
    BY ItemFacts DEF ImportInv
  <2>3. j \in Job /\ j.pc = "offer" /\ j.item = i /\ j.row = job[d].row
    BY <1>2, <2>2 DEF Job, Steps
  <2>4. job' = [job EXCEPT ![d] = j]
    BY <2>1 DEF ImportInv, ImportTyped
  <2>5. items[i].sku # <<>>
    BY <2>1 DEF SkuOf
  <2>6. job'[d] = j
    BY <2>4 DEF ImportInv, ImportTyped
  <2>7. JobOK(d)'
    <3> HIDE DEF j
    <3> QED
      BY <1>1, <1>2, <2>3, <2>5, <2>6 DEF JobOK
  <2> QED
    BY <1>1, <2>3, <2>4, <2>7, OnlyJob
<1> QED
  BY <1>3, <1>4 DEF FindSku

\* The columns of an item that the unique indexes and the names do not read.
LEMMA OneItemChanges ==
  ASSUME ImportInv, NEW i \in DOMAIN items, NEW e \in Item, items' = [items EXCEPT ![i] = e],
         e.row = items[i].row, e.slug = items[i].slug, e.sku = items[i].sku \/ e.sku # <<>>,
         File[e.row].sku # NoName /\ e.sku # <<>> => e.sku = <<"sku", File[e.row].sku>>,
         e.offer => e.sku # <<>>,
         e.sku = items[i].sku \/ \A k \in DOMAIN items : items[k].sku # e.sku
  PROVE  Grow /\ items' \in Seq(Item) /\ ItemsNamed' /\ NamesDiffer'
<1>1. /\ items \in Seq(Item) /\ DOMAIN items = 1..Len(items) /\ i \in 1..Len(items)
      /\ ItemsNamed /\ NamesDiffer
  BY ItemFacts DEF ImportInv, ImportTyped
<1>2. items' \in Seq(Item) /\ Len(items') = Len(items) /\ DOMAIN items' = DOMAIN items
  BY <1>1, ExceptSeq, LenProperties
<1>3. items'[i] = e /\ \A k \in DOMAIN items : k # i => items'[k] = items[k]
  OBVIOUS
<1>4. Grow
  BY <1>2, <1>3 DEF Grow
<1>5. ItemsNamed'
  <2> SUFFICES ASSUME NEW k \in DOMAIN items PROVE NamedItem(k)'
    BY <1>2 DEF ItemsNamed
  <2>1. NamedItem(k)
    BY <1>1 DEF ItemsNamed
  <2> QED
    BY <1>3, <2>1 DEF NamedItem
<1>6. NamesDiffer'
  <2> SUFFICES ASSUME NEW k \in DOMAIN items, NEW l \in DOMAIN items, k # l
               PROVE  /\ items'[k].slug # items'[l].slug
                      /\ items'[k].sku # <<>> => items'[k].sku # items'[l].sku
    BY <1>2 DEF NamesDiffer
  <2> QED
    BY <1>1, <1>3 DEF NamesDiffer
<1> QED
  BY <1>2, <1>4, <1>5, <1>6

LEMMA CreateProductKeeps ==
  ASSUME ImportInv, NEW d \in Deliveries, CreateProduct(d)
  PROVE  ImportInv'
<1>1. UNCHANGED rows /\ import' \in Import /\ job[d].pc = "product" /\ job[d].row \in DOMAIN File /\ job[d] \in Job
  BY ItemFacts DEF CreateProduct, ImportInv, ImportTyped, InJob, JobsOK, JobOK, Steps
<1>2. CASE Set(d, "reject") /\ UNCHANGED items
  <2>1. "reject" \in Steps
    BY DEF Steps
  <2>2. JobOK(d)'
    BY <1>1, <1>2, <2>1, SetMoves DEF JobOK
  <2> QED
    BY <1>1, <1>2, <2>1, <2>2, SetMoves, OnlyJob
<1>3. CASE /\ ~\E i \in DOMAIN items : items[i].slug = SlugOf(d)
           /\ items' = Append(items, BareItem(job[d].row, SlugOf(d)))
           /\ job' = [job EXCEPT ![d].pc = "sku", ![d].item = Len(items) + 1]
  <2> DEFINE e == BareItem(job[d].row, SlugOf(d))
             j == [job[d] EXCEPT !.pc = "sku", !.item = Len(items) + 1]
  <2>1. DOMAIN items = 1..Len(items) /\ Len(items) \in Nat /\ items \in Seq(Item)
    BY ItemFacts DEF ImportInv, ImportTyped
  <2>2. SlugOf(d) \in SlugValues
    BY <1>1, <2>1 DEF SlugOf, SlugValues, Row
  <2>3. e \in Item /\ e.row = job[d].row /\ e.slug = SlugOf(d) /\ e.sku = <<>> /\ e.offer = FALSE
    <3>1. <<>> \in SkuValues
      BY DEF SkuValues
    <3> QED
      BY <1>1, <2>2, <3>1 DEF BareItem, Item
  <2> HIDE DEF e
  <2>4. /\ items' \in Seq(Item) /\ Len(items') = Len(items) + 1
        /\ \A i \in 1..Len(items) : items'[i] = items[i]
        /\ items'[Len(items) + 1] = e
    BY <1>3, <2>1, <2>3, AppendProperties DEF e
  <2>5. DOMAIN items' = 1..(Len(items) + 1)
    BY <2>4, LenProperties
  <2>6. Grow
    BY <2>1, <2>4, <2>5 DEF Grow
  <2>7. ItemsNamed'
    <3> SUFFICES ASSUME NEW k \in 1..(Len(items) + 1) PROVE NamedItem(k)'
      BY <2>5 DEF ItemsNamed
    <3>1. CASE k \in DOMAIN items
      BY <2>1, <2>4, <3>1 DEF NamedItem, ItemsNamed, ImportInv
    <3>2. CASE k = Len(items) + 1
      <4>1. File[e.row].slug # NoName => e.slug = <<"slug", File[e.row].slug>>
        BY <2>3 DEF SlugOf, Row
      <4> QED
        BY <2>3, <2>4, <3>2, <4>1 DEF NamedItem
    <3> QED
      BY <2>1, <3>1, <3>2
  <2>8. NamesDiffer'
    <3> SUFFICES ASSUME NEW k \in 1..(Len(items) + 1), NEW l \in 1..(Len(items) + 1), k # l
                 PROVE  /\ items'[k].slug # items'[l].slug
                        /\ items'[k].sku # <<>> => items'[k].sku # items'[l].sku
      BY <2>5 DEF NamesDiffer
    <3>1. CASE k \in DOMAIN items /\ l \in DOMAIN items
      BY <2>1, <2>4, <3>1 DEF NamesDiffer, ImportInv
    <3>2. CASE k = Len(items) + 1 /\ l \in DOMAIN items
      BY <1>3, <2>1, <2>3, <2>4, <3>2
    <3>3. CASE l = Len(items) + 1 /\ k \in DOMAIN items
      BY <1>3, <2>1, <2>3, <2>4, <3>3
    <3> QED
      BY <2>1, <3>1, <3>2, <3>3
  <2>9. j \in Job /\ j.pc = "sku" /\ j.item = Len(items) + 1 /\ j.row = job[d].row
    <3>1. Len(items) + 1 \in Nat /\ job[d] \in Job
      BY <1>1, <2>1
    <3> QED
      BY <3>1 DEF Job, Steps
  <2>10. job' = [job EXCEPT ![d] = j] /\ job'[d] = j
    BY <1>3 DEF ImportInv, ImportTyped
  <2> HIDE DEF j
  <2>11. JobOK(d)'
    BY <1>1, <2>1, <2>3, <2>4, <2>5, <2>9, <2>10 DEF JobOK
  <2>12. JobsOK' /\ job' \in [Deliveries -> Job]
    BY <2>6, <2>9, <2>10, <2>11, OthersStay
  <2> QED
    BY <1>1, <2>4, <2>6, <2>7, <2>8, <2>12, RowsStay DEF ImportInv, ImportTyped
<1> QED
  BY <1>2, <1>3 DEF CreateProduct

\* A step that writes one item and moves on.
LEMMA Writes ==
  ASSUME ImportInv, NEW d \in Deliveries, NEW pc \in {"offer", "stock", "document", "report"}, Set(d, pc),
         job[d].pc \in {"sku", "offer", "stock", "document"}, Grow, items' \in Seq(Item),
         ItemsNamed', NamesDiffer', UNCHANGED <<import, rows>>,
         pc = "offer" => items'[job[d].item].sku # <<>>
  PROVE  ImportInv'
<1>1. pc \in Steps
  BY DEF Steps
<1>2. job[d].row \in DOMAIN File /\ job[d].item \in DOMAIN items'
  BY DEF Steps, ImportInv, JobsOK, JobOK, Grow
<1>3. JobOK(d)'
  BY <1>1, <1>2, SetMoves DEF JobOK
<1>4. JobsOK' /\ job' \in [Deliveries -> Job]
  BY <1>1, <1>3, SetMoves, OthersStay
<1> QED
  BY <1>4, RowsStay DEF ImportInv, ImportTyped

LEMMA CreateSkuKeeps ==
  ASSUME ImportInv, NEW d \in Deliveries, CreateSku(d)
  PROVE  ImportInv'
<1>1. /\ UNCHANGED <<rows, import>> /\ job[d].pc = "sku" /\ job[d].row \in DOMAIN File /\ job[d] \in Job
      /\ job[d].item \in DOMAIN items /\ items[job[d].item].row = job[d].row
      /\ items[job[d].item] \in Item /\ import \in Import
  BY ItemFacts DEF CreateSku, ImportInv, ImportTyped, InJob, JobsOK, JobOK, Steps
<1>2. CASE Set(d, "reject") /\ UNCHANGED items
  <2>1. "reject" \in Steps
    BY DEF Steps
  <2>2. JobOK(d)'
    BY <1>1, <1>2, <2>1, SetMoves DEF JobOK
  <2> QED
    BY <1>1, <1>2, <2>1, <2>2, SetMoves, OnlyJob
<1>3. CASE /\ ~\E i \in DOMAIN items : items[i].sku = SkuOf(d)
           /\ items' = [items EXCEPT ![job[d].item].sku = SkuOf(d)] /\ Set(d, "offer")
  <2> DEFINE i == job[d].item
             e == [items[i] EXCEPT !.sku = SkuOf(d)]
  <2>1. SkuOf(d) \in SkuValues /\ SkuOf(d) # <<>>
    BY <1>1 DEF SkuOf, SkuValues, Row, Job
  <2>2. /\ e \in Item /\ e.row = job[d].row /\ e.slug = items[i].slug /\ e.sku = SkuOf(d)
    BY <1>1, <2>1 DEF Item
  <2>3. items' = [items EXCEPT ![i] = e]
    BY <1>3
  <2> HIDE DEF e
  <2>4. File[e.row].sku # NoName /\ e.sku # <<>> => e.sku = <<"sku", File[e.row].sku>>
    BY <2>2 DEF SkuOf, Row
  <2>5. /\ e.row = items[i].row /\ e.sku # <<>>
        /\ \A k \in DOMAIN items : items[k].sku # e.sku
    BY <1>1, <1>3, <2>1, <2>2
  <2>6. Grow /\ items' \in Seq(Item) /\ ItemsNamed' /\ NamesDiffer'
    BY <1>1, <2>2, <2>3, <2>4, <2>5, OneItemChanges
  <2>7. items'[i].sku # <<>>
    BY <1>1, <2>3, <2>5
  <2> QED
    BY <1>1, <1>3, <2>6, <2>7, Writes
<1> QED
  BY <1>2, <1>3 DEF CreateSku

\* The other columns.
LEMMA ColumnsKeep ==
  ASSUME ImportInv, NEW d \in Deliveries, WriteOffer(d) \/ WriteStock(d) \/ WriteDocument(d)
  PROVE  ImportInv'
<1> DEFINE i == job[d].item
<1>1. /\ UNCHANGED <<rows, import>> /\ job[d].pc \in {"offer", "stock", "document"}
      /\ job[d].row \in DOMAIN File /\ i \in DOMAIN items /\ items[i] \in Item /\ NamedItem(i)
      /\ job[d].pc = "offer" => items[i].sku # <<>>
  BY ItemFacts DEF WriteOffer, WriteStock, WriteDocument, ImportInv, ImportTyped, InJob, JobsOK, JobOK,
                   Steps, ItemsNamed
<1>2. File[job[d].row].price \in BOOLEAN /\ File[job[d].row].stock \in BOOLEAN
  BY <1>1, ImportConstants
<1>3. PICK e \in Item : /\ items' = [items EXCEPT ![i] = e] /\ e.row = items[i].row /\ e.slug = items[i].slug
                        /\ e.sku = items[i].sku /\ (e.offer => items[i].offer \/ job[d].pc = "offer")
  <2>1. CASE WriteOffer(d)
    <3> DEFINE e == [items[i] EXCEPT !.offer = items[i].offer \/ Row(d).price]
    <3>1. (items[i].offer \/ Row(d).price) \in BOOLEAN
      OBVIOUS
    <3>2. e \in Item /\ e.row = items[i].row /\ e.slug = items[i].slug /\ e.sku = items[i].sku
      BY <1>1, <3>1 DEF Item
    <3>3. items' = [items EXCEPT ![i] = e] /\ job[d].pc = "offer"
      BY <2>1 DEF WriteOffer, InJob
    <3> HIDE DEF e
    <3> QED
      BY <3>2, <3>3
  <2>2. CASE WriteStock(d)
    <3> DEFINE e == [items[i] EXCEPT !.stock = Row(d).stock]
    <3>1. e \in Item /\ e.row = items[i].row /\ e.slug = items[i].slug /\ e.sku = items[i].sku
          /\ e.offer = items[i].offer
      BY <1>1, <1>2 DEF Item, Row
    <3>2. items' = [items EXCEPT ![i] = e]
      BY <2>2 DEF WriteStock
    <3> HIDE DEF e
    <3> QED
      BY <3>1, <3>2
  <2>3. CASE WriteDocument(d)
    <3> DEFINE e == [items[i] EXCEPT !.document = TRUE]
    <3>1. e \in Item /\ e.row = items[i].row /\ e.slug = items[i].slug /\ e.sku = items[i].sku
          /\ e.offer = items[i].offer
      BY <1>1 DEF Item
    <3>2. items' = [items EXCEPT ![i] = e]
      BY <2>3 DEF WriteDocument
    <3> HIDE DEF e
    <3> QED
      BY <3>1, <3>2
  <2> QED
    BY <2>1, <2>2, <2>3
<1>4. /\ File[e.row].sku # NoName /\ e.sku # <<>> => e.sku = <<"sku", File[e.row].sku>>
      /\ e.offer => e.sku # <<>>
  BY <1>1, <1>3 DEF NamedItem
<1>5. Grow /\ items' \in Seq(Item) /\ ItemsNamed' /\ NamesDiffer'
  BY <1>1, <1>3, <1>4, OneItemChanges
<1>6. PICK pc \in {"stock", "document", "report"} : Set(d, pc)
  BY DEF WriteOffer, WriteStock, WriteDocument, AfterOffer
<1> QED
  BY <1>1, <1>5, <1>6, Writes

LEMMA ReportKeeps ==
  ASSUME ImportInv, NEW d \in Deliveries, Report(d) \/ Reject(d)
  PROVE  ImportInv'
<1>1. PICK ok \in BOOLEAN, counter \in {"created", "updated", "rejected"} :
        NextRow(d, ok, counter) /\ (ok => job[d].pc = "report") /\ job[d].pc \in {"report", "reject"}
  BY DEF Report, Reject, InJob
<1>2. /\ job[d].row \in DOMAIN File /\ job[d] \in Job /\ job[d].row >= 1 /\ job[d].row \in Nat
      /\ ok => job[d].item \in DOMAIN items
  BY <1>1, ItemFacts, ImportConstants DEF ImportInv, JobsOK, JobOK, Steps, Job
<1> DEFINE j == [job[d] EXCEPT !.pc = "row", !.row = job[d].row + 1, !.item = 0, !.found = FALSE,
                               ![counter] = job[d][counter] + 1]
           new == [row |-> job[d].row, ok |-> ok, item |-> IF ok THEN job[d].item ELSE 0]
<1>3. UNCHANGED <<import, items>> /\ job' = [job EXCEPT ![d] = j] /\ rows' = Append(rows, new)
  BY <1>1 DEF NextRow
<1>4. j \in Job /\ j.pc = "row" /\ j.row >= 1
  <2>1. CASE counter = "created"
    <3>1. j = [job[d] EXCEPT !.pc = "row", !.row = job[d].row + 1, !.item = 0, !.found = FALSE,
                          !.created = job[d].created + 1]
      BY <2>1
    <3>2. job[d].created + 1 \in Nat /\ job[d].row + 1 \in Nat /\ job[d].row + 1 >= 1
      BY <1>2 DEF Job
    <3> HIDE DEF j
    <3> QED
      BY <1>2, <3>1, <3>2 DEF Job, Steps
  <2>2. CASE counter = "updated"
    <3>1. j = [job[d] EXCEPT !.pc = "row", !.row = job[d].row + 1, !.item = 0, !.found = FALSE,
                          !.updated = job[d].updated + 1]
      BY <2>2
    <3>2. job[d].updated + 1 \in Nat /\ job[d].row + 1 \in Nat /\ job[d].row + 1 >= 1
      BY <1>2 DEF Job
    <3> HIDE DEF j
    <3> QED
      BY <1>2, <3>1, <3>2 DEF Job, Steps
  <2>3. CASE counter = "rejected"
    <3>1. j = [job[d] EXCEPT !.pc = "row", !.row = job[d].row + 1, !.item = 0, !.found = FALSE,
                          !.rejected = job[d].rejected + 1]
      BY <2>3
    <3>2. job[d].rejected + 1 \in Nat /\ job[d].row + 1 \in Nat /\ job[d].row + 1 >= 1
      BY <1>2 DEF Job
    <3> HIDE DEF j
    <3> QED
      BY <1>2, <3>1, <3>2 DEF Job, Steps
  <2> QED
    BY <2>1, <2>2, <2>3
<1>5. new \in ReportRow /\ new.item \in {0} \cup DOMAIN items
  BY <1>2 DEF ReportRow, Job
<1> HIDE DEF j, new
<1>6. job'[d] = j
  BY <1>3 DEF ImportInv, ImportTyped
<1>7. JobOK(d)'
  BY <1>4, <1>6 DEF JobOK, Steps
<1>8. Grow /\ ItemsNamed' /\ NamesDiffer'
  BY <1>3, ItemsStay
<1>9. JobsOK' /\ job' \in [Deliveries -> Job]
  BY <1>3, <1>4, <1>7, <1>8, OthersStay
<1>10. /\ rows' \in Seq(ReportRow) /\ \A k \in DOMAIN rows' : rows'[k].item \in {0} \cup DOMAIN items
  <2>1. rows \in Seq(ReportRow) /\ \A k \in DOMAIN rows : rows[k].item \in {0} \cup DOMAIN items
    BY DEF ImportInv, ImportTyped
  <2>2. /\ rows' \in Seq(ReportRow) /\ Len(rows') = Len(rows) + 1
        /\ \A k \in 1..Len(rows) : rows'[k] = rows[k]
        /\ rows'[Len(rows) + 1] = new
    BY <1>3, <1>5, <2>1, AppendProperties
  <2>3. DOMAIN rows' = 1..(Len(rows) + 1) /\ DOMAIN rows = 1..Len(rows) /\ Len(rows) \in Nat
    BY <2>1, <2>2, LenProperties
  <2> QED
    BY <1>5, <2>1, <2>2, <2>3
<1> QED
  BY <1>3, <1>8, <1>9, <1>10 DEF ImportInv, ImportTyped

LEMMA ImportStutters == ASSUME ImportInv, UNCHANGED importVars PROVE ImportInv'
<1>1. UNCHANGED <<import, items, rows, job>>
  BY DEF importVars
<1> QED
  BY <1>1 DEF ImportInv, ImportTyped, ItemsNamed, NamedItem, NamesDiffer, JobsOK, JobOK

LEMMA ImportSteps == ImportInv /\ [ImportNext]_importVars => ImportInv'
BY ApiKeeps, RestKeeps, FindSkuKeeps, CreateProductKeeps, CreateSkuKeeps, ColumnsKeep, ReportKeeps,
   ImportStutters DEF ImportNext, Work

\* The import, its products, its report and its deliveries keep their types, and a reported row
\* names a product there is (runCatalogImportJob).
THEOREM ImportTypes == ImportSpec => []ImportTypeOK
<1>1. ImportInv => ImportTypeOK
  <2> SUFFICES ASSUME ImportInv PROVE ImportTypeOK
    OBVIOUS
  <2>1. \A k \in DOMAIN rows : rows[k] \in ReportRow
    BY ElementOfSeq, LenProperties DEF ImportInv, ImportTyped
  <2> QED
    BY <2>1 DEF ImportTypeOK, ImportInv, ImportTyped, Import, States, ReportRow
<1> QED
  BY <1>1, ImportStarts, ImportSteps, PTL DEF ImportSpec

\* However many deliveries of the message overlap or die, a row that names its slug makes one
\* product, and a row that names its SKU puts one on sale: every name is checked and written in
\* one statement, and a product is offered only once it has its SKU.
THEOREM OneProductEach == ImportSpec => []OneProductPerNamedRow
<1>1. ImportInv => OneProductPerNamedRow
  <2> SUFFICES ASSUME ImportInv, NEW i \in DOMAIN items, NEW j \in DOMAIN items, i # j,
                      items[i].row = items[j].row
               PROVE  /\ File[items[i].row].slug = NoName
                      /\ File[items[i].row].sku # NoName => ~(items[i].offer /\ items[j].offer)
    BY DEF OneProductPerNamedRow
  <2>1. NamedItem(i) /\ NamedItem(j) /\ items[i].slug # items[j].slug
        /\ (items[i].sku # <<>> => items[i].sku # items[j].sku)
    BY DEF ImportInv, ItemsNamed, NamesDiffer
  <2> QED
    BY <2>1 DEF NamedItem
<1> QED
  BY <1>1, ImportStarts, ImportSteps, PTL DEF ImportSpec
-----------------------------------------------------------------------------
(***************************************************************************)
(* The seeded categories.                                                  *)
(***************************************************************************)
AllRequests ==
  [op : {"create"}, id : {NoRow}, name : Names, top : BOOLEAN]
  \cup [op : {"update"}, id : RowIds, name : DOMAIN Slugify \cup {NoRow},
         change : {"none", "hide", "archive"}]
EditPlace ==
  [pc : {"idle", "slug", "write", "failed"}, call : AllRequests \cup {NoEdit},
   slug : CategorySlugs \cup {NoRow}]
BootPlace ==
  [pc : {"off", "find", "write", "up", "failed"}, at : DOMAIN Roots, row : RowIds \cup {NoRow}]

EditOK(place) ==
  /\ place.pc \in {"slug", "write"} => place.call \in AllRequests
  /\ place.pc = "slug" => place.call.name \in DOMAIN Slugify
  /\ place.pc = "write" => place.slug \in CategorySlugs

TaxonomyShape ==
  /\ categories \in Seq(Category) /\ Len(categories) <= MaxRows
  /\ boot \in [Boots -> BootPlace] /\ edit \in [Editors -> EditPlace]
  /\ requests \in 0..MaxRequests /\ touched \in [Boots -> SUBSET DOMAIN Roots]
EditsOK == \A e \in Editors : EditOK(edit[e])

\* A seeding is past a root, and no request has come between.
Past(b, i) ==
  boot[b].pc = "up" \/ (boot[b].pc \in {"find", "write"} /\ i < boot[b].at)
StandInv ==
  \A b \in Boots, i \in DOMAIN Roots : Past(b, i) /\ i \notin touched[b] => Stands(Roots[i])
\* The row a seeding has found is still that of its root.
Has(row, i) == Live(row) /\ categories[row].slug = Roots[i].slug
HoldsRow(b) == boot[b].pc = "write" /\ boot[b].row # NoRow
Found(b) ==
  HoldsRow(b) => /\ boot[b].row \in DOMAIN categories
                 /\ boot[b].at \notin touched[b] => Has(boot[b].row, boot[b].at)
FoundInv == \A b \in Boots : Found(b)
\* A seeding about to write on the row of another root was overtaken by a request, which every
\* other seeding knows of.
ForeignInv ==
  \A c \in Boots, i \in DOMAIN Roots :
    HoldsRow(c) /\ categories[boot[c].row].slug = Roots[i].slug =>
      i = boot[c].at \/ \A b \in Boots : i \in touched[b]

TaxonomyInv == TaxonomyShape /\ EditsOK /\ StandInv /\ FoundInv /\ ForeignInv

-----------------------------------------------------------------------------
LEMMA RootFacts ==
  /\ 1 \in DOMAIN Roots /\ Len(Roots) \in Nat
  /\ \A i \in DOMAIN Roots :
       /\ i \in Nat /\ 1 <= i /\ i <= Len(Roots)
       /\ i # Len(Roots) => i + 1 \in DOMAIN Roots
       /\ Roots[i].name \in DOMAIN Slugify /\ Roots[i].slug \in CategorySlugs
<1>1. Len(Roots) \in Nat /\ DOMAIN Roots = 1..Len(Roots) /\ Len(Roots) > 0
  BY TaxonomyAssumption, LenProperties
<1>2. \A i \in 1..Len(Roots) : Roots[i] \in Root
  BY TaxonomyAssumption, ElementOfSeq
<1> QED
  BY <1>1, <1>2 DEF Root

\* A row is added.
LEMMA RowAdded ==
  ASSUME TaxonomyShape, Len(categories) < MaxRows, NEW row \in Category,
         categories' = Append(categories, row)
  PROVE  /\ categories' \in Seq(Category) /\ Len(categories') <= MaxRows
         /\ \A id \in DOMAIN categories :
              id \in DOMAIN categories' /\ categories'[id] = categories[id]
         /\ \E id \in RowIds : id \in DOMAIN categories' /\ categories'[id] = row
<1> DEFINE n == Len(categories)
<1>1. categories \in Seq(Category) /\ n \in Nat /\ MaxRows \in Nat /\ n < MaxRows
  BY TaxonomyAssumption, LenProperties DEF TaxonomyShape
<1>2. /\ categories' \in Seq(Category) /\ Len(categories') = n + 1
      /\ \A i \in 1..n : categories'[i] = categories[i]
      /\ categories'[n + 1] = row
  BY <1>1, AppendProperties
<1>3. DOMAIN categories = 1..n /\ DOMAIN categories' = 1..(n + 1)
  BY <1>1, <1>2, LenProperties
<1>4. n + 1 \in RowIds /\ n + 1 \in 1..(n + 1) /\ n + 1 <= MaxRows
      /\ \A i \in 1..n : i \in 1..(n + 1)
  BY <1>1 DEF RowIds
<1> HIDE DEF n
<1> QED
  BY <1>2, <1>3, <1>4

\* A row is set.
LEMMA RowSet ==
  ASSUME TaxonomyShape, NEW k \in DOMAIN categories, NEW row \in Category,
         categories' = [categories EXCEPT ![k] = row]
  PROVE  /\ categories' \in Seq(Category) /\ Len(categories') <= MaxRows
         /\ DOMAIN categories' = DOMAIN categories /\ categories'[k] = row
         /\ \A id \in DOMAIN categories : id # k => categories'[id] = categories[id]
<1>1. categories \in Seq(Category)
  BY DEF TaxonomyShape
<1>2. k \in 1..Len(categories)
  BY <1>1, LenProperties
<1>3. categories' \in Seq(Category) /\ Len(categories') = Len(categories)
  BY <1>1, <1>2, ExceptSeq
<1> QED
  BY <1>3 DEF TaxonomyShape

LEMMA RowFacts ==
  ASSUME TaxonomyShape, NEW k \in DOMAIN categories
  PROVE  categories[k] \in Category /\ k \in RowIds
<1>1. categories \in Seq(Category) /\ Len(categories) <= MaxRows /\ MaxRows \in Nat
  BY TaxonomyAssumption DEF TaxonomyShape
<1>2. k \in 1..Len(categories) /\ Len(categories) \in Nat
  BY <1>1, LenProperties
<1> QED
  BY <1>1, <1>2, ElementOfSeq DEF RowIds

-----------------------------------------------------------------------------
LEMMA StartKeeps ==
  ASSUME TaxonomyInv, NEW b \in Boots, Start(b) PROVE TaxonomyInv'
<1> DEFINE place == [Off EXCEPT !.pc = "find"]
<1>1. place \in BootPlace /\ place.pc = "find" /\ place.at = 1
  BY RootFacts DEF Off, BootPlace
<1>2. boot' = [boot EXCEPT ![b] = place] /\ UNCHANGED <<categories, edit, requests>>
  BY DEF Start
<1> HIDE DEF place
<1>3. /\ boot \in [Boots -> BootPlace] /\ touched \in [Boots -> SUBSET DOMAIN Roots]
      /\ boot' \in [Boots -> BootPlace] /\ boot'[b] = place
      /\ \A c \in Boots \ {b} : boot'[c] = boot[c]
  BY <1>1, <1>2 DEF TaxonomyInv, TaxonomyShape
<1>4. /\ touched' \in [Boots -> SUBSET DOMAIN Roots]
      /\ \A c \in Boots \ {b} : touched'[c] = touched[c]
      /\ touched'[b] = UNION {touched[c] : c \in Seeding \ {b}}
  BY <1>3 DEF Start, Seeding
<1>5. TaxonomyShape' /\ EditsOK'
  BY <1>2, <1>3, <1>4 DEF TaxonomyInv, TaxonomyShape, EditsOK
<1>6. StandInv'
  <2> SUFFICES ASSUME NEW c \in Boots, NEW i \in DOMAIN Roots, Past(c, i)', i \notin touched'[c]
               PROVE  Stands(Roots[i])'
    BY DEF StandInv
  <2>1. c # b
    BY <1>1, <1>3, RootFacts DEF Past
  <2>2. Stands(Roots[i])
    BY <1>3, <1>4, <2>1 DEF TaxonomyInv, StandInv, Past
  <2> QED
    BY <1>2, <2>2 DEF Stands, Live
<1>7. FoundInv'
  <2> SUFFICES ASSUME NEW c \in Boots PROVE Found(c)'
    BY DEF FoundInv
  <2>1. CASE c = b
    BY <1>1, <1>3, <2>1 DEF Found, HoldsRow
  <2>2. CASE c # b
    BY <1>2, <1>3, <1>4, <2>2 DEF TaxonomyInv, FoundInv, Found, HoldsRow, Has, Live
  <2> QED
    BY <2>1, <2>2
<1>8. ForeignInv'
  <2> SUFFICES ASSUME NEW c \in Boots, NEW i \in DOMAIN Roots, HoldsRow(c)',
                      categories'[boot'[c].row].slug = Roots[i].slug, i # boot'[c].at,
                      NEW d \in Boots
               PROVE  i \in touched'[d]
    BY DEF ForeignInv
  <2>1. c # b /\ HoldsRow(c) /\ boot'[c] = boot[c]
    BY <1>1, <1>3 DEF HoldsRow
  <2>2. \A x \in Boots : i \in touched[x]
    BY <1>2, <2>1 DEF TaxonomyInv, ForeignInv
  <2>3. c \in Seeding \ {b}
    BY <2>1 DEF HoldsRow, Seeding
  <2> QED
    BY <1>4, <2>2, <2>3
<1> QED
  BY <1>5, <1>6, <1>7, <1>8 DEF TaxonomyInv

LEMMA FindKeeps ==
  ASSUME TaxonomyInv, NEW b \in Boots, FindRoot(b) PROVE TaxonomyInv'
<1>1. PICK row \in RowIds \cup {NoRow} :
        /\ row # NoRow => Live(row) /\ categories[row].slug = Roots[boot[b].at].slug
        /\ boot' = [boot EXCEPT ![b].pc = "write", ![b].row = row]
  BY DEF FindRoot
<1>2. /\ UNCHANGED <<categories, edit, requests, touched>> /\ boot[b].pc = "find"
      /\ boot \in [Boots -> BootPlace]
  BY DEF FindRoot, TaxonomyInv, TaxonomyShape
<1> DEFINE place == [boot[b] EXCEPT !.pc = "write", !.row = row]
<1>3. place \in BootPlace /\ place.pc = "write" /\ place.row = row /\ place.at = boot[b].at
  BY <1>1, <1>2 DEF BootPlace
<1>4. boot' = [boot EXCEPT ![b] = place]
  BY <1>1
<1> HIDE DEF place
<1>5. /\ boot' \in [Boots -> BootPlace] /\ boot'[b] = place
      /\ \A c \in Boots \ {b} : boot'[c] = boot[c]
  BY <1>2, <1>3, <1>4
<1>6. TaxonomyShape' /\ EditsOK'
  BY <1>2, <1>5 DEF TaxonomyInv, TaxonomyShape, EditsOK
<1>7. StandInv'
  <2> SUFFICES ASSUME NEW c \in Boots, NEW i \in DOMAIN Roots, Past(c, i)', i \notin touched'[c]
               PROVE  Stands(Roots[i])'
    BY DEF StandInv
  <2>1. Past(c, i)
    BY <1>2, <1>3, <1>5 DEF Past
  <2>2. Stands(Roots[i])
    BY <1>2, <2>1 DEF TaxonomyInv, StandInv
  <2> QED
    BY <1>2, <2>2 DEF Stands, Live
<1>8. row # NoRow => row \in DOMAIN categories /\ Has(row, boot[b].at)
  BY <1>1 DEF Has, Live
<1>9. FoundInv'
  <2> SUFFICES ASSUME NEW c \in Boots PROVE Found(c)'
    BY DEF FoundInv
  <2>1. CASE c = b
    BY <1>2, <1>3, <1>5, <1>8, <2>1 DEF Found, HoldsRow, Has, Live
  <2>2. CASE c # b
    BY <1>2, <1>5, <2>2 DEF TaxonomyInv, FoundInv, Found, HoldsRow, Has, Live
  <2> QED
    BY <2>1, <2>2
<1>10. ForeignInv'
  <2> SUFFICES ASSUME NEW c \in Boots, NEW i \in DOMAIN Roots, HoldsRow(c)',
                      categories'[boot'[c].row].slug = Roots[i].slug, i # boot'[c].at,
                      NEW d \in Boots
               PROVE  i \in touched'[d]
    BY DEF ForeignInv
  <2>1. CASE c = b
    <3>1. boot[b].at \in DOMAIN Roots
      BY <1>2 DEF BootPlace
    <3>2. Roots[boot[b].at].slug = Roots[i].slug /\ boot[b].at # i
      BY <1>2, <1>3, <1>5, <1>8, <2>1 DEF HoldsRow, Has
    <3> QED
      BY <3>1, <3>2, TaxonomyAssumption
  <2>2. CASE c # b
    BY <1>2, <1>5, <2>2 DEF TaxonomyInv, ForeignInv, HoldsRow
  <2> QED
    BY <2>1, <2>2
<1> QED
  BY <1>6, <1>7, <1>9, <1>10 DEF TaxonomyInv

\* Rows only got a name, a place and a sight, or came to be: what was found is still so.
SameRow(id) ==
  /\ categories'[id].slug = categories[id].slug
  /\ categories'[id].archived = categories[id].archived

LEMMA WriteRootKeeps ==
  ASSUME TaxonomyInv, NEW b \in Boots, WriteRoot(b) PROVE TaxonomyInv'
<1>0. PICK at \in DOMAIN Roots : at = boot[b].at
  BY DEF TaxonomyInv, TaxonomyShape, BootPlace
<1> DEFINE row == boot[b].row
           root == Roots[at]
<1>1. /\ boot[b].pc = "write" /\ UNCHANGED <<edit, requests, touched>>
      /\ boot \in [Boots -> BootPlace] /\ row \in RowIds \cup {NoRow}
      /\ TaxonomyShape /\ EditsOK
  BY DEF WriteRoot, TaxonomyInv, TaxonomyShape, BootPlace
<1>2. root.name \in DOMAIN Slugify /\ root.slug \in CategorySlugs
  BY <1>1, RootFacts
<1>3. CASE row = NoRow /\ Taken(root.slug, NoRow) /\ UNCHANGED categories
           /\ boot' = [boot EXCEPT ![b] = [Off EXCEPT !.pc = "failed"]]
  <2> DEFINE place == [Off EXCEPT !.pc = "failed"]
  <2>1. place \in BootPlace /\ place.pc = "failed"
    BY RootFacts DEF Off, BootPlace
  <2>2. boot' = [boot EXCEPT ![b] = place]
    BY <1>3
  <2> HIDE DEF place
  <2>3. /\ boot' \in [Boots -> BootPlace] /\ boot'[b].pc = "failed"
        /\ \A c \in Boots \ {b} : boot'[c] = boot[c]
    BY <1>1, <2>1, <2>2
  <2>4. TaxonomyShape' /\ EditsOK'
    BY <1>1, <1>3, <2>3 DEF TaxonomyShape, EditsOK
  <2>5. StandInv'
    <3>1. \A i \in DOMAIN Roots : Stands(Roots[i])' <=> Stands(Roots[i])
      BY <1>3 DEF Stands, Live
    <3> QED
      BY <1>1, <2>3, <3>1 DEF TaxonomyInv, StandInv, Past
  <2>6. FoundInv'
    BY <1>1, <1>3, <2>3 DEF TaxonomyInv, FoundInv, Found, HoldsRow, Has, Live
  <2>7. ForeignInv'
    BY <1>1, <1>3, <2>3 DEF TaxonomyInv, ForeignInv, HoldsRow
  <2> QED
    BY <2>4, <2>5, <2>6, <2>7 DEF TaxonomyInv
<1>4. ASSUME Advance(b), categories' \in Seq(Category), Len(categories') <= MaxRows,
             \A id \in DOMAIN categories : id \in DOMAIN categories' /\ SameRow(id),
             \A i \in DOMAIN Roots : (i = at \/ Stands(Roots[i])) /\ i \notin touched[b] =>
                     Stands(Roots[i])',
             \A i \in DOMAIN Roots, c \in Boots \ {b} :
               Stands(Roots[i]) /\ i \notin touched[c] => Stands(Roots[i])'
      PROVE  TaxonomyInv'
  <2> DEFINE place == IF at = Len(Roots) THEN [Off EXCEPT !.pc = "up"]
                      ELSE [Off EXCEPT !.pc = "find", !.at = at + 1]
  <2>1. place \in BootPlace /\ place.pc \in {"up", "find"} /\ (place.pc = "find" =>
          place.at = at + 1)
    BY <1>1, RootFacts DEF Off, BootPlace
  <2>2. place.pc = "up" => at = Len(Roots)
    BY DEF Off
  <2>3. boot' = [boot EXCEPT ![b] = place]
    BY <1>0, <1>4 DEF Advance
  <2> HIDE DEF place
  <2>4. /\ boot' \in [Boots -> BootPlace] /\ boot'[b] = place
        /\ \A c \in Boots \ {b} : boot'[c] = boot[c]
    BY <1>1, <2>1, <2>3
  <2>5. TaxonomyShape' /\ EditsOK'
    BY <1>1, <1>4, <2>4 DEF TaxonomyShape, EditsOK
  <2>6. StandInv'
    <3> SUFFICES ASSUME NEW c \in Boots, NEW i \in DOMAIN Roots, Past(c, i)', i \notin touched'[c]
                 PROVE  Stands(Roots[i])'
      BY DEF StandInv
    <3>1. CASE c = b
      <4>1. i = at \/ i < at
        BY <1>1, <2>1, <2>2, <2>4, <3>1, RootFacts DEF Past
      <4>2. i < at => Past(b, i)
        BY <1>0, <1>1 DEF Past
      <4>3. i < at => Stands(Roots[i])
        BY <1>1, <3>1, <4>2 DEF TaxonomyInv, StandInv
      <4> QED
        BY <1>1, <1>4, <3>1, <4>1, <4>3
    <3>2. CASE c # b
      <4>1. Stands(Roots[i])
        BY <1>1, <2>4, <3>2 DEF TaxonomyInv, StandInv, Past
      <4> QED
        BY <1>1, <1>4, <3>2, <4>1
    <3> QED
      BY <3>1, <3>2
  <2>7. FoundInv'
    <3> SUFFICES ASSUME NEW c \in Boots, HoldsRow(c)' PROVE Found(c)'
      BY DEF FoundInv, Found
    <3>1. c # b /\ boot'[c] = boot[c] /\ HoldsRow(c)
      BY <2>1, <2>4 DEF HoldsRow
    <3>2. boot[c].row \in DOMAIN categories /\ touched' = touched
      BY <1>1, <3>1 DEF TaxonomyInv, FoundInv, Found
    <3>3. boot[c].row \in DOMAIN categories' /\ SameRow(boot[c].row)
      BY <1>4, <3>2
    <3> QED
      BY <3>1, <3>2, <3>3 DEF TaxonomyInv, FoundInv, Found, Has, Live, SameRow
  <2>8. ForeignInv'
    <3> SUFFICES ASSUME NEW c \in Boots, NEW i \in DOMAIN Roots, HoldsRow(c)',
                        categories'[boot'[c].row].slug = Roots[i].slug, i # boot'[c].at,
                        NEW d \in Boots
                 PROVE  i \in touched'[d]
      BY DEF ForeignInv
    <3>1. c # b /\ boot'[c] = boot[c] /\ HoldsRow(c)
      BY <2>1, <2>4 DEF HoldsRow
    <3>2. boot[c].row \in DOMAIN categories /\ touched' = touched
      BY <1>1, <3>1 DEF TaxonomyInv, FoundInv, Found
    <3>3. categories[boot[c].row].slug = Roots[i].slug
      BY <1>4, <3>1, <3>2 DEF SameRow
    <3> QED
      BY <3>1, <3>2, <3>3 DEF TaxonomyInv, ForeignInv
  <2> QED
    BY <2>5, <2>6, <2>7, <2>8 DEF TaxonomyInv
<1>5. CASE row # NoRow /\ Advance(b) /\ categories' = [categories EXCEPT ![row] = Seeded(@, root)]
  <2>1. row \in DOMAIN categories /\ (at \notin touched[b] => Has(row, at))
    BY <1>0, <1>1, <1>5 DEF TaxonomyInv, FoundInv, Found, HoldsRow
  <2>2. categories[row] \in Category /\ row \in RowIds
    BY <1>1, <2>1, RowFacts
  <2> DEFINE seeded == Seeded(categories[row], root)
  <2>3. /\ seeded \in Category /\ seeded.slug = categories[row].slug
        /\ seeded.archived = categories[row].archived /\ seeded.name = root.name
        /\ seeded.active = TRUE /\ seeded.top = TRUE
    BY <1>2, <2>2 DEF Seeded, Category
  <2>4. categories' = [categories EXCEPT ![row] = seeded]
    BY <1>5
  <2> HIDE DEF seeded, row, root
  <2>5. /\ categories' \in Seq(Category) /\ Len(categories') <= MaxRows
        /\ DOMAIN categories' = DOMAIN categories /\ categories'[row] = seeded
        /\ \A id \in DOMAIN categories : id # row => categories'[id] = categories[id]
    BY <1>1, <2>1, <2>3, <2>4, RowSet
  <2>6. \A id \in DOMAIN categories : id \in DOMAIN categories' /\ SameRow(id)
    BY <2>3, <2>5 DEF SameRow
  <2>7. at \notin touched[b] => Stands(root)'
    <3> SUFFICES ASSUME at \notin touched[b] PROVE Stands(root)'
      OBVIOUS
    <3>1. ~categories[row].archived /\ categories[row].slug = root.slug
      BY <2>1 DEF Has, Live, root
    <3>2. /\ row \in DOMAIN categories' /\ ~categories'[row].archived
          /\ categories'[row].active /\ categories'[row].top
          /\ categories'[row].slug = root.slug /\ categories'[row].name = root.name
      BY <2>1, <2>3, <2>5, <3>1
    <3> QED
      BY <2>2, <3>2 DEF Stands, Live, root
  <2>8. ASSUME NEW i \in DOMAIN Roots, NEW c \in Boots, i \notin touched[c], Stands(Roots[i])
        PROVE  Stands(Roots[i])'
    <3>1. PICK id \in RowIds : /\ Live(id) /\ categories[id].active /\ categories[id].top
                               /\ categories[id].slug = Roots[i].slug
                               /\ categories[id].name = Roots[i].name
      BY <2>8 DEF Stands
    <3>2. CASE id = row
      <4>1. i = at
        BY <1>0, <1>1, <1>5, <2>8, <3>1, <3>2 DEF TaxonomyInv, ForeignInv, HoldsRow, row
      <4>2. /\ id \in DOMAIN categories' /\ ~categories'[id].archived
            /\ categories'[id].active /\ categories'[id].top
            /\ categories'[id].slug = Roots[i].slug /\ categories'[id].name = Roots[i].name
        BY <2>1, <2>3, <2>5, <3>1, <3>2, <4>1 DEF Live, root
      <4> QED
        BY <4>2 DEF Stands, Live
    <3>3. CASE id # row
      BY <2>5, <3>1, <3>3 DEF Stands, Live
    <3> QED
      BY <3>2, <3>3
  <2>9. Advance(b)
    BY <1>5
  <2>10. \A i \in DOMAIN Roots : (i = at \/ Stands(Roots[i])) /\ i \notin touched[b] =>
          Stands(Roots[i])'
    BY <2>7, <2>8 DEF root
  <2>11. \A i \in DOMAIN Roots, c \in Boots \ {b} :
               Stands(Roots[i]) /\ i \notin touched[c] => Stands(Roots[i])'
    BY <2>8
  <2> QED
    BY <1>4, <2>5, <2>6, <2>9, <2>10, <2>11
<1>6. CASE Len(categories) < MaxRows /\ Advance(b)
           /\ categories' = Append(categories, New(root.name, root.slug, TRUE))
  <2> DEFINE new == New(root.name, root.slug, TRUE)
  <2>1. /\ new \in Category /\ new.slug = root.slug /\ new.name = root.name
        /\ new.active = TRUE /\ new.top = TRUE /\ new.archived = FALSE
    BY <1>2 DEF New, Category
  <2>2. categories' = Append(categories, new)
    BY <1>6
  <2> HIDE DEF new, row, root
  <2>3. /\ categories' \in Seq(Category) /\ Len(categories') <= MaxRows
        /\ \A id \in DOMAIN categories :
                id \in DOMAIN categories' /\ categories'[id] = categories[id]
        /\ \E id \in RowIds : id \in DOMAIN categories' /\ categories'[id] = new
    BY <1>1, <1>6, <2>1, <2>2, RowAdded
  <2>4. \A id \in DOMAIN categories : id \in DOMAIN categories' /\ SameRow(id)
    BY <2>3 DEF SameRow
  <2>5. Stands(root)'
    BY <2>1, <2>3 DEF Stands, Live, root
  <2>6. \A i \in DOMAIN Roots : Stands(Roots[i]) => Stands(Roots[i])'
    BY <2>3 DEF Stands, Live
  <2>7. \A i \in DOMAIN Roots : (i = at \/ Stands(Roots[i])) /\ i \notin touched[b] =>
          Stands(Roots[i])'
    BY <2>5, <2>6 DEF root
  <2>8. Advance(b)
    BY <1>6
  <2> QED
    BY <1>4, <2>3, <2>4, <2>6, <2>7, <2>8
<1> QED
  BY <1>0, <1>3, <1>5, <1>6 DEF WriteRoot

\* A request moves, and nothing else.
LEMMA RequestMoves ==
  ASSUME TaxonomyInv, NEW e \in Editors, NEW place \in EditPlace, EditOK(place),
         edit' = [edit EXCEPT ![e] = place], requests' \in 0..MaxRequests,
         UNCHANGED <<categories, boot, touched>>
  PROVE  TaxonomyInv'
<1>1. edit' \in [Editors -> EditPlace] /\ edit'[e] = place
        /\ \A d \in Editors \ {e} : edit'[d] = edit[d]
  BY DEF TaxonomyInv, TaxonomyShape
<1>2. TaxonomyShape' /\ EditsOK'
  BY <1>1 DEF TaxonomyInv, TaxonomyShape, EditsOK, EditOK
<1>3. StandInv'
  <2>1. \A i \in DOMAIN Roots : Stands(Roots[i])' <=> Stands(Roots[i])
    BY DEF Stands, Live
  <2> QED
    BY <2>1 DEF TaxonomyInv, StandInv, Past
<1>4. FoundInv' /\ ForeignInv'
  BY DEF TaxonomyInv, FoundInv, Found, ForeignInv, HoldsRow, Has, Live
<1> QED
  BY <1>2, <1>3, <1>4 DEF TaxonomyInv

LEMMA AskKeeps ==
  ASSUME TaxonomyInv, NEW e \in Editors, NEW call \in AllRequests, OpenRequest(e, call)
  PROVE  TaxonomyInv'
<1>1. call.op \in {"create", "update"} /\ (call.op = "update" => call.id \in RowIds)
  BY DEF AllRequests
<1>2. /\ call.name \in DOMAIN Slugify \cup {NoRow}
      /\ call.op = "create" => call.name \in DOMAIN Slugify /\ call.name # NoRow
  BY TaxonomyAssumption DEF AllRequests
<1>3. requests' \in 0..MaxRequests
  BY TaxonomyAssumption DEF OpenRequest, TaxonomyInv, TaxonomyShape
<1>4. CASE call.name # NoRow
  <2> DEFINE place == [pc |-> "slug", call |-> call, slug |-> NoRow]
  <2>1. place \in EditPlace /\ EditOK(place)
    BY <1>2, <1>4 DEF EditPlace, EditOK
  <2>2. edit' = [edit EXCEPT ![e] = place]
    BY <1>4 DEF OpenRequest
  <2> QED
    BY <1>3, <2>1, <2>2, RequestMoves DEF OpenRequest
<1>5. CASE call.name = NoRow /\ call.op = "update"
  <2> DEFINE place == [pc |-> "write", call |-> call, slug |-> categories[call.id].slug]
  <2>1. call.id \in DOMAIN categories
    BY <1>5 DEF OpenRequest, Live
  <2>2. categories[call.id].slug \in CategorySlugs
    BY <2>1, RowFacts DEF TaxonomyInv, Category
  <2>3. place \in EditPlace /\ EditOK(place)
    BY <2>2 DEF EditPlace, EditOK
  <2>4. edit' = [edit EXCEPT ![e] = place]
    BY <1>5 DEF OpenRequest
  <2> QED
    BY <1>3, <2>3, <2>4, RequestMoves DEF OpenRequest
<1> QED
  BY <1>1, <1>2, <1>4, <1>5

LEMMA PickSlugKeeps ==
  ASSUME TaxonomyInv, NEW e \in Editors, PickSlug(e)
  PROVE  TaxonomyInv'
<1>1. /\ edit[e] \in EditPlace /\ EditOK(edit[e]) /\ edit[e].pc = "slug"
      /\ requests' \in 0..MaxRequests /\ UNCHANGED <<categories, boot, touched>>
  BY DEF PickSlug, TaxonomyInv, TaxonomyShape, EditsOK
<1>2. ASSUME NEW s \in CategorySlugs, edit' = [edit EXCEPT ![e].pc = "write", ![e].slug = s]
      PROVE  TaxonomyInv'
  <2> DEFINE place == [edit[e] EXCEPT !.pc = "write", !.slug = s]
  <2>1. place \in EditPlace /\ place.pc = "write" /\ place.slug = s /\ place.call = edit[e].call
    BY <1>1 DEF EditPlace
  <2>2. edit' = [edit EXCEPT ![e] = place]
    BY <1>2
  <2>3. EditOK(place)
    BY <1>1, <2>1 DEF EditOK
  <2> HIDE DEF place
  <2> QED
    BY <1>1, <2>1, <2>2, <2>3, RequestMoves
<1>3. CASE edit' = [edit EXCEPT ![e] = [Rested EXCEPT !.pc = "failed"]]
  <2> DEFINE place == [Rested EXCEPT !.pc = "failed"]
  <2>1. place \in EditPlace /\ EditOK(place)
    BY DEF Rested, EditPlace, EditOK
  <2> HIDE DEF place
  <2> QED
    BY <1>1, <1>3, <2>1, RequestMoves DEF place
<1>4. Slugify[edit[e].call.name] \in CategorySlugs /\ Suffixed \subseteq CategorySlugs
  BY <1>1 DEF EditOK, CategorySlugs
<1> QED
  BY <1>2, <1>3, <1>4 DEF PickSlug

LEMMA WriteRowKeeps ==
  ASSUME TaxonomyInv, NEW e \in Editors, WriteRow(e)
  PROVE  TaxonomyInv'
<1> DEFINE place == edit[e]
<1>1. PICK call, slug, old :
        /\ call = place.call /\ slug = place.slug
        /\ old = IF call.op = "create" THEN {} ELSE {categories[call.id].slug}
  OBVIOUS
<1>2. /\ TaxonomyShape /\ call \in AllRequests /\ slug \in CategorySlugs
      /\ UNCHANGED <<boot, requests>>
      /\ edit \in [Editors -> EditPlace] /\ requests \in 0..MaxRequests
      /\ touched \in [Boots -> SUBSET DOMAIN Roots]
  BY <1>1 DEF WriteRow, TaxonomyInv, TaxonomyShape, EditsOK, EditOK
<1>3. CASE UNCHANGED <<categories, touched>>
        /\ edit' = [edit EXCEPT ![e] = [Rested EXCEPT !.pc = "failed"]]
  <2> DEFINE rest == [Rested EXCEPT !.pc = "failed"]
  <2>1. rest \in EditPlace /\ EditOK(rest)
    BY DEF Rested, EditPlace, EditOK
  <2> HIDE DEF rest
  <2> QED
    BY <1>2, <1>3, <2>1, RequestMoves DEF rest
<1>4. ASSUME touched' = [b \in Boots |->
                          touched[b] \cup {i \in DOMAIN Roots : Roots[i].slug \in {slug} \cup old}],
             edit' = [edit EXCEPT ![e] = Rested],
             categories' \in Seq(Category), Len(categories') <= MaxRows,
             \A id \in DOMAIN categories :
               /\ id \in DOMAIN categories'
               /\ \/ categories'[id] = categories[id]
                  \/ categories'[id].slug = slug /\ categories[id].slug \in old
      PROVE  TaxonomyInv'
  <2>1. /\ touched' \in [Boots -> SUBSET DOMAIN Roots]
        /\ \A b \in Boots : /\ touched[b] \subseteq touched'[b]
                            /\ \A i \in DOMAIN Roots :
                                    Roots[i].slug \in {slug} \cup old => i \in touched'[b]
    BY <1>2, <1>4
  <2>2. edit' \in [Editors -> EditPlace] /\ EditsOK'
    <3>1. Rested \in EditPlace /\ EditOK(Rested)
      BY DEF Rested, EditPlace, EditOK
    <3>2. edit' \in [Editors -> EditPlace] /\ edit'[e] = Rested
            /\ \A d \in Editors \ {e} : edit'[d] = edit[d]
      BY <1>2, <1>4, <3>1
    <3> QED
      BY <3>1, <3>2 DEF TaxonomyInv, EditsOK, EditOK
  <2>3. TaxonomyShape'
    BY <1>2, <1>4, <2>1, <2>2 DEF TaxonomyShape
  <2>4. StandInv'
    <3> SUFFICES ASSUME NEW c \in Boots, NEW i \in DOMAIN Roots, Past(c, i)', i \notin touched'[c]
                 PROVE  Stands(Roots[i])'
      BY DEF StandInv
    <3>1. Stands(Roots[i]) /\ Roots[i].slug \notin {slug} \cup old
      BY <1>2, <2>1 DEF TaxonomyInv, StandInv, Past
    <3>2. PICK id \in RowIds : /\ Live(id) /\ categories[id].active /\ categories[id].top
                               /\ categories[id].slug = Roots[i].slug
                               /\ categories[id].name = Roots[i].name
      BY <3>1 DEF Stands
    <3>3. id \in DOMAIN categories' /\ categories'[id] = categories[id]
      BY <1>4, <3>1, <3>2 DEF Live
    <3> QED
      BY <3>2, <3>3 DEF Stands, Live
  <2>5. FoundInv'
    <3> SUFFICES ASSUME NEW c \in Boots, HoldsRow(c)' PROVE Found(c)'
      BY DEF FoundInv, Found
    <3> DEFINE k == boot[c].row
               at == boot[c].at
    <3>1. /\ HoldsRow(c) /\ k \in DOMAIN categories /\ at \in DOMAIN Roots
          /\ at \notin touched[c] => Has(k, at)
      BY <1>2 DEF TaxonomyInv, FoundInv, Found, HoldsRow, TaxonomyShape, BootPlace
    <3>2. k \in DOMAIN categories'
      BY <1>4, <3>1
    <3>3. at \notin touched'[c] => Has(k, at) /\ categories'[k] = categories[k]
      <4>1. at \notin touched'[c] => at \notin touched[c] /\ Roots[at].slug \notin old
        BY <2>1, <3>1
      <4> QED
        BY <1>4, <3>1, <4>1 DEF Has
    <3> QED
      BY <1>2, <3>1, <3>2, <3>3 DEF Found, Has, Live
  <2>6. ForeignInv'
    <3> SUFFICES ASSUME NEW c \in Boots, NEW i \in DOMAIN Roots, HoldsRow(c)',
                        categories'[boot'[c].row].slug = Roots[i].slug, i # boot'[c].at,
                        NEW d \in Boots
                 PROVE  i \in touched'[d]
      BY DEF ForeignInv
    <3>1. HoldsRow(c) /\ boot[c].row \in DOMAIN categories /\ boot'[c] = boot[c]
      BY <1>2 DEF TaxonomyInv, FoundInv, Found, HoldsRow
    <3>2. CASE categories'[boot[c].row].slug = slug
      BY <2>1, <3>1, <3>2
    <3>3. CASE categories'[boot[c].row] = categories[boot[c].row]
      BY <2>1, <3>1, <3>3 DEF TaxonomyInv, ForeignInv
    <3> QED
      BY <1>4, <3>1, <3>2, <3>3
  <2> QED
    BY <2>2, <2>3, <2>4, <2>5, <2>6 DEF TaxonomyInv
<1>5. CASE call.op = "create" /\ Len(categories) < MaxRows
           /\ categories' = Append(categories, New(call.name, slug, call.top))
           /\ touched' = [b \in Boots |->
                          touched[b] \cup {i \in DOMAIN Roots : Roots[i].slug \in {slug} \cup old}]
           /\ edit' = [edit EXCEPT ![e] = Rested]
  <2>1. call.name \in DOMAIN Slugify /\ call.top \in BOOLEAN
    BY <1>2, <1>5, TaxonomyAssumption DEF AllRequests
  <2>2. New(call.name, slug, call.top) \in Category
    BY <1>2, <2>1 DEF New, Category
  <2>3. /\ categories' \in Seq(Category) /\ Len(categories') <= MaxRows
        /\ \A id \in DOMAIN categories :
                id \in DOMAIN categories' /\ categories'[id] = categories[id]
    BY <1>2, <1>5, <2>2, RowAdded
  <2> QED
    BY <1>4, <1>5, <2>3
<1>6. CASE call.op # "create"
           /\ categories' = [categories EXCEPT ![call.id] = Changed(@, call, slug)]
           /\ touched' = [b \in Boots |->
                          touched[b] \cup {i \in DOMAIN Roots : Roots[i].slug \in {slug} \cup old}]
           /\ edit' = [edit EXCEPT ![e] = Rested]
  <2>1. CASE call.id \in DOMAIN categories
    <3> DEFINE row == Changed(categories[call.id], call, slug)
    <3>1. categories[call.id] \in Category
      BY <1>2, <2>1, RowFacts
    <3>2. row \in Category /\ row.slug = slug
      <4>1. call.name = NoRow \/ call.name \in DOMAIN Slugify
        BY <1>2, <1>6 DEF AllRequests
      <4>2. /\ categories[call.id].active \in BOOLEAN /\ categories[call.id].archived \in BOOLEAN
            /\ categories[call.id].top \in BOOLEAN /\ categories[call.id].name \in DOMAIN Slugify
        BY <3>1 DEF Category
      <4> QED
        BY <1>2, <4>1, <4>2 DEF Changed, Category
    <3>3. categories' = [categories EXCEPT ![call.id] = row]
      BY <1>6
    <3> HIDE DEF row
    <3>4. /\ categories' \in Seq(Category) /\ Len(categories') <= MaxRows
          /\ DOMAIN categories' = DOMAIN categories /\ categories'[call.id] = row
          /\ \A id \in DOMAIN categories : id # call.id => categories'[id] = categories[id]
      BY <1>2, <2>1, <3>2, <3>3, RowSet
    <3>5. categories[call.id].slug \in old
      BY <1>1, <1>6
    <3> QED
      BY <1>4, <1>6, <3>2, <3>4, <3>5
  <2>2. CASE call.id \notin DOMAIN categories
    <3>1. categories \in Seq(Category) /\ Len(categories) <= MaxRows
      BY <1>2 DEF TaxonomyShape
    <3>2. categories' = categories
      BY <1>6, <2>2, <3>1
    <3> QED
      BY <1>4, <1>6, <3>1, <3>2
  <2> QED
    BY <2>1, <2>2
<1> QED
  BY <1>1, <1>3, <1>5, <1>6 DEF WriteRow

LEMMA RequestKeeps ==
  ASSUME TaxonomyInv, NEW e \in Editors, Request(e)
  PROVE  TaxonomyInv'
<1>1. ASSUME NEW name \in Names, NEW top \in BOOLEAN, OpenRequest(e, Creating(name, top))
        PROVE TaxonomyInv'
  <2>1. Creating(name, top) \in AllRequests
    BY DEF Creating, AllRequests
  <2> QED
    BY <1>1, <2>1, AskKeeps
<1>2. ASSUME NEW id \in DOMAIN categories, NEW name \in DOMAIN Slugify \cup {NoRow},
             NEW change \in {"none", "hide", "archive"}, OpenRequest(e, Updating(id, name, change))
      PROVE  TaxonomyInv'
  <2>1. id \in RowIds
    BY RowFacts DEF TaxonomyInv
  <2>2. Updating(id, name, change) \in AllRequests
    BY <2>1 DEF Updating, AllRequests
  <2> QED
    BY <1>2, <2>2, AskKeeps
<1>3. ASSUME NEW id \in DOMAIN categories, OpenRequest(e, Archiving(id)) PROVE TaxonomyInv'
  <2>1. categories[id].name \in DOMAIN Slugify
    BY RowFacts DEF TaxonomyInv, Category
  <2> QED
    BY <1>2, <1>3, <2>1 DEF Archiving
<1>4. Names \subseteq DOMAIN Slugify
  BY TaxonomyAssumption
<1> QED
  BY <1>1, <1>2, <1>3, <1>4, PickSlugKeeps, WriteRowKeeps DEF Request

LEMMA TaxonomyStarts == TaxonomyInit => TaxonomyInv
<1> SUFFICES ASSUME TaxonomyInit PROVE TaxonomyInv
  OBVIOUS
<1>1. Off \in BootPlace /\ Off.pc = "off"
  BY RootFacts DEF Off, BootPlace
<1>2. Rested \in EditPlace /\ Rested.pc = "idle" /\ EditOK(Rested)
  BY DEF Rested, EditPlace, EditOK
<1>3. <<>> \in Seq(Category) /\ Len(<<>>) <= MaxRows
  BY EmptySeq, TaxonomyAssumption
<1>4. 0 \in 0..MaxRequests
  BY TaxonomyAssumption
<1>5. TaxonomyShape /\ EditsOK
  BY <1>1, <1>2, <1>3, <1>4 DEF TaxonomyInit, TaxonomyShape, EditsOK
<1>6. \A b \in Boots : boot[b].pc = "off"
  BY <1>1 DEF TaxonomyInit
<1> QED
  BY <1>5, <1>6 DEF TaxonomyInv, StandInv, Past, FoundInv, Found, ForeignInv, HoldsRow

LEMMA TaxonomySteps == TaxonomyInv /\ [TaxonomyNext]_taxonomyVars => TaxonomyInv'
<1> SUFFICES ASSUME TaxonomyInv, [TaxonomyNext]_taxonomyVars PROVE TaxonomyInv'
  OBVIOUS
<1>1. CASE UNCHANGED taxonomyVars
  <2>1. TaxonomyShape' /\ EditsOK'
    BY <1>1 DEF taxonomyVars, TaxonomyInv, TaxonomyShape, EditsOK
  <2>2. StandInv'
    <3>1. \A i \in DOMAIN Roots : Stands(Roots[i])' <=> Stands(Roots[i])
      BY <1>1 DEF taxonomyVars, Stands, Live
    <3> QED
      BY <1>1, <3>1 DEF taxonomyVars, TaxonomyInv, StandInv, Past
  <2>3. FoundInv' /\ ForeignInv'
    BY <1>1 DEF taxonomyVars, TaxonomyInv, FoundInv, Found, ForeignInv, HoldsRow, Has, Live
  <2> QED
    BY <2>1, <2>2, <2>3 DEF TaxonomyInv
<1> QED
  BY <1>1, StartKeeps, FindKeeps, WriteRootKeeps, RequestKeeps DEF TaxonomyNext

LEMMA TaxonomyInvariant == TaxonomySpec => []TaxonomyInv
  BY TaxonomyStarts, TaxonomySteps, PTL DEF TaxonomySpec

\* The rows of the categories, and what seedings and requests hold of them, keep their types.
THEOREM TaxonomyTypes == TaxonomySpec => []TaxonomyTypeOK
<1>1. TaxonomyInv => TaxonomyTypeOK
  BY DEF TaxonomyInv, TaxonomyShape, TaxonomyTypeOK, BootPlace, EditPlace
<1> QED
  BY <1>1, TaxonomyInvariant, PTL

\* However many processes seed at the same time and administrators edit, a start that went well
\* leaves every root on sale that no request has touched: what a seeding found is still that
\* root's row when it writes, and it writes on no other root's.
THEOREM RootsStand == TaxonomySpec => []SeededRootsStand
<1>1. TaxonomyInv => SeededRootsStand
  BY DEF TaxonomyInv, StandInv, Past, SeededRootsStand
<1> QED
  BY <1>1, TaxonomyInvariant, PTL
-----------------------------------------------------------------------------
(***************************************************************************)
(* A product source.                                                       *)
(***************************************************************************)
RunPCs == {"waiting", "done", "fetch", "item", "product", "create", "offer", "record", "finish"}
OnItemPCs == {"product", "create", "offer", "record"}
RecordRow == [known : BOOLEAN, product : Items \cup {Absent}, offer : Nat, available : BOOLEAN,
              seen : Nat]
RunRow == [pc : RunPCs, started : Nat, fetched : Seq(Items), more : BOOLEAN, at : Nat \ {0},
           prior : RecordRow, stale : BOOLEAN, exposed : BOOLEAN, skipped : BOOLEAN]
SyncShape ==
  /\ feed \in Seq(Items) /\ clock \in Nat /\ settled \in BOOLEAN
  /\ offers \in Seq([product : Items \cup {Absent}, active : BOOLEAN])
  /\ run \in [Runs -> RunRow] /\ records \in [Items -> RecordRow]
  /\ \A i \in Items : records[i].seen <= clock

\* What a run that the source did not change under has read is the head of the list, as far as it
\* reaches; what its item's record will say is so.
Limit == Least(Reach, Len(feed))
InReach(i) == \E k \in 1..Limit : feed[k] = i
HasRead(d) ==
  /\ Len(run[d].fetched) <= Limit
  /\ \A k \in 1..Len(run[d].fetched) : run[d].fetched[k] = feed[k]
  /\ run[d].pc # "fetch" \/ ~run[d].more => Len(run[d].fetched) = Limit
AtOnce(d) ==
  /\ run[d].pc = "fetch" => run[d].at = 1
  /\ run[d].pc \in OnItemPCs =>
       /\ More(d) /\ AtItem(d) \notin Faulty
       /\ run[d].prior.known /\ run[d].prior.seen <= clock
       /\ run[d].prior.available <=> AtItem(d) \notin SoldOut

\* The records: what they say of an item within reach, and of one that is not.
Good(i) == records[i].known /\ (records[i].available <=> i \notin SoldOut)
Recent(d) == \A i \in Items : records[i].seen >= run[d].started => InReach(i)
HasRecorded(d) ==
  \A k \in 1..Len(run[d].fetched) :
    k < run[d].at /\ run[d].fetched[k] \notin Faulty => Good(run[d].fetched[k])
Told == \A i \in Items \ Faulty : IF InReach(i) THEN Good(i) ELSE ~records[i].available

\* A run reads the source as it is while the source stands still, and alone if no other one that is not runs with it.
ReadsNow(d) == Busy(d) /\ ~run[d].stale
Alone(d) == ReadsNow(d) /\ ~run[d].exposed
AllFresh == \A e \in Runs : Busy(e) => ~run[e].stale
RunOK(d) ==
  /\ AtOnce(d)
  /\ ReadsNow(d) => HasRead(d)
  /\ Alone(d) => AllFresh /\ Recent(d)
  /\ Alone(d) /\ ~run[d].skipped =>
       IF run[d].pc = "finish" THEN Told ELSE HasRecorded(d)

SyncInv ==
  /\ SyncShape
  /\ \A d \in Runs : RunOK(d)
  /\ settled => AllFresh /\ Told
-----------------------------------------------------------------------------
LEMMA RunFacts ==
  ASSUME SyncShape, NEW d \in Runs
  PROVE  /\ run[d] \in RunRow /\ Len(run[d].fetched) \in Nat
         /\ run[d].at \in Nat /\ run[d].at > 0
         /\ \A k \in 1..Len(run[d].fetched) : run[d].fetched[k] \in Items
         /\ run[d].pc \in OnItemPCs => Busy(d)
<1>1. run[d] \in RunRow
  BY DEF SyncShape
<1>2. run[d].fetched \in Seq(Items)
  BY <1>1 DEF RunRow
<1>3. Len(run[d].fetched) \in Nat /\ \A k \in 1..Len(run[d].fetched) : run[d].fetched[k] \in Items
  BY <1>2, LenProperties, ElementOfSeq
<1> QED
  BY <1>1, <1>3 DEF RunRow, Busy, OnItemPCs

LEMMA FeedFacts ==
  ASSUME SyncShape
  PROVE  /\ Len(feed) \in Nat /\ Reach \in Nat /\ Limit \in Nat
         /\ Limit <= Len(feed) /\ Limit <= Reach /\ Limit \in {Len(feed), Reach}
         /\ \A k \in 1..Len(feed) : feed[k] \in Items
<1>1. Len(feed) \in Nat /\ \A k \in 1..Len(feed) : feed[k] \in Items
  BY LenProperties, ElementOfSeq DEF SyncShape
<1>2. Reach \in Nat
  BY SyncAssumption DEF Reach
<1> QED
  BY <1>1, <1>2 DEF Limit, Least

\* What a run that reads the source as it is writes of a record: of an item within reach what the
\* source says, of another one that it is not available.
Mild ==
  \A i \in Items :
    \/ records'[i] = records[i]
    \/ InReach(i) /\ Good(i)'
    \/ ~InReach(i) /\ ~records'[i].available /\ records'[i].seen = records[i].seen

\* A step of one run leaves the others what they were.
LEMMA Bystanders ==
  ASSUME SyncInv, SyncShape', NEW d \in Runs, feed' = feed, clock' = clock,
         \A e \in Runs \ {d} : run'[e] = run[e],
         Busy(d), run'[d].pc = "done" \/ run'[d].stale = run[d].stale,
         run[d].stale \/ Mild
  PROVE  /\ \A e \in Runs \ {d} : RunOK(e)'
         /\ AllFresh => AllFresh'
         /\ AllFresh /\ Told => Told'
<1>1. \A i : InReach(i)' = InReach(i)
  BY DEF InReach, Limit
<1>2. AllFresh => AllFresh'
  BY DEF AllFresh, Busy
<1>3. AllFresh => Mild
  BY DEF AllFresh
<1>4. AllFresh /\ Told => Told'
  BY <1>1, <1>3 DEF Told, Mild, Good
<1>5. ASSUME NEW e \in Runs \ {d} PROVE RunOK(e)'
  <2>1. RunOK(e) /\ run'[e] = run[e]
    BY <1>5 DEF SyncInv
  <2>2. AtOnce(e)'
    BY <2>1 DEF RunOK, AtOnce, More, AtItem
  <2>3. ReadsNow(e)' => ReadsNow(e) /\ HasRead(e)'
    BY <2>1 DEF RunOK, ReadsNow, Busy, HasRead, Limit
  <2>4. Alone(e)' => Alone(e) /\ AllFresh /\ Recent(e)
    BY <2>1 DEF RunOK, Alone, ReadsNow, Busy
  <2>5. ASSUME Alone(e)' PROVE Recent(e)'
    <3> SUFFICES ASSUME NEW i \in Items, records'[i].seen >= run[e].started PROVE InReach(i)
      BY <1>1, <2>1 DEF Recent
    <3> QED
      BY <1>3, <2>4, <2>5 DEF Mild, Recent
  <2>6. ASSUME Alone(e)', ~run[e].skipped, run[e].pc # "finish" PROVE HasRecorded(e)'
    <3>1. HasRecorded(e) /\ HasRead(e)
      BY <2>1, <2>4, <2>6 DEF RunOK, Alone
    <3> SUFFICES ASSUME NEW k \in 1..Len(run[e].fetched), k < run[e].at, run[e].fetched[k] \notin Faulty
                 PROVE  Good(run[e].fetched[k])'
      BY <2>1 DEF HasRecorded
    <3>2. Good(run[e].fetched[k])
      BY <3>1 DEF HasRecorded
    <3>3. InReach(run[e].fetched[k]) /\ run[e].fetched[k] \in Items
      <4>1. Len(run[e].fetched) \in Nat /\ Limit \in Nat /\ run[e].fetched[k] \in Items
        BY RunFacts, FeedFacts DEF SyncInv
      <4>2. k \in 1..Limit /\ run[e].fetched[k] = feed[k]
        BY <3>1, <4>1 DEF HasRead
      <4> QED
        BY <4>1, <4>2 DEF InReach
    <3> QED
      BY <1>3, <2>4, <2>6, <3>2, <3>3 DEF Mild, Good
  <2>7. ASSUME Alone(e)', ~run[e].skipped, run[e].pc = "finish" PROVE Told'
    BY <1>4, <2>1, <2>4, <2>7 DEF RunOK
  <2> QED
    BY <1>2, <2>1, <2>2, <2>3, <2>4, <2>5, <2>6, <2>7 DEF RunOK
<1> QED
  BY <1>2, <1>4, <1>5

\* What a run that reads the source as it is has fetched is within reach.
LEMMA FetchedInReach ==
  ASSUME SyncShape, NEW d \in Runs, HasRead(d), NEW k \in 1..Len(run[d].fetched)
  PROVE  InReach(run[d].fetched[k])
<1>1. Len(run[d].fetched) \in Nat /\ Limit \in Nat
  BY RunFacts, FeedFacts
<1>2. k \in 1..Limit /\ run[d].fetched[k] = feed[k]
  BY <1>1 DEF HasRead
<1> QED
  BY <1>2 DEF InReach

LEMMA StepKeeps ==
  ASSUME SyncInv, SyncShape', NEW d \in Runs, feed' = feed, clock' = clock,
         \A e \in Runs \ {d} : run'[e] = run[e],
         Busy(d), run'[d].pc = "done" \/ run'[d].stale = run[d].stale,
         run[d].stale \/ Mild, settled' = settled, RunOK(d)'
  PROVE  SyncInv'
<1>1. /\ \A e \in Runs \ {d} : RunOK(e)'
      /\ AllFresh /\ Told => AllFresh' /\ Told'
  BY Bystanders
<1> QED
  BY <1>1 DEF SyncInv

\* Runs that end.
LEMMA EndKeeps ==
  ASSUME SyncInv, NEW d \in Runs, Busy(d), EndRun(d), UNCHANGED <<feed, clock, records, offers>>,
         settled' \in BOOLEAN, settled' => settled \/ (AllFresh /\ Told)
  PROVE  SyncInv'
<1>1. NoRecord \in RecordRow /\ NotStarted \in RunRow /\ [NotStarted EXCEPT !.pc = "done"] \in RunRow
  <2>1. NoRecord \in RecordRow
    BY DEF NoRecord, RecordRow
  <2>2. <<>> \in Seq(Items)
    BY EmptySeq
  <2>3. NotStarted \in RunRow
    BY <2>1, <2>2 DEF NotStarted, RunRow, RunPCs
  <2>4. "done" \in RunPCs
    BY DEF RunPCs
  <2> QED
    BY <2>1, <2>3, <2>4 DEF RunRow
<1>2. /\ run' \in [Runs -> RunRow] /\ run'[d].pc = "done"
      /\ \A e \in Runs \ {d} : run'[e] = run[e]
  BY <1>1 DEF EndRun, SyncInv, SyncShape, RunRow
<1>3. SyncShape'
  BY <1>2 DEF SyncInv, SyncShape
<1>4. RunOK(d)'
  BY <1>2 DEF RunOK, AtOnce, OnItemPCs, ReadsNow, Alone, Busy
<1>5. /\ \A e \in Runs \ {d} : RunOK(e)'
      /\ AllFresh /\ Told => AllFresh' /\ Told'
  BY <1>2, <1>3, Bystanders DEF Mild
<1> QED
  BY <1>3, <1>4, <1>5 DEF SyncInv

LEMMA FailKeeps == ASSUME SyncInv, NEW d \in Runs, Fail(d) PROVE SyncInv'
BY EndKeeps DEF Fail, Busy, Tables, Others, SyncInv, SyncShape

LEMMA LoseKeeps == ASSUME SyncInv, NEW d \in Runs, LoseRun(d) PROVE SyncInv'
BY EndKeeps DEF LoseRun, SourceRows, Tables, Others, SyncInv, SyncShape

LEMMA FinishKeeps == ASSUME SyncInv, NEW d \in Runs, FinishRun(d) PROVE SyncInv'
<1>1. /\ run[d].pc = "finish" /\ Busy(d) /\ EndRun(d) /\ UNCHANGED <<feed, clock, records, offers>>
      /\ settled' = (settled \/ ~(run[d].stale \/ run[d].exposed \/ run[d].skipped))
  BY DEF FinishRun, InRun, Busy, Tables, Others
<1>2. settled' \in BOOLEAN
  BY <1>1 DEF SyncInv, SyncShape
<1>3. Alone(d) /\ ~run[d].skipped => AllFresh /\ Told
  BY <1>1 DEF SyncInv, RunOK
<1>4. settled' => settled \/ (AllFresh /\ Told)
  BY <1>1, <1>3 DEF Alone, ReadsNow, SyncInv, SyncShape
<1> QED
  BY <1>1, <1>2, <1>4, EndKeeps

\* A page, whatever the list was when the earlier ones were read.
LEMMA NextPage ==
  ASSUME NEW s \in Seq(Items), NEW f \in Seq(Items), NEW last \in Nat, last <= Len(s), NEW g,
         g = f \o SubSeq(s, Len(f) + 1, last)
  PROVE  /\ g \in Seq(Items)
         /\ Len(f) <= last /\ (\A k \in 1..Len(f) : f[k] = s[k]) =>
              Len(g) = last /\ \A k \in 1..last : g[k] = s[k]
<1>1. Len(s) \in Nat /\ Len(f) \in Nat /\ \A k \in 1..Len(s) : s[k] \in Items
  BY LenProperties, ElementOfSeq
<1> DEFINE h == SubSeq(s, Len(f) + 1, last)
<1>2. \A i \in (Len(f) + 1)..last : s[i] \in Items
  BY <1>1
<1>3. Len(f) + 1 \in Int /\ last \in Int
  BY <1>1
<1>4. /\ h \in Seq(Items)
      /\ Len(h) = IF Len(f) + 1 <= last THEN last - (Len(f) + 1) + 1 ELSE 0
      /\ \A i \in 1..(last - (Len(f) + 1) + 1) : h[i] = s[Len(f) + 1 + i - 1]
  BY <1>2, <1>3, SubSeqProperties
<1> HIDE DEF h
<1>5. g = f \o h
  BY DEF h
<1>6. /\ g \in Seq(Items) /\ Len(g) = Len(f) + Len(h)
      /\ \A k \in 1..(Len(f) + Len(h)) : g[k] = IF k <= Len(f) THEN f[k] ELSE h[k - Len(f)]
  BY <1>4, <1>5, ConcatProperties
<1>7. ASSUME Len(f) <= last, \A k \in 1..Len(f) : f[k] = s[k]
      PROVE  Len(g) = last /\ \A k \in 1..last : g[k] = s[k]
  <2>1. Len(h) = last - Len(f) /\ Len(g) = last
    BY <1>1, <1>4, <1>6, <1>7
  <2> SUFFICES ASSUME NEW k \in 1..last PROVE g[k] = s[k]
    BY <2>1
  <2>2. CASE k <= Len(f)
    BY <1>1, <1>6, <1>7, <2>1, <2>2
  <2>3. CASE k > Len(f)
    <3>1. k - Len(f) \in 1..(last - (Len(f) + 1) + 1) /\ Len(f) + 1 + (k - Len(f)) - 1 = k
      BY <1>1, <2>3
    <3>2. g[k] = h[k - Len(f)]
      BY <1>1, <1>6, <2>1, <2>3
    <3>3. h[k - Len(f)] = s[Len(f) + 1 + (k - Len(f)) - 1]
      BY <1>4, <3>1
    <3> QED
      BY <3>1, <3>2, <3>3
  <2> QED
    BY <1>1, <2>2, <2>3
<1> QED
  BY <1>6, <1>7

LEMMA FetchKeeps == ASSUME SyncInv, NEW d \in Runs, FetchPage(d) PROVE SyncInv'
<1>1. /\ run[d].pc = "fetch" /\ run[d].at = 1 /\ Busy(d) /\ SyncShape /\ RunOK(d)
      /\ UNCHANGED <<feed, clock, records, offers, settled>>
  BY DEF FetchPage, InRun, Busy, SourceRows, Tables, Others, SyncInv, RunOK, AtOnce
<1>2. /\ run[d] \in RunRow /\ Len(run[d].fetched) \in Nat /\ run[d].fetched \in Seq(Items)
      /\ Len(feed) \in Nat /\ Reach \in Nat /\ Limit \in Nat /\ PageSize \in Nat \ {0}
  BY <1>1, RunFacts, FeedFacts, SyncAssumption DEF RunRow
<1>3. Mild
  BY <1>1 DEF Mild
<1>4. CASE ~run[d].more
  <2>1. run' = [run EXCEPT ![d].pc = "item"]
    BY <1>4 DEF FetchPage, GoOn
  <2>2. run' \in [Runs -> RunRow]
    BY <1>1, <1>2, <2>1 DEF SyncShape, RunRow, RunPCs
  <2>3. /\ \A e \in Runs \ {d} : run'[e] = run[e]
        /\ run'[d] = [run[d] EXCEPT !.pc = "item"]
    BY <1>1, <2>1 DEF SyncShape
  <2>4. /\ run'[d].pc = "item" /\ run'[d].fetched = run[d].fetched /\ run'[d].stale = run[d].stale
        /\ run'[d].exposed = run[d].exposed /\ run'[d].at = 1 /\ run'[d].started = run[d].started
    BY <1>1, <1>2, <2>3 DEF RunRow
  <2>5. SyncShape'
    BY <1>1, <2>2 DEF SyncShape
  <2>6. ReadsNow(d)' => HasRead(d)'
    BY <1>1, <1>4, <2>4 DEF ReadsNow, Busy, RunOK, HasRead, Limit
  <2>7. Alone(d)' => AllFresh' /\ Recent(d)'
    <3>1. Alone(d)' => AllFresh /\ Recent(d)
      BY <1>1, <2>4 DEF Alone, ReadsNow, Busy, RunOK
    <3> QED
      BY <1>1, <2>3, <2>4, <3>1 DEF AllFresh, Busy, Recent, InReach, Limit
  <2>8. HasRecorded(d)'
    BY <2>4 DEF HasRecorded
  <2>9. RunOK(d)'
    BY <2>4, <2>6, <2>7, <2>8 DEF RunOK, AtOnce, OnItemPCs
  <2> QED
    BY <1>1, <1>3, <2>3, <2>4, <2>5, <2>9, StepKeeps
<1>5. CASE run[d].more
  <2> DEFINE last == Least(Least(Len(run[d].fetched) + PageSize, Reach), Len(feed))
             g == run[d].fetched \o SubSeq(feed, Len(run[d].fetched) + 1, last)
             more == last < Len(feed) /\ last < Reach
  <2>1. run' = [run EXCEPT ![d].fetched = g, ![d].more = more]
    BY <1>5 DEF FetchPage
  <2>2. /\ last \in Nat /\ last <= Len(feed) /\ last <= Limit
        /\ Len(run[d].fetched) <= Limit => Len(run[d].fetched) <= last
        /\ ~more => last = Limit
    BY <1>2 DEF Least, Limit
  <2>3. /\ g \in Seq(Items)
        /\ Len(run[d].fetched) <= last
           /\ (\A k \in 1..Len(run[d].fetched) : run[d].fetched[k] = feed[k])
           => Len(g) = last /\ \A k \in 1..last : g[k] = feed[k]
    <3>1. PICK s, f, m : s = feed /\ f = run[d].fetched /\ m = last
      OBVIOUS
    <3>2. s \in Seq(Items) /\ f \in Seq(Items) /\ m \in Nat /\ m <= Len(s)
      BY <1>1, <1>2, <2>2, <3>1 DEF SyncShape
    <3>3. g = f \o SubSeq(s, Len(f) + 1, m)
      BY <3>1
    <3> HIDE DEF g, last
    <3>4. /\ g \in Seq(Items)
          /\ Len(f) <= m /\ (\A k \in 1..Len(f) : f[k] = s[k]) =>
               Len(g) = m /\ \A k \in 1..m : g[k] = s[k]
      BY <3>2, <3>3, NextPage
    <3> QED
      BY <3>1, <3>4
  <2>4. more \in BOOLEAN
    OBVIOUS
  <2> HIDE DEF last, g, more
  <2>5. /\ \A e \in Runs \ {d} : run'[e] = run[e]
        /\ run'[d] = [run[d] EXCEPT !.fetched = g, !.more = more]
    BY <1>1, <2>1 DEF SyncShape
  <2>6. /\ run'[d] \in RunRow
        /\ run'[d].pc = "fetch" /\ run'[d].fetched = g /\ run'[d].stale = run[d].stale
        /\ run'[d].exposed = run[d].exposed /\ run'[d].at = 1 /\ run'[d].started = run[d].started
        /\ run'[d].more = more
    BY <1>1, <1>2, <2>3, <2>4, <2>5 DEF RunRow
  <2>7. run' \in [Runs -> RunRow]
    BY <1>1, <2>1, <2>6 DEF SyncShape
  <2>8. SyncShape'
    BY <1>1, <2>7 DEF SyncShape
  <2>9. ReadsNow(d)' => HasRead(d)'
    BY <1>1, <1>2, <2>2, <2>3, <2>6 DEF ReadsNow, Busy, RunOK, HasRead, Limit
  <2>10. Alone(d)' => AllFresh' /\ Recent(d)'
    <3>1. Alone(d)' => AllFresh /\ Recent(d)
      BY <1>1, <2>6 DEF Alone, ReadsNow, Busy, RunOK
    <3> QED
      BY <1>1, <2>5, <2>6, <3>1 DEF AllFresh, Busy, Recent, InReach, Limit
  <2>11. HasRecorded(d)'
    BY <2>6 DEF HasRecorded
  <2>12. RunOK(d)'
    BY <2>6, <2>9, <2>10, <2>11 DEF RunOK, AtOnce, OnItemPCs
  <2> QED
    BY <1>1, <1>3, <2>5, <2>6, <2>8, <2>12, StepKeeps
<1> QED
  BY <1>4, <1>5

\* A step of a run at an item: the row it is left with.
LEMMA AtItemFacts ==
  ASSUME SyncInv, NEW d \in Runs, More(d)
  PROVE  /\ AtItem(d) \in Items /\ run[d].at \in 1..Len(run[d].fetched)
         /\ ReadsNow(d) /\ run[d].pc # "fetch" => InReach(AtItem(d))
<1>1. run[d].at \in 1..Len(run[d].fetched)
  BY RunFacts DEF SyncInv, More
<1>2. ReadsNow(d) => HasRead(d)
  BY DEF SyncInv, RunOK
<1> QED
  BY <1>1, <1>2, RunFacts, FetchedInReach DEF AtItem, SyncInv

\* A step that leaves the records alone and the run at its place.
LEMMA SamePlace ==
  ASSUME SyncInv, SyncShape', NEW d \in Runs, UNCHANGED <<feed, clock, records, settled>>,
         \A e \in Runs \ {d} : run'[e] = run[e],
         run[d].pc \in {"item"} \cup OnItemPCs, run'[d].pc \in OnItemPCs,
         run'[d].fetched = run[d].fetched, run'[d].at = run[d].at,
         run'[d].started = run[d].started, run'[d].stale = run[d].stale,
         run'[d].exposed = run[d].exposed, run'[d].skipped = run[d].skipped,
         AtOnce(d)'
  PROVE  SyncInv'
<1>1. Busy(d) /\ Mild /\ RunOK(d)
  BY DEF Busy, Mild, SyncInv, OnItemPCs
<1>2. ReadsNow(d)' => HasRead(d)'
  BY <1>1 DEF RunOK, ReadsNow, HasRead, Limit, OnItemPCs
<1>3. Alone(d)' => Alone(d)
  BY <1>1 DEF Alone, ReadsNow
<1>4. Alone(d)' => AllFresh' /\ Recent(d)'
  <2>1. Alone(d)' => AllFresh /\ Recent(d)
    BY <1>1, <1>3 DEF RunOK
  <2>2. AllFresh => AllFresh'
    BY <1>1, Bystanders
  <2> QED
    BY <2>1, <2>2 DEF Recent, InReach, Limit
<1>5. Alone(d)' /\ ~run'[d].skipped => HasRecorded(d)'
  BY <1>1, <1>3 DEF RunOK, HasRecorded, Good, OnItemPCs
<1>6. RunOK(d)'
  BY <1>2, <1>4, <1>5 DEF RunOK, OnItemPCs
<1> QED
  BY <1>1, <1>6, StepKeeps

\* A run goes on to its next item: the one it leaves is faulty, or skipped, or recorded as it should.
LEMMA NextItemKeeps ==
  ASSUME SyncInv, SyncShape', NEW d \in Runs, NEW i, i = AtItem(d),
         UNCHANGED <<feed, clock, settled>>,
         \A e \in Runs \ {d} : run'[e] = run[e],
         run[d].pc \in {"item"} \cup OnItemPCs, More(d), run'[d].pc = "item",
         run'[d].fetched = run[d].fetched, run'[d].at = run[d].at + 1,
         run'[d].started = run[d].started, run'[d].stale = run[d].stale,
         run'[d].exposed = run[d].exposed, run'[d].skipped \in {TRUE, run[d].skipped},
         run[d].stale \/ Mild,
         i \in Faulty \/ run'[d].skipped \/ Good(i)'
  PROVE  SyncInv'
<1>1. Busy(d) /\ RunOK(d) /\ SyncShape
  BY DEF Busy, SyncInv, OnItemPCs
<1>2. ReadsNow(d)' => HasRead(d)'
  BY <1>1 DEF RunOK, ReadsNow, HasRead, Limit, OnItemPCs
<1>3. Alone(d)' => Alone(d) /\ Mild
  BY <1>1 DEF Alone, ReadsNow
<1>4. Alone(d)' => AllFresh' /\ Recent(d)'
  <2>1. Alone(d)' => AllFresh /\ Recent(d)
    BY <1>1, <1>3 DEF RunOK
  <2>2. AllFresh => AllFresh'
    BY <1>1, Bystanders
  <2>3. ASSUME Recent(d), Mild PROVE Recent(d)'
    BY <2>3 DEF Recent, Mild, InReach, Limit
  <2> QED
    BY <1>3, <2>1, <2>2, <2>3
<1>5. ASSUME Alone(d)', ~run'[d].skipped PROVE HasRecorded(d)'
  <2>1. HasRecorded(d) /\ HasRead(d) /\ Mild /\ ~run[d].skipped
    <3>1. run'[d].skipped \in BOOLEAN /\ run'[d].skipped # TRUE
      BY <1>5 DEF SyncShape, RunRow
    <3>2. ~run[d].skipped
      BY <1>5, <3>1
    <3> QED
      BY <1>1, <1>3, <1>5, <3>2 DEF RunOK, Alone, OnItemPCs
  <2> SUFFICES ASSUME NEW k \in 1..Len(run[d].fetched), k < run[d].at + 1,
                      run[d].fetched[k] \notin Faulty
               PROVE  Good(run[d].fetched[k])'
    BY DEF HasRecorded
  <2>2. CASE k = run[d].at
    BY <1>5, <2>2 DEF AtItem, Good
  <2>3. CASE k < run[d].at
    <3>1. Good(run[d].fetched[k])
      BY <2>1, <2>3 DEF HasRecorded
    <3>2. InReach(run[d].fetched[k]) /\ run[d].fetched[k] \in Items
      BY <1>1, <2>1, FetchedInReach, RunFacts
    <3> QED
      BY <2>1, <3>1, <3>2 DEF Mild, Good
  <2>4. k \in Nat /\ run[d].at \in Nat
    BY <1>1, RunFacts
  <2> QED
    BY <2>2, <2>3, <2>4
<1>6. RunOK(d)'
  BY <1>2, <1>4, <1>5 DEF RunOK, AtOnce, OnItemPCs
<1> QED
  BY <1>1, <1>6, StepKeeps

\* The rows that the steps of a run leave.
LEMMA ItemRow ==
  ASSUME SyncInv, NEW d \in Runs, NEW prior \in RecordRow, NEW pc \in RunPCs,
         run' = [run EXCEPT ![d] = [run[d] EXCEPT !.pc = pc, !.prior = prior]]
  PROVE  /\ run' \in [Runs -> RunRow] /\ \A e \in Runs \ {d} : run'[e] = run[e]
         /\ run'[d].pc = pc /\ run'[d].prior = prior
         /\ run'[d].fetched = run[d].fetched /\ run'[d].at = run[d].at
         /\ run'[d].started = run[d].started /\ run'[d].stale = run[d].stale
         /\ run'[d].exposed = run[d].exposed /\ run'[d].skipped = run[d].skipped
<1>1. run[d] \in RunRow /\ run \in [Runs -> RunRow]
  BY DEF SyncInv, SyncShape
<1>2. run'[d] = [run[d] EXCEPT !.pc = pc, !.prior = prior] /\ \A e \in Runs \ {d} : run'[e] = run[e]
  BY <1>1
<1>3. run'[d] \in RunRow
  BY <1>1, <1>2 DEF RunRow
<1>4. run' \in [Runs -> RunRow]
  BY <1>1, <1>3
<1> QED
  BY <1>1, <1>2, <1>4 DEF RunRow

LEMMA NextItemRow ==
  ASSUME SyncInv, NEW d \in Runs, NEW skipped \in {TRUE, run[d].skipped},
         run' = [run EXCEPT ![d] = [run[d] EXCEPT !.pc = "item", !.at = @ + 1, !.prior = NoRecord,
                                                  !.skipped = skipped]]
  PROVE  /\ run' \in [Runs -> RunRow] /\ \A e \in Runs \ {d} : run'[e] = run[e]
         /\ run'[d].pc = "item"
         /\ run'[d].fetched = run[d].fetched /\ run'[d].at = run[d].at + 1
         /\ run'[d].started = run[d].started /\ run'[d].stale = run[d].stale
         /\ run'[d].exposed = run[d].exposed /\ run'[d].skipped = skipped
<1>1. run[d] \in RunRow /\ run \in [Runs -> RunRow] /\ skipped \in BOOLEAN
  BY DEF SyncInv, SyncShape, RunRow
<1>2. /\ run'[d] = [run[d] EXCEPT !.pc = "item", !.at = @ + 1, !.prior = NoRecord,
                                  !.skipped = skipped]
      /\ \A e \in Runs \ {d} : run'[e] = run[e]
  BY <1>1
<1>3. run[d].at + 1 \in Nat \ {0} /\ "item" \in RunPCs /\ NoRecord \in RecordRow
  BY <1>1 DEF RunRow, RunPCs, NoRecord, RecordRow
<1>4. run'[d] \in RunRow
  BY <1>1, <1>2, <1>3 DEF RunRow
<1>5. run' \in [Runs -> RunRow]
  BY <1>1, <1>4
<1> QED
  BY <1>1, <1>2, <1>5 DEF RunRow

LEMMA ResolveKeeps == ASSUME SyncInv, NEW d \in Runs, Resolve(d) PROVE SyncInv'
<1>1. /\ run[d].pc = "item" /\ More(d) /\ SyncShape /\ RunOK(d)
      /\ UNCHANGED <<feed, clock, records, offers, settled>>
  BY DEF Resolve, InRun, SourceRows, Tables, Others, SyncInv
<1>2. AtItem(d) \in Items /\ Mild
  BY <1>1, AtItemFacts DEF Mild
<1>3. CASE AtItem(d) \in Faulty
  <2>1. PICK skipped \in {TRUE, run[d].skipped} : skipped = run[d].skipped
    OBVIOUS
  <2>2. run' = [run EXCEPT ![d] = [run[d] EXCEPT !.pc = "item", !.at = @ + 1, !.prior = NoRecord,
                                                 !.skipped = skipped]]
    <3>1. run' = [run EXCEPT ![d] = [run[d] EXCEPT !.pc = "item", !.at = @ + 1, !.prior = NoRecord]]
      BY <1>3 DEF Resolve, NextItem
    <3>2. [run[d] EXCEPT !.pc = "item", !.at = @ + 1, !.prior = NoRecord]
            = [run[d] EXCEPT !.pc = "item", !.at = @ + 1, !.prior = NoRecord, !.skipped = skipped]
      BY <1>1, <2>1 DEF SyncShape, RunRow
    <3> QED
      BY <3>1, <3>2
  <2>3. /\ run' \in [Runs -> RunRow] /\ \A e \in Runs \ {d} : run'[e] = run[e]
        /\ run'[d].pc = "item"
        /\ run'[d].fetched = run[d].fetched /\ run'[d].at = run[d].at + 1
        /\ run'[d].started = run[d].started /\ run'[d].stale = run[d].stale
        /\ run'[d].exposed = run[d].exposed /\ run'[d].skipped = skipped
    BY <2>2, NextItemRow
  <2>4. SyncShape'
    BY <1>1, <2>3 DEF SyncShape
  <2> QED
    BY <1>1, <1>2, <1>3, <2>3, <2>4, NextItemKeeps
<1>4. CASE AtItem(d) \notin Faulty
  <2>1. PICK product \in Items \cup {Absent} :
          run' = [run EXCEPT ![d].pc = "product",
                    ![d].prior = Recorded(product, records[AtItem(d)].offer, AtItem(d) \notin SoldOut,
                                          clock)]
    <3>1. \A j \in Items : records[j].product \in Items \cup {Absent}
      BY <1>1 DEF SyncShape, RecordRow
    <3> QED
      BY <1>2, <1>4, <3>1 DEF Resolve
  <2>2. PICK prior : prior = Recorded(product, records[AtItem(d)].offer, AtItem(d) \notin SoldOut, clock)
    OBVIOUS
  <2>3. /\ prior \in RecordRow /\ prior.known /\ (prior.available <=> AtItem(d) \notin SoldOut)
        /\ prior.seen = clock
    <3>1. records[AtItem(d)] \in RecordRow /\ clock \in Nat
      BY <1>1, <1>2 DEF SyncShape
    <3> QED
      BY <2>2, <3>1 DEF Recorded, RecordRow
  <2>4. run' = [run EXCEPT ![d] = [run[d] EXCEPT !.pc = "product", !.prior = prior]]
    BY <1>1, <2>1, <2>2 DEF SyncShape
  <2>5. /\ run' \in [Runs -> RunRow] /\ \A e \in Runs \ {d} : run'[e] = run[e]
        /\ run'[d].pc = "product" /\ run'[d].prior = prior
        /\ run'[d].fetched = run[d].fetched /\ run'[d].at = run[d].at
        /\ run'[d].started = run[d].started /\ run'[d].stale = run[d].stale
        /\ run'[d].exposed = run[d].exposed /\ run'[d].skipped = run[d].skipped
    BY <2>3, <2>4, ItemRow DEF RunPCs
  <2>6. SyncShape'
    BY <1>1, <2>5 DEF SyncShape
  <2>7. AtOnce(d)'
    BY <1>1, <1>4, <2>3, <2>5 DEF AtOnce, More, AtItem, OnItemPCs, SyncShape
  <2> QED
    BY <1>1, <2>5, <2>6, <2>7, SamePlace DEF OnItemPCs
<1> QED
  BY <1>3, <1>4

LEMMA ProductKeeps == ASSUME SyncInv, NEW d \in Runs, WriteProduct(d) PROVE SyncInv'
<1>1. /\ run[d].pc = "product" /\ More(d) /\ SyncShape /\ RunOK(d) /\ AtOnce(d)
      /\ UNCHANGED <<feed, clock, records, offers, settled>>
  BY DEF WriteProduct, InRun, Others, SyncInv, RunOK, AtOnce, OnItemPCs
<1>2. AtItem(d) \in Items /\ run[d] \in RunRow
  BY <1>1, AtItemFacts DEF SyncShape
<1>3. PICK pc \in {"create", "offer"}, product \in Items \cup {Absent} :
        run' = [run EXCEPT ![d].pc = pc, ![d].prior.product = product]
  <2>1. run[d].prior.product \in Items \cup {Absent}
    BY <1>2 DEF RunRow, RecordRow
  <2> QED
    BY <1>2, <2>1 DEF WriteProduct
<1>4. PICK prior : prior = [run[d].prior EXCEPT !.product = product]
  OBVIOUS
<1>5. /\ prior \in RecordRow /\ prior.known = run[d].prior.known /\ prior.seen = run[d].prior.seen
      /\ prior.available = run[d].prior.available
  <2>1. run[d].prior \in RecordRow
    BY <1>2 DEF RunRow
  <2> QED
    BY <1>4, <2>1 DEF RecordRow
<1>6. run' = [run EXCEPT ![d] = [run[d] EXCEPT !.pc = pc, !.prior = prior]]
  BY <1>1, <1>3, <1>4 DEF SyncShape
<1>7. /\ run' \in [Runs -> RunRow] /\ \A e \in Runs \ {d} : run'[e] = run[e]
      /\ run'[d].pc = pc /\ run'[d].prior = prior
      /\ run'[d].fetched = run[d].fetched /\ run'[d].at = run[d].at
      /\ run'[d].started = run[d].started /\ run'[d].stale = run[d].stale
      /\ run'[d].exposed = run[d].exposed /\ run'[d].skipped = run[d].skipped
  BY <1>5, <1>6, ItemRow DEF RunPCs
<1>8. SyncShape'
  BY <1>1, <1>7 DEF SyncShape
<1>9. AtOnce(d)'
  BY <1>1, <1>5, <1>7 DEF AtOnce, More, AtItem, OnItemPCs
<1> QED
  BY <1>1, <1>7, <1>8, <1>9, SamePlace DEF OnItemPCs

LEMMA OfferKeeps == ASSUME SyncInv, NEW d \in Runs, UpsertOffer(d) PROVE SyncInv'
<1>1. /\ run[d].pc \in {"create", "offer"} /\ More(d) /\ SyncShape /\ RunOK(d) /\ AtOnce(d)
      /\ UNCHANGED <<feed, clock, records, settled>>
  BY DEF UpsertOffer, Others, SyncInv, RunOK, AtOnce, OnItemPCs
<1>2. run[d] \in RunRow /\ run[d].prior \in RecordRow
  BY <1>1 DEF SyncShape, RunRow
<1> DEFINE OfferRow == [product : Items \cup {Absent}, active : BOOLEAN]
           active == InRun(d, "create") \/ run[d].prior.available
<1>3. active \in BOOLEAN
  OBVIOUS
<1>4. PICK offer \in Nat :
        /\ offers' \in Seq(OfferRow)
        /\ run' = [run EXCEPT ![d].pc = "record", ![d].prior.offer = offer]
  <2>1. CASE run[d].prior.offer # 0
    <3>1. /\ offers' = [offers EXCEPT ![run[d].prior.offer].active = active]
          /\ run' = [run EXCEPT ![d].pc = "record"]
      BY <2>1 DEF UpsertOffer, GoOn
    <3>2. Len(offers) \in Nat /\ offers \in [1..Len(offers) -> OfferRow]
      BY <1>1, LenProperties, ElementOfSeq DEF SyncShape
    <3> HIDE DEF active
    <3>3. offers' \in [1..Len(offers) -> OfferRow]
      BY <1>3, <3>1, <3>2
    <3>4. offers' \in Seq(OfferRow)
      BY <3>2, <3>3, SeqDef
    <3>5. run' = [run EXCEPT ![d].pc = "record", ![d].prior.offer = run[d].prior.offer]
      <4>1. [run[d].prior EXCEPT !.offer = run[d].prior.offer] = run[d].prior
        BY <1>2 DEF RecordRow
      <4>2. [run[d] EXCEPT !.pc = "record"]
              = [run[d] EXCEPT !.pc = "record", !.prior = [run[d].prior EXCEPT !.offer = run[d].prior.offer]]
        BY <1>2, <4>1 DEF RunRow
      <4> QED
        BY <1>1, <3>1, <4>2 DEF SyncShape
    <3> QED
      BY <1>2, <3>4, <3>5 DEF RecordRow
  <2>2. CASE run[d].prior.offer = 0
    <3>1. /\ offers' = Append(offers, [product |-> run[d].prior.product, active |-> active])
          /\ run' = [run EXCEPT ![d].pc = "record", ![d].prior.offer = Len(offers) + 1]
      BY <2>2 DEF UpsertOffer
    <3>2. Len(offers) \in Nat /\ offers \in Seq(OfferRow)
      BY <1>1, LenProperties DEF SyncShape
    <3> HIDE DEF active
    <3>3. [product |-> run[d].prior.product, active |-> active] \in OfferRow
      BY <1>2, <1>3 DEF RecordRow
    <3>4. offers' \in Seq(OfferRow)
      BY <3>1, <3>2, <3>3, AppendProperties
    <3>5. PICK offer \in Nat : offer = Len(offers) + 1
      BY <3>2
    <3>6. run' = [run EXCEPT ![d].pc = "record", ![d].prior.offer = offer]
      BY <3>1, <3>5
    <3> QED
      BY <3>4, <3>6
  <2> QED
    BY <2>1, <2>2
<1>5. PICK prior : prior = [run[d].prior EXCEPT !.offer = offer]
  OBVIOUS
<1>6. /\ prior \in RecordRow /\ prior.known = run[d].prior.known /\ prior.seen = run[d].prior.seen
      /\ prior.available = run[d].prior.available
  BY <1>2, <1>5 DEF RecordRow
<1>7. run' = [run EXCEPT ![d] = [run[d] EXCEPT !.pc = "record", !.prior = prior]]
  BY <1>1, <1>4, <1>5 DEF SyncShape
<1>8. /\ run' \in [Runs -> RunRow] /\ \A e \in Runs \ {d} : run'[e] = run[e]
      /\ run'[d].pc = "record" /\ run'[d].prior = prior
      /\ run'[d].fetched = run[d].fetched /\ run'[d].at = run[d].at
      /\ run'[d].started = run[d].started /\ run'[d].stale = run[d].stale
      /\ run'[d].exposed = run[d].exposed /\ run'[d].skipped = run[d].skipped
  BY <1>6, <1>7, ItemRow DEF RunPCs
<1>9. SyncShape'
  BY <1>1, <1>4, <1>8 DEF SyncShape
<1>10. AtOnce(d)'
  BY <1>1, <1>6, <1>8 DEF AtOnce, More, AtItem, OnItemPCs
<1> QED
  BY <1>1, <1>8, <1>9, <1>10, SamePlace DEF OnItemPCs

LEMMA SkipKeeps == ASSUME SyncInv, NEW d \in Runs, SkipItem(d) PROVE SyncInv'
<1>1. /\ run[d].pc \in OnItemPCs /\ More(d) /\ SyncShape
      /\ UNCHANGED <<feed, clock, records, offers, settled>>
  BY DEF SkipItem, SourceRows, Tables, Others, SyncInv, RunOK, AtOnce, OnItemPCs
<1>2. PICK yes \in {TRUE, run[d].skipped} : yes = TRUE
  OBVIOUS
<1>3. run' = [run EXCEPT ![d] = [run[d] EXCEPT !.pc = "item", !.at = @ + 1, !.prior = NoRecord,
                                               !.skipped = yes]]
  BY <1>1, <1>2 DEF SkipItem, NextItem, SyncShape, RunRow
<1>4. /\ run' \in [Runs -> RunRow] /\ \A e \in Runs \ {d} : run'[e] = run[e]
      /\ run'[d].pc = "item"
      /\ run'[d].fetched = run[d].fetched /\ run'[d].at = run[d].at + 1
      /\ run'[d].started = run[d].started /\ run'[d].stale = run[d].stale
      /\ run'[d].exposed = run[d].exposed /\ run'[d].skipped = yes
  BY <1>3, NextItemRow
<1>5. SyncShape' /\ Mild
  BY <1>1, <1>4 DEF SyncShape, Mild
<1> QED
  BY <1>1, <1>2, <1>4, <1>5, NextItemKeeps

LEMMA RecordKeeps == ASSUME SyncInv, NEW d \in Runs, WriteRecord(d) PROVE SyncInv'
<1>1. /\ run[d].pc = "record" /\ More(d) /\ SyncShape /\ RunOK(d) /\ AtOnce(d)
      /\ UNCHANGED <<feed, clock, offers, settled>>
  BY DEF WriteRecord, InRun, Others, SyncInv, RunOK, AtOnce, OnItemPCs
<1>2. /\ AtItem(d) \in Items /\ run[d] \in RunRow /\ run[d].prior \in RecordRow
      /\ ReadsNow(d) => InReach(AtItem(d))
  BY <1>1, AtItemFacts DEF SyncShape, RunRow
<1>3. /\ records' = [records EXCEPT ![AtItem(d)] = run[d].prior]
      /\ run' = [run EXCEPT ![d] = NextItem(d)]
  BY DEF WriteRecord
<1>4. /\ records' \in [Items -> RecordRow] /\ records'[AtItem(d)] = run[d].prior
      /\ \A i \in Items \ {AtItem(d)} : records'[i] = records[i]
  BY <1>1, <1>2, <1>3 DEF SyncShape
<1>5. PICK item \in Items : item = AtItem(d)
  BY <1>2
<1>6. Good(item)' /\ records'[item].seen <= clock
  BY <1>1, <1>4, <1>5 DEF AtOnce, OnItemPCs, Good
<1>7. ReadsNow(d) => Mild
  BY <1>2, <1>4, <1>5, <1>6 DEF Mild
<1>8. PICK skipped \in {TRUE, run[d].skipped} : skipped = run[d].skipped
  OBVIOUS
<1>9. run' = [run EXCEPT ![d] = [run[d] EXCEPT !.pc = "item", !.at = @ + 1, !.prior = NoRecord,
                                               !.skipped = skipped]]
  BY <1>2, <1>3, <1>8 DEF NextItem, RunRow
<1>10. /\ run' \in [Runs -> RunRow] /\ \A e \in Runs \ {d} : run'[e] = run[e]
       /\ run'[d].pc = "item"
       /\ run'[d].fetched = run[d].fetched /\ run'[d].at = run[d].at + 1
       /\ run'[d].started = run[d].started /\ run'[d].stale = run[d].stale
       /\ run'[d].exposed = run[d].exposed /\ run'[d].skipped = skipped
  BY <1>9, NextItemRow
<1>11. SyncShape'
  <2>1. \A i \in Items : records'[i].seen <= clock
    BY <1>1, <1>4, <1>5, <1>6 DEF SyncShape
  <2> QED
    BY <1>1, <1>4, <1>10, <2>1 DEF SyncShape
<1>12. run[d].stale \/ Mild
  BY <1>1, <1>7 DEF ReadsNow, Busy
<1> QED
  BY <1>1, <1>5, <1>6, <1>8, <1>10, <1>11, <1>12, NextItemKeeps DEF OnItemPCs

LEMMA MarkKeeps == ASSUME SyncInv, NEW d \in Runs, MarkUnseen(d) PROVE SyncInv'
<1>1. /\ run[d].pc = "item" /\ ~More(d) /\ Busy(d) /\ SyncShape /\ RunOK(d)
      /\ UNCHANGED <<feed, clock, offers, settled>>
      /\ records' = [i \in Items |-> IF i \in Unseen(d) THEN [records[i] EXCEPT !.available = FALSE]
                                     ELSE records[i]]
      /\ run' = [run EXCEPT ![d].pc = "finish"]
  BY DEF MarkUnseen, InRun, GoOn, Busy, Others, SyncInv
<1>2. /\ run[d] \in RunRow /\ Len(run[d].fetched) \in Nat /\ run[d].at \in Nat
      /\ Limit \in Nat /\ DOMAIN run[d].fetched = 1..Len(run[d].fetched)
  <2>1. run[d] \in RunRow /\ Len(run[d].fetched) \in Nat /\ run[d].at \in Nat
    BY <1>1, RunFacts
  <2>2. run[d].fetched \in Seq(Items)
    BY <2>1 DEF RunRow
  <2> QED
    BY <1>1, <2>1, <2>2, LenProperties, FeedFacts
<1>3. /\ run' \in [Runs -> RunRow] /\ \A e \in Runs \ {d} : run'[e] = run[e]
      /\ run'[d].pc = "finish"
      /\ run'[d].fetched = run[d].fetched
      /\ run'[d].started = run[d].started /\ run'[d].stale = run[d].stale
      /\ run'[d].exposed = run[d].exposed /\ run'[d].skipped = run[d].skipped
  <2>1. "finish" \in RunPCs
    BY DEF RunPCs
  <2>2. run'[d] = [run[d] EXCEPT !.pc = "finish"] /\ \A e \in Runs \ {d} : run'[e] = run[e]
    BY <1>1 DEF SyncShape
  <2>3. [run[d] EXCEPT !.pc = "finish"] \in RunRow
    BY <1>2, <2>1 DEF RunRow
  <2> QED
    BY <1>1, <1>2, <2>2, <2>3 DEF SyncShape, RunRow
<1>4. /\ records' \in [Items -> RecordRow]
      /\ \A i \in Items : records'[i].seen = records[i].seen /\ records'[i].known = records[i].known
      /\ \A i \in Items : i \in Unseen(d) => ~records'[i].available
      /\ \A i \in Items : i \notin Unseen(d) => records'[i] = records[i]
  <2>1. \A i \in Items : records[i] \in RecordRow
    BY <1>1 DEF SyncShape
  <2>2. \A i \in Items : [records[i] EXCEPT !.available = FALSE] \in RecordRow
    BY <2>1 DEF RecordRow
  <2> QED
    BY <1>1, <2>1, <2>2 DEF RecordRow
<1>5. SyncShape'
  BY <1>1, <1>3, <1>4 DEF SyncShape
<1>6. ReadsNow(d) => HasRead(d) /\ Len(run[d].fetched) = Limit
  BY <1>1 DEF RunOK, HasRead
<1>7. ReadsNow(d) => \A i \in Items : InReach(i) <=> i \in Range(run[d].fetched)
  BY <1>2, <1>6 DEF InReach, HasRead, Range
<1>8. ReadsNow(d) => Mild
  <2> SUFFICES ASSUME ReadsNow(d), NEW i \in Items, i \in Unseen(d)
               PROVE ~InReach(i) /\ ~records'[i].available /\ records'[i].seen = records[i].seen
    BY <1>4 DEF Mild
  <2>1. i \notin Range(run[d].fetched)
    BY DEF Unseen
  <2> QED
    BY <1>4, <1>7, <2>1
<1>9. run[d].stale \/ Mild
  BY <1>1, <1>8 DEF ReadsNow
<1>10. ReadsNow(d)' => HasRead(d)'
  BY <1>1, <1>3, <1>6 DEF ReadsNow, HasRead, Limit
<1>11. Alone(d)' => Alone(d)
  BY <1>1, <1>3 DEF Alone, ReadsNow
<1>12. Alone(d)' => AllFresh' /\ Recent(d)'
  <2>1. Alone(d)' => AllFresh /\ Recent(d)
    BY <1>1, <1>11 DEF RunOK
  <2>2. AllFresh => AllFresh'
    BY <1>1, <1>3, <1>5, <1>9, Bystanders
  <2> QED
    BY <1>1, <1>3, <1>4, <2>1, <2>2 DEF Recent, InReach, Limit
<1>13. ASSUME Alone(d)', ~run[d].skipped PROVE Told'
  <2>1. HasRecorded(d) /\ HasRead(d) /\ Recent(d) /\ ReadsNow(d)
    BY <1>1, <1>6, <1>11, <1>13 DEF RunOK, Alone
  <2> SUFFICES ASSUME NEW i \in Items \ Faulty
               PROVE  IF InReach(i) THEN Good(i)' ELSE ~records'[i].available
    BY <1>1 DEF Told, InReach, Limit
  <2>2. CASE InReach(i)
    <3>1. i \in Range(run[d].fetched)
      BY <1>7, <2>1, <2>2
    <3>2. PICK k \in 1..Len(run[d].fetched) : run[d].fetched[k] = i
      BY <1>2, <3>1 DEF Range
    <3>3. k < run[d].at
      BY <1>1, <1>2 DEF More
    <3>4. Good(i)
      BY <2>1, <3>2, <3>3 DEF HasRecorded
    <3>5. i \notin Unseen(d)
      BY <3>1 DEF Unseen
    <3> QED
      BY <1>4, <2>2, <3>4, <3>5 DEF Good
  <2>3. CASE ~InReach(i)
    <3>1. i \notin Range(run[d].fetched)
      BY <1>7, <2>1, <2>3
    <3>2. ~(records[i].seen >= run[d].started)
      BY <2>1, <2>3 DEF Recent
    <3>3. records[i].seen \in Nat /\ run[d].started \in Nat
      BY <1>1, <1>2 DEF SyncShape, RecordRow, RunRow
    <3>4. i \in Unseen(d)
      BY <3>1, <3>2, <3>3 DEF Unseen
    <3> QED
      BY <1>4, <2>3, <3>4
  <2> QED
    BY <2>2, <2>3
<1>14. RunOK(d)'
  BY <1>3, <1>10, <1>12, <1>13 DEF RunOK, AtOnce, OnItemPCs
<1> QED
  BY <1>1, <1>3, <1>5, <1>9, <1>14, StepKeeps

\* A run begins: it is at its first page, and nothing was seen since.
LEMMA BeginKeeps == ASSUME SyncInv, NEW d \in Runs, BeginRun(d) PROVE SyncInv'
<1>1. run[d].pc = "waiting" /\ ~Busy(d) /\ SyncShape /\ UNCHANGED <<feed, records, offers, settled>>
  BY DEF BeginRun, InRun, Busy, Tables, Others, SyncInv
<1> DEFINE exposed == \E e \in Runs : Busy(e) /\ run[e].stale
           row == [NotStarted EXCEPT !.pc = "fetch", !.started = clock + 1, !.exposed = exposed]
           last == [NotStarted EXCEPT !.pc = "done"]
<1>2. \/ clock' = clock /\ run' = [run EXCEPT ![d] = last]
      \/ clock' = clock + 1 /\ run' = [run EXCEPT ![d] = row]
  BY DEF BeginRun, EndRun
<1>3. exposed \in BOOLEAN /\ clock \in Nat /\ <<>> \in Seq(Items) /\ NoRecord \in RecordRow
  BY <1>1, EmptySeq DEF SyncShape, NoRecord, RecordRow
<1>4. AllFresh => ~exposed
  BY DEF AllFresh
<1> HIDE DEF exposed
<1>0. NotStarted \in RunRow /\ NotStarted.fetched = <<>> /\ NotStarted.more = TRUE
      /\ NotStarted.at = 1 /\ NotStarted.stale = FALSE
  BY <1>3 DEF NotStarted, RunRow, RunPCs
<1>5. /\ row \in RunRow /\ row.pc = "fetch" /\ row.started = clock + 1 /\ row.fetched = <<>>
      /\ row.more = TRUE /\ row.at = 1 /\ row.stale = FALSE /\ row.exposed = exposed
  <2>1. "fetch" \in RunPCs /\ clock + 1 \in Nat
    BY <1>3 DEF RunPCs
  <2> QED
    BY <1>0, <1>3, <2>1 DEF RunRow
<1>6. last \in RunRow /\ last.pc = "done"
  BY <1>0 DEF RunRow, RunPCs
<1> HIDE DEF row, last
<1>7. run' \in [Runs -> RunRow] /\ \A e \in Runs \ {d} : run'[e] = run[e]
  BY <1>1, <1>2, <1>5, <1>6 DEF SyncShape
<1>8. clock' \in Nat /\ clock <= clock'
  BY <1>2, <1>3
<1>9. SyncShape'
  <2>1. \A i \in Items : records[i].seen \in Nat /\ records[i].seen <= clock
    BY <1>1 DEF SyncShape, RecordRow
  <2>2. \A i \in Items : records[i].seen <= clock'
    BY <1>3, <1>8, <2>1
  <2> QED
    BY <1>1, <1>7, <1>8, <2>2 DEF SyncShape
<1>10. \A i : InReach(i)' = InReach(i)
  BY <1>1 DEF InReach, Limit
<1>11. /\ run'[d] = last \/ (run'[d] = row /\ clock' = clock + 1)
       /\ Busy(d)' => run'[d] = row
  BY <1>1, <1>2, <1>6 DEF SyncShape, Busy
<1>12. AllFresh <=> AllFresh'
  BY <1>1, <1>5, <1>7, <1>11 DEF AllFresh, Busy
<1>13. ASSUME NEW e \in Runs \ {d} PROVE RunOK(e)'
  <2>1. RunOK(e) /\ run'[e] = run[e] /\ run[e] \in RunRow
    BY <1>1, <1>7 DEF SyncInv, SyncShape
  <2>2. AtOnce(e)'
    <3>1. run[e].pc \in OnItemPCs => run[e].prior.seen \in Nat
      BY <2>1 DEF RunRow, RecordRow
    <3> QED
      BY <1>3, <1>8, <2>1, <3>1 DEF RunOK, AtOnce, More, AtItem, OnItemPCs
  <2>3. ReadsNow(e)' => HasRead(e)'
    BY <1>1, <2>1 DEF RunOK, ReadsNow, Busy, HasRead, Limit
  <2>4. Alone(e)' => AllFresh' /\ Recent(e)'
    BY <1>1, <1>10, <1>12, <2>1 DEF RunOK, Alone, ReadsNow, Busy, Recent
  <2>5. Alone(e)' /\ ~run'[e].skipped =>
          IF run'[e].pc = "finish" THEN Told' ELSE HasRecorded(e)'
    BY <1>1, <1>10, <2>1 DEF RunOK, Alone, ReadsNow, Busy, Told, Good, HasRecorded
  <2> QED
    BY <2>2, <2>3, <2>4, <2>5 DEF RunOK
<1>14. RunOK(d)'
  <2>1. CASE run'[d] = last
    BY <1>6, <2>1 DEF RunOK, AtOnce, OnItemPCs, Alone, ReadsNow, Busy
  <2>2. CASE run'[d] = row /\ clock' = clock + 1
    <3>1. Len(<<>>) = 0 /\ Limit \in Nat /\ Limit' = Limit
      BY <1>1, FeedFacts DEF Limit
    <3>2. HasRead(d)'
      BY <1>5, <2>2, <3>1 DEF HasRead
    <3>3. Recent(d)'
      <4>1. \A i \in Items : records[i].seen \in Nat /\ records[i].seen <= clock
        BY <1>1 DEF SyncShape, RecordRow
      <4> QED
        BY <1>1, <1>3, <1>5, <2>2, <4>1 DEF Recent
    <3>4. HasRecorded(d)'
      BY <1>5, <2>2, <3>1 DEF HasRecorded
    <3>5. Alone(d)' => AllFresh'
      BY <1>5, <1>12, <2>2 DEF Alone, AllFresh, exposed
    <3> QED
      BY <1>5, <2>2, <3>2, <3>3, <3>4, <3>5 DEF RunOK, AtOnce, OnItemPCs
  <2> QED
    BY <1>11, <2>1, <2>2
<1> QED
  BY <1>1, <1>9, <1>10, <1>12, <1>13, <1>14 DEF SyncInv, Told, Good

\* The source changes: every run that goes on has read an older one.
LEMMA ChangeKeeps == ASSUME SyncInv, ChangeFeed PROVE SyncInv'
<1>1. /\ SyncShape /\ settled' = FALSE /\ UNCHANGED <<records, offers, clock>>
      /\ run' = [d \in Runs |-> [run[d] EXCEPT !.stale = Busy(d)]]
  BY DEF ChangeFeed, SourceRows, Tables, SyncInv
<1>2. feed' \in Seq(Items)
  <2>1. feed \in Seq(Items) /\ Len(feed) \in Nat
    BY <1>1, LenProperties DEF SyncShape
  <2>2. CASE \E k \in DOMAIN feed : feed' = RemoveAt(feed, k)
    <3>1. PICK k \in 1..Len(feed) : feed' = SubSeq(feed, 1, k - 1) \o SubSeq(feed, k + 1, Len(feed))
      BY <2>1, <2>2, LenProperties DEF RemoveAt
    <3>2. \A i \in 1..Len(feed) : feed[i] \in Items
      BY <2>1, ElementOfSeq
    <3>3. SubSeq(feed, 1, k - 1) \in Seq(Items)
      <4>1. \A i \in 1..(k - 1) : feed[i] \in Items
        BY <2>1, <3>2
      <4> QED
        BY <2>1, <4>1, SubSeqProperties
    <3>4. SubSeq(feed, k + 1, Len(feed)) \in Seq(Items)
      <4>1. \A i \in (k + 1)..Len(feed) : feed[i] \in Items
        BY <2>1, <3>2
      <4> QED
        BY <2>1, <4>1, SubSeqProperties
    <3> QED
      BY <3>1, <3>3, <3>4, ConcatProperties
  <2>3. CASE \E i \in Items \ Range(feed) : feed' = <<i>> \o feed
    <3>1. PICK i \in Items : feed' = <<i>> \o feed
      BY <2>3
    <3>2. <<i>> \in Seq(Items)
      OBVIOUS
    <3> QED
      BY <2>1, <3>1, <3>2, ConcatProperties
  <2> QED
    BY <2>2, <2>3 DEF ChangeFeed
<1>3. ASSUME NEW d \in Runs
      PROVE  /\ run'[d] \in RunRow /\ run'[d] = [run[d] EXCEPT !.stale = Busy(d)]
             /\ run'[d].pc = run[d].pc /\ run'[d].at = run[d].at /\ run'[d].prior = run[d].prior
             /\ run'[d].fetched = run[d].fetched /\ run'[d].stale = Busy(d)
  <2>1. Busy(d) \in BOOLEAN
    BY DEF Busy
  <2>2. run[d] \in RunRow
    BY <1>1 DEF SyncShape
  <2>3. run'[d] = [run[d] EXCEPT !.stale = Busy(d)]
    BY <1>1
  <2> HIDE DEF Busy
  <2> QED
    BY <2>1, <2>2, <2>3 DEF RunRow
<1>4. SyncShape'
  BY <1>1, <1>2, <1>3 DEF SyncShape
<1>5. ASSUME NEW d \in Runs PROVE RunOK(d)'
  <2>1. ~ReadsNow(d)'
    BY <1>3 DEF ReadsNow, Busy
  <2>2. AtOnce(d)
    BY DEF SyncInv, RunOK
  <2>3. AtOnce(d)'
    BY <1>1, <1>3, <2>2 DEF AtOnce, More, AtItem
  <2> QED
    BY <2>1, <2>3 DEF RunOK, Alone
<1> QED
  BY <1>1, <1>4, <1>5 DEF SyncInv

LEMMA SyncUntouched ==
  ASSUME SyncInv, UNCHANGED <<feed, records, offers, clock, run, settled>> PROVE SyncInv'
BY DEF SyncInv, SyncShape, RunOK, AtOnce, More, AtItem, ReadsNow, Alone, AllFresh, Busy, HasRead,
       Limit, Recent, InReach, HasRecorded, Good, Told

LEMMA RunSteps == ASSUME SyncInv, NEW d \in Runs, Step(d) PROVE SyncInv'
BY BeginKeeps, FetchKeeps, ResolveKeeps, ProductKeeps, OfferKeeps, RecordKeeps, SkipKeeps, MarkKeeps,
   FinishKeeps, FailKeeps, LoseKeeps DEF Step

LEMMA SyncSteps == SyncInv /\ [SyncNext]_syncVars => SyncInv'
<1> SUFFICES ASSUME SyncInv, [SyncNext]_syncVars PROVE SyncInv'
  OBVIOUS
<1>1. CASE EnsureDefaults
  BY <1>1, SyncUntouched DEF EnsureDefaults, Tables
<1>2. CASE Patch
  BY <1>2, SyncUntouched DEF Patch, Tables
<1>3. CASE Trigger
  BY <1>3, SyncUntouched DEF Trigger, Tables
<1>4. CASE ChangeFeed
  BY <1>4, ChangeKeeps
<1>5. ASSUME NEW d \in Runs, Step(d) PROVE SyncInv'
  BY <1>5, RunSteps
<1>6. CASE UNCHANGED syncVars
  BY <1>6, SyncUntouched DEF syncVars
<1> QED
  BY <1>1, <1>2, <1>3, <1>4, <1>5, <1>6 DEF SyncNext

\* What an earlier run left is as many offers as it saw items.
LEMMA SyncedOrder ==
  ASSUME NEW old, old \subseteq Items, NEW order, order = SetToSeq(old)
  PROVE  /\ order \in Seq(Items) /\ DOMAIN order = 1..Len(order) /\ Len(order) \in Nat
         /\ \A i \in old : \E k \in DOMAIN order : order[k] = i
<1>1. IsFiniteSet(old)
  BY SyncAssumption, FS_Subset
<1>2. PICK n \in Nat : n = Cardinality(old)
  BY <1>1, FS_CardinalityType
<1>3. \E f : f \in [1..n -> old] /\ IsInjective(f)
  <2>1. PICK f : f \in Bijection(1..n, old)
    BY <1>1, <1>2, FS_CardinalityType DEF ExistsBijection
  <2> QED
    BY <2>1 DEF Bijection, Injection
<1>4. order \in [1..n -> old] /\ IsInjective(order)
  BY <1>2, <1>3 DEF SetToSeq
<1>5. order \in Surjection(1..n, old)
  <2>1. order \in Injection(1..n, old)
    BY <1>4 DEF Injection
  <2>2. Cardinality(1..n) = n
    BY <1>2, FS_Interval
  <2> QED
    BY <1>1, <1>2, <2>1, <2>2, FS_Injection
<1>6. \A i \in old : \E k \in DOMAIN order : order[k] = i
  BY <1>4, <1>5 DEF Surjection
<1>7. order \in Seq(Items)
  BY <1>2, <1>4, SeqDef
<1> QED
  BY <1>6, <1>7, LenProperties

LEMMA SyncStarts == SyncInit => SyncInv
<1> SUFFICES ASSUME SyncInit PROVE SyncInv
  OBVIOUS
<1>1. clock = 0 /\ settled = FALSE /\ run = [d \in Runs |-> NotStarted]
  BY DEF SyncInit
<1>2. feed \in Seq(Items)
  <2>1. Cardinality(Items) \in Nat
    BY SyncAssumption, FS_CardinalityType
  <2>2. PICK n \in 0..Cardinality(Items) : feed \in [1..n -> Items]
    BY DEF SyncInit
  <2> QED
    BY <2>1, <2>2, SeqDef
<1>3. /\ NoRecord \in RecordRow /\ NoRecord.seen = 0
      /\ NotStarted \in RunRow /\ NotStarted.pc = "waiting"
  <2>1. NoRecord \in RecordRow /\ NoRecord.seen = 0
    BY DEF NoRecord, RecordRow
  <2>2. <<>> \in Seq(Items)
    BY EmptySeq
  <2> QED
    BY <2>1, <2>2 DEF NotStarted, RunRow, RunPCs
<1>4. /\ offers \in Seq([product : Items \cup {Absent}, active : BOOLEAN])
      /\ records \in [Items -> RecordRow] /\ \A i \in Items : records[i].seen = 0
  <2>1. PICK old : old \subseteq Items /\ Synced(old)
    BY DEF SyncInit
  <2>2. PICK order : order = SetToSeq(old)
    OBVIOUS
  <2>3. /\ order \in Seq(Items) /\ DOMAIN order = 1..Len(order) /\ Len(order) \in Nat
        /\ \A i \in old : \E k \in DOMAIN order : order[k] = i
    BY <2>1, <2>2, SyncedOrder
  <2>4. offers \in Seq([product : Items \cup {Absent}, active : BOOLEAN])
    <3>1. offers = [k \in 1..Len(order) |-> [product |-> order[k], active |-> TRUE]]
      BY <2>1, <2>2, <2>3 DEF Synced
    <3>2. \A k \in 1..Len(order) : order[k] \in Items
      BY <2>3, ElementOfSeq
    <3>3. offers \in [1..Len(order) -> [product : Items \cup {Absent}, active : BOOLEAN]]
      BY <3>1, <3>2
    <3> QED
      BY <2>3, <3>3, SeqDef
  <2> DEFINE Spot(i) == CHOOSE k \in DOMAIN order : order[k] = i
  <2>5. records = [i \in Items |-> IF i \in old THEN Recorded(i, Spot(i), TRUE, 0) ELSE NoRecord]
    BY <2>1, <2>2 DEF Synced
  <2>6. \A i \in old : Spot(i) \in Nat
    <3> SUFFICES ASSUME NEW i \in old PROVE Spot(i) \in Nat
      OBVIOUS
    <3>1. Spot(i) \in DOMAIN order
      BY <2>3
    <3> QED
      BY <2>3, <3>1
  <2> HIDE DEF Spot
  <2>7. ASSUME NEW i \in Items PROVE records[i] \in RecordRow /\ records[i].seen = 0
    <3>1. CASE i \in old
      <4>1. records[i] = Recorded(i, Spot(i), TRUE, 0)
        BY <2>5, <3>1
      <4> QED
        BY <2>6, <3>1, <4>1 DEF Recorded, RecordRow
    <3>2. CASE i \notin old
      BY <1>3, <2>5, <3>2
    <3> QED
      BY <3>1, <3>2
  <2> QED
    BY <2>4, <2>5, <2>7
<1>5. SyncShape
  <2>1. clock \in Nat /\ \A i \in Items : records[i].seen <= clock
    BY <1>1, <1>4
  <2>2. run \in [Runs -> RunRow] /\ settled \in BOOLEAN
    BY <1>1, <1>3
  <2> QED
    BY <1>2, <1>4, <2>1, <2>2 DEF SyncShape
<1>6. ASSUME NEW d \in Runs PROVE RunOK(d)
  BY <1>1, <1>3 DEF RunOK, AtOnce, OnItemPCs, Alone, ReadsNow, Busy
<1> QED
  BY <1>1, <1>5, <1>6 DEF SyncInv

\* Whatever pages and items a source has and however many runs read it at once, what holds all the
\* while: a run under which the source did not change has read the head of the list, and what it
\* wrote of it is what the source says.
THEOREM SyncInvariant == SyncSpec => []SyncInv
BY SyncStarts, SyncSteps, PTL DEF SyncSpec

\* After a run that read the source as it is now, with others like it or alone, and that counted no
\* item as rejected for an error, the records tell what the source says of the items within reach
\* of its pages, and call no other item available.  What is listed beyond that is not available
\* either (ListedIsAvailable, which the code does not keep).
THEOREM RecordsTell == SyncSpec => []RecordsFollowTheSource
<1>1. SyncInv => RecordsFollowTheSource
  <2> SUFFICES ASSUME SyncInv, settled, NEW i \in Items \ Faulty
               PROVE  /\ i \in Reached => records[i].known
                      /\ records[i].available <=> i \in Reached \ SoldOut
    BY DEF RecordsFollowTheSource
  <2>1. i \in Reached <=> InReach(i)
    <3>1. DOMAIN feed = 1..Len(feed) /\ Len(feed) \in Nat /\ Reach \in Nat
      BY LenProperties, FeedFacts DEF SyncInv, SyncShape
    <3> QED
      BY <3>1 DEF Reached, InReach, Limit, Least
  <2>2. IF InReach(i) THEN Good(i) ELSE ~records[i].available
    BY DEF SyncInv, Told
  <2> QED
    BY <2>1, <2>2 DEF Good
<1> QED
  BY <1>1, SyncInvariant, PTL
===============================================================================
