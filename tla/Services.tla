------------------------------ MODULE Services ------------------------------
(***************************************************************************)
(* The life of a process: bootstrap of the API, the worker or the AI       *)
(* service, requests or timer ticks while it serves, readiness, and        *)
(* installGracefulShutdown.  The processes meet nowhere but in the         *)
(* database and Redis, so that a behaviour follows one of them; both may   *)
(* go and come back at any moment.                                         *)
(***************************************************************************)
EXTENDS Environment, Naturals

CONSTANTS
  Files,     \* the environment files to start from
  Seeds,     \* seedIdentityCatalog, seedCommerceDefaults and seedDigitalShopTaxonomy: 3
  MaxBusy    \* requests or ticks under way at once

VARIABLES
  file, service,
  database, redis,  \* up or not
  pc,
  code,             \* of the exit: clean (0), failed (1), signalled, or still running
  busy,             \* requests, or ticks of the worker's timers, under way
  cut,              \* the process ended with some of them under way
  seeds,            \* how many seeds this start has run
  limiter,          \* which limiter the API was built with
  ready             \* the flag of the worker's operations server

serviceVars == <<file, service, database, redis, pc, code, busy, cut, seeds, limiter, ready>>

Booting == {"off", "redis", "database", "seeding"}
Draining == {"closing", "disconnecting", "stopping"}
ServicesTypeOK ==
  /\ file \in Files /\ service \in Processes /\ database \in BOOLEAN /\ redis \in BOOLEAN
  /\ pc \in Booting \cup Draining \cup {"listening", "serving", "exited"}
  /\ code \in {"running", "clean", "failed", "signalled"} /\ busy \in 0..MaxBusy /\ cut \in BOOLEAN
  /\ seeds \in 0..Seeds /\ limiter \in {"none", "redis", "memory"} /\ ready \in BOOLEAN

ServicesInit ==
  /\ file \in Files /\ service \in Processes /\ database \in BOOLEAN /\ redis \in BOOLEAN
  /\ pc = "off" /\ code = "running" /\ busy = 0 /\ cut = FALSE
  /\ seeds = 0 /\ limiter = "none" /\ ready = FALSE

Configured(key) == file[key] = "set"
Exit(c) == pc' = "exited" /\ code' = c /\ cut' = (busy > 0)
Goes(place) == pc' = place /\ UNCHANGED <<code, cut>>
Kept == UNCHANGED <<file, service, database, redis>>
-----------------------------------------------------------------------------
\* loadEnv; a ConfigError ends in the catch of index.ts.
Load ==
  /\ pc = "off"
  /\ IF ~Accepts(service, file) THEN Exit("failed")
     ELSE Goes(IF service = "api" THEN "redis" ELSE "listening")
  /\ Kept /\ UNCHANGED <<busy, seeds, limiter, ready>>

\* One attempt to connect; without Redis this process keeps its counters in memory.
ConnectRedis ==
  /\ pc = "redis" /\ Goes("database")
  /\ limiter' = IF Configured("REDIS_URL") /\ redis THEN "redis" ELSE "memory"
  /\ Kept /\ UNCHANGED <<busy, seeds, ready>>

\* An unhealthy database is a warning: the API goes on, without its seeds.
CheckDatabase ==
  /\ pc = "database"
  /\ Goes(IF Configured("DATABASE_URL") /\ database THEN "seeding" ELSE "listening")
  /\ Kept /\ UNCHANGED <<busy, seeds, limiter, ready>>

\* A seed that fails rejects bootstrap.
Seed ==
  /\ pc = "seeding"
  /\ IF database
     THEN seeds' = seeds + 1 /\ Goes(IF seeds' = Seeds THEN "listening" ELSE "seeding")
     ELSE seeds' = seeds /\ Exit("failed")
  /\ Kept /\ UNCHANGED <<busy, limiter, ready>>

\* From "listening" on the signal handlers are installed, and the worker's timers run.
Listen ==
  /\ pc = "listening" /\ Goes("serving") /\ ready' = (service = "worker")
  /\ Kept /\ UNCHANGED <<busy, seeds, limiter>>
ListenFails ==
  /\ pc = "listening" /\ Exit("failed")
  /\ Kept /\ UNCHANGED <<busy, seeds, limiter, ready>>
-----------------------------------------------------------------------------
\* A request of the API or the AI service.
Arrive ==
  /\ pc = "serving" /\ service # "worker" /\ busy < MaxBusy /\ busy' = busy + 1
  /\ Kept /\ UNCHANGED <<pc, code, cut, seeds, limiter, ready>>
\* A timer of the worker fires; its promise is not awaited.
Tick ==
  /\ pc \in {"listening", "serving"} /\ service = "worker" /\ Configured("DATABASE_URL")
  /\ busy < MaxBusy /\ busy' = busy + 1
  /\ Kept /\ UNCHANGED <<pc, code, cut, seeds, limiter, ready>>
\* Either ends, with an answer or an error, before the process does.
Answer ==
  /\ pc # "exited" /\ busy > 0 /\ busy' = busy - 1
  /\ Kept /\ UNCHANGED <<pc, code, cut, seeds, limiter, ready>>

\* GET /health/ready: the API asks the database, the worker its flag, the AI service nobody.
ReportsReady ==
  /\ pc \in IF service = "worker" THEN Draining \cup {"serving"} ELSE {"serving"}
  /\ CASE service = "api"    -> Configured("DATABASE_URL") => database
       [] service = "worker" -> ready
       [] service = "ai"     -> TRUE
-----------------------------------------------------------------------------
\* SIGTERM.  Before the handlers are installed it ends the process; a second one is ignored.
Signal ==
  /\ pc \notin Draining \cup {"exited"}
  /\ IF pc \in Booting THEN Exit("signalled") ELSE Goes("closing")
  /\ Kept /\ UNCHANGED <<busy, seeds, limiter, ready>>

\* onShutdown of the API and the AI service: app.close waits for the requests under way.
Close_NotAwaited ==                               \* mutant: void app.close()
  /\ pc = "closing" /\ service # "worker"
  /\ IF service = "api" THEN Goes("disconnecting") ELSE Exit("clean")
  /\ Kept /\ UNCHANGED <<busy, seeds, limiter, ready>>
Close ==
  /\ pc = "closing" /\ service # "worker" /\ busy = 0
  /\ IF service = "api" THEN Goes("disconnecting") ELSE Exit("clean")
  /\ Kept /\ UNCHANGED <<busy, seeds, limiter, ready>>
\* The API leaves the database, which may fail, then its limiter and Redis, whose errors it ignores.
Disconnect ==
  /\ pc = "disconnecting"
  /\ Exit("clean") \/ (Configured("DATABASE_URL") /\ ~database /\ Exit("failed"))
  /\ Kept /\ UNCHANGED <<busy, seeds, limiter, ready>>
\* onShutdown of the worker: the timers are cleared and the database is left, whatever still runs.
LeaveDatabase ==
  /\ pc = "closing" /\ service = "worker"
  /\ Goes("stopping") \/ (Configured("DATABASE_URL") /\ ~database /\ Exit("failed"))
  /\ Kept /\ UNCHANGED <<busy, seeds, limiter, ready>>
StopOps ==
  /\ pc = "stopping" /\ Exit("clean") /\ ready' = FALSE
  /\ Kept /\ UNCHANGED <<busy, seeds, limiter>>
\* The timer of ten seconds.
ForceExit ==
  /\ pc \in Draining /\ Exit("failed")
  /\ Kept /\ UNCHANGED <<busy, seeds, limiter, ready>>

Outage ==
  /\ \/ database' = ~database /\ UNCHANGED redis
     \/ redis' = ~redis /\ UNCHANGED database
  /\ UNCHANGED <<file, service, pc, code, busy, cut, seeds, limiter, ready>>

Boot == Load \/ ConnectRedis \/ CheckDatabase \/ Seed \/ Listen \/ ListenFails
Shutdown == Close \/ Disconnect \/ LeaveDatabase \/ StopOps \/ ForceExit
ServicesNext == Boot \/ Arrive \/ Tick \/ Answer \/ Signal \/ Shutdown \/ Outage
ServicesSpec == ServicesInit /\ [][ServicesNext]_serviceVars
-----------------------------------------------------------------------------
(* Safety.                                                                                    *)

\* In staging and production a file that the API accepts is one under which the worker charges
\* through the provider, when payments over escrow are enabled, and the processes that accept it
\* hold no default secret, the worker's included (apiEnvSchema and aiServiceEnvSchema guard what
\* workerEnvSchema takes unguarded).
ServicesFitTogether ==
  Protected(file) /\ Accepts("api", file) =>
    /\ SecureCookies(file) /\ SessionSecret(file) = "long"
    /\ \A s \in Processes : Accepts(s, file) => ServiceSecret(file) = "long"
    /\ file.PAYMENTS_ENABLED = "yes" /\ file.PAYMENT_PROVIDER = "escrow" => Charge(file) = "live"

\* Exit code 0 of the API and the AI service means that no request was cut off (api/app.ts:331).
CleanExitIsWhole == service # "worker" /\ code = "clean" => ~cut

-----------------------------------------------------------------------------
(* Statements that the code does not keep.                                                    *)

\* "Never substitutes unsafe production defaults for required secrets" (config/index.ts:535):
\* the worker's schema does.
NoUnsafeDefaults ==
  \A s \in Processes : Protected(file) /\ Accepts(s, file) => ServiceSecret(file) # "dev"
\* "Test-only ... Never enable in production" (config/index.ts:138).
DoubleStaysOut == Protected(file) /\ Accepts("worker", file) => Charge(file) # "double"
\* PAYMENTS_ENABLED is the "Master switch" (docs/Deployment/ESCROW_CONFIGURATION.md:16): nothing
\* but the schema reads it.
SwitchStopsPayments == file.PAYMENTS_ENABLED # "yes" => Charge(file) # "live"
\* "Escrow / SMTP / AI keys are EXTERNAL - leave blank until issued; keep PAYMENTS_ENABLED=false"
\* (docs/Deployment/SECRETS_MANAGEMENT.md:33): a blank key is refused whatever the switch says.
BlankKeysStart ==
  /\ file.PAYMENTS_ENABLED = "no" /\ file.ESCROW = "blank"
  /\ Accepts("api", [file EXCEPT !.ESCROW = "absent"])
  => Accepts("api", file)
\* M-Pesa can be enabled in the file, and the worker then does nothing.
EnabledRailCharges ==
  Accepts("api", file) /\ file.PAYMENTS_ENABLED = "yes" => Charge(file) \notin {"nothing"}
\* Documents and questions are embedded by one model.
OneEmbedding ==
  Accepts("worker", file) /\ Accepts("ai", file) => Embedder("worker", file) = Embedder("ai", file)
\* An API that is ready has run its seeds.
ReadyIsSeeded == service = "api" /\ Configured("DATABASE_URL") /\ ReportsReady => seeds = Seeds
\* A worker that is ready can work.
ReadyCanWork == service = "worker" /\ ReportsReady => pc = "serving" /\ database
\* A worker's exit code 0 means that its ticks ended.
TicksEnd == service = "worker" /\ code = "clean" => ~cut
\* The API counts in Redis whenever it can.
LimiterIsShared == pc = "serving" /\ service = "api" /\ Configured("REDIS_URL") => limiter = "redis"
=============================================================================
