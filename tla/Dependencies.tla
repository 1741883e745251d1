---------------------------- MODULE Dependencies ----------------------------
(***************************************************************************)
(* What the API depends on, its lifespan, and the readiness probe.         *)
(*                                                                         *)
(* PostgreSQL and Redis come and go under the running process.  No route   *)
(* but the probe uses the cache, so the keys in it are left out.  The      *)
(* process ends once, after its requests: uvicorn waits for them.          *)
(***************************************************************************)
EXTENDS Naturals

CONSTANTS
  Probe,       \* readiness probes
  MaxChanges   \* bound: how often something outside the process changes

ASSUME DependenciesAssumption == MaxChanges \in Nat

VARIABLES
  database,  \* PostgreSQL
  redis,     \* Redis
  process,   \* the API process
  engine,    \* app.state.database
  cache,     \* app.state.cache, by its name
  probe,     \* the requests for /health/ready
  changes    \* how often something has changed

dependencies == <<database, redis, process, engine, cache, probe, changes>>

Reachable == {"up", "down"}

Stage       == {"idle", "checking", "pinging", "answered"}
CacheAnswer == {"ok", "disabled", "degraded", "none"}
ProbeCode   == {0, 200, 503, 500}

(* seen: the states of the database while the probe was under way.         *)
ProbeState ==
  [at : Stage, database : Reachable \cup {"none"}, cache : CacheAnswer,
   status : ProbeCode, seen : SUBSET Reachable]

DependenciesTypeOK ==
  /\ {database, redis} \subseteq Reachable
  /\ process \in {"starting", "running", "closing", "stopped", "refused"}
  /\ engine \in {"none", "open", "disposed"}
  /\ cache \in {"none", "disabled", "redis"}
  /\ probe \in [Probe -> ProbeState]
  /\ changes \in 0..MaxChanges

NoProbe == [at |-> "idle", database |-> "none", cache |-> "none", status |-> 0, seen |-> {}]

DependenciesInit ==
  /\ database \in Reachable /\ redis = "up"   \* bound: Redis is up at first
  /\ process = "starting" /\ engine = "none" /\ cache = "none"
  /\ probe = [p \in Probe |-> NoProbe]
  /\ changes = 0

-----------------------------------------------------------------------------
Settings == [redisUrl : BOOLEAN, cacheRequired : BOOLEAN]

(* build_cache; "none": it raises, as a required cache has no url.         *)
BuildCache(settings) ==
  IF settings.redisUrl THEN "redis"
  ELSE IF settings.cacheRequired THEN "none" ELSE "disabled"

(* lifespan.  The engine connects lazily, so that a database that is down  *)
(* stops nothing.                                                          *)
Start ==
  /\ process = "starting"
  /\ engine' = "open"
  /\ \E settings \in Settings : cache' = BuildCache(settings)
  /\ process' = IF cache' = "none" THEN "refused" ELSE "running"
  /\ UNCHANGED <<database, redis, probe, changes>>

Resting(p) == probe[p].at \in {"idle", "answered"}

(* RedisCache.close swallows what its backend raises, so that dispose is   *)
(* reached whether or not Redis is there.                                  *)
CloseCache ==
  /\ process = "running"
  /\ \A p \in Probe : Resting(p)
  /\ process' = "closing"
  /\ UNCHANGED <<database, redis, engine, cache, probe, changes>>

Dispose ==
  /\ process = "closing"
  /\ engine' = "disposed"
  /\ process' = "stopped"
  /\ UNCHANGED <<database, redis, cache, probe, changes>>

-----------------------------------------------------------------------------
(* /health/ready.                                                          *)

SendProbe(p) ==
  /\ process = "running" /\ probe[p].at = "idle"
  /\ probe' = [probe EXCEPT ![p].at = "checking", ![p].seen = {database}]
  /\ UNCHANGED <<database, redis, process, engine, cache, changes>>

(* What SELECT 1 raises of a PostgreSQL that is down: not reachable.  One  *)
(* that refuses while it starts up, which asyncpg may report as neither,   *)
(* is not among the states of database.  Caught: what Database.check turns *)
(* into DatabaseUnavailableError.  Mutant: a refused connection, which     *)
(* comes as an OSError, is not turned into one.                            *)
Raised == {"SQLAlchemyError", "OSError"}
CaughtByDriver(error) == error = "SQLAlchemyError"
Caught(error) == error \in {"SQLAlchemyError", "OSError"}

CheckDatabase(p) ==
  /\ probe[p].at = "checking"
  /\ \/ /\ database = "up"
        /\ probe' = [probe EXCEPT ![p].at = "pinging", ![p].database = "up"]
     \/ /\ database = "down"
        /\ \E error \in Raised :
             IF Caught(error)
             THEN probe' = [probe EXCEPT ![p].at = "pinging", ![p].database = "down"]
             ELSE probe' = [probe EXCEPT ![p].at = "answered", ![p].status = 500]
  /\ UNCHANGED <<database, redis, process, engine, cache, changes>>

Ping == redis = "up"

PingCache(p) ==
  /\ probe[p].at = "pinging"
  /\ probe' = [probe EXCEPT
       ![p].at = "answered",
       ![p].cache = IF cache = "disabled" THEN "disabled"
                    ELSE IF Ping THEN "ok" ELSE "degraded",
       ![p].status = IF probe[p].database = "up" THEN 200 ELSE 503]
  /\ UNCHANGED <<database, redis, process, engine, cache, changes>>

-----------------------------------------------------------------------------
(* Outside the process.                                                    *)

Change == changes < MaxChanges /\ changes' = changes + 1    \* bound

Other(state) == IF state = "up" THEN "down" ELSE "up"

DatabaseChanges ==
  /\ Change
  /\ database' = Other(database)
  /\ probe' = [p \in Probe |-> IF Resting(p) THEN probe[p]
                               ELSE [probe[p] EXCEPT !.seen = @ \cup {database'}]]
  /\ UNCHANGED <<redis, process, engine, cache>>

RedisChanges ==
  /\ Change
  /\ redis' = Other(redis)
  /\ UNCHANGED <<database, process, engine, cache, probe>>

-----------------------------------------------------------------------------
(* test_health.py:92-95, README.md:72-77: whichever of database and Redis  *)
(* fails at whichever moment of a probe, it is answered, and with what the *)
(* database was like during it: the cache has no say in the status.        *)
ReadinessTellsTheDatabase ==
  \A p \in Probe : probe[p].at = "answered" =>
    \/ probe[p].status = 200 /\ "up" \in probe[p].seen
    \/ probe[p].status = 503 /\ "down" \in probe[p].seen

=============================================================================
