------------------------------ MODULE Sessions ------------------------------
(***************************************************************************)
(* The pooled connections of a *sql.DB and what migrate.Runner.session does  *)
(* to one of them: it moves the session to UTC, takes the named lock, runs   *)
(* the command, and undoes both in deferred statements.  Any statement can   *)
(* fail, before or after it took effect; a connection whose session is in    *)
(* doubt is discarded, and its slot of the pool is dialled again.  Which      *)
(* error the command returns is in MigrateRunner.                            *)
(***************************************************************************)
EXTENDS FiniteSets

CONSTANTS
    Connections,  \* slots of the pool, as many as MaxOpenConns can allow
    Zones, Utc,   \* session time zones
    NoConn,
    Nobody,       \* holder of a lock nobody has
    Elsewhere     \* holder of a lock that a session outside the pool has

ASSUME SessionsAssumption ==
    /\ Utc \in Zones
    /\ NoConn \notin Connections
    /\ Nobody \notin Connections /\ Elsewhere \notin Connections /\ Nobody # Elsewhere

VARIABLES
    idle,       \* connections nobody uses
    others,     \* connections used by other goroutines of the application
    home,       \* history: the zone a connection had when it was dialled
    zone,       \* time_zone of the connection's session
    lock,       \* session that holds the named lock
    cancelled,  \* the context of the current call has ended
    run         \* the migration command's session

sessionVars == <<idle, others, home, zone, lock, cancelled, run>>

AtRest == [pc |-> "rest", conn |-> NoConn, saved |-> Utc, gone |-> FALSE]

SessionsInit ==
    /\ idle \in SUBSET Connections \ {{}}  \* MaxOpenConns
    /\ others = {}
    /\ home \in [Connections -> Zones]
    /\ zone = home
    /\ lock \in {Nobody, Elsewhere}
    /\ cancelled = FALSE
    /\ run = AtRest

---------------------------------------------------------------------------
(* The pool, the other goroutines that use it, and the lock's other users.    *)

Take(c) == c \in idle /\ idle' = idle \ {c}

OthersTake(c) ==
    /\ Take(c)
    /\ others' = others \cup {c}
    /\ UNCHANGED <<home, zone, lock, cancelled, run>>

OthersReturn(c) ==
    /\ c \in others
    /\ others' = others \ {c}
    /\ idle' = idle \cup {c}
    /\ UNCHANGED <<home, zone, lock, cancelled, run>>

LockElsewhere ==
    /\ lock \in {Nobody, Elsewhere}
    /\ lock' = IF lock = Nobody THEN Elsewhere ELSE Nobody
    /\ UNCHANGED <<idle, others, home, zone, cancelled, run>>

---------------------------------------------------------------------------
(* Runner.session.                                                            *)

\* The server forgets a session some time after its connection is gone.
LockWithout(c) == IF lock = c THEN Elsewhere ELSE lock

\* driver.ErrBadConn: the connection will not go back to the pool.
Discard(next) ==
    /\ run' = [run EXCEPT !.pc = next, !.gone = TRUE]
    /\ lock' = LockWithout(run.conn)

Connect(c) ==
    /\ run.pc = "rest" /\ ~cancelled
    /\ Take(c)
    /\ run' = [AtRest EXCEPT !.pc = "inspect", !.conn = c]
    /\ UNCHANGED <<others, home, zone, lock, cancelled>>

\* The settings of the session: an unusable one is left as it was found.
InspectConnection ==
    /\ run.pc = "inspect"
    /\ \/ run' = [run EXCEPT !.pc = "close"]
       \/ run' = [run EXCEPT !.pc = IF zone[run.conn] = Utc THEN "acquire" ELSE "set",
                             !.saved = zone[run.conn]]
    /\ UNCHANGED <<idle, others, home, zone, lock, cancelled>>

SetZone ==
    /\ run.pc = "set"
    /\ run' = [run EXCEPT !.pc = "acquire"]
    /\ zone' = [zone EXCEPT ![run.conn] = Utc]
    /\ UNCHANGED <<idle, others, home, lock, cancelled>>

SetZoneFails ==
    /\ run.pc = "set"
    /\ Discard("close")
    /\ zone' \in {zone, [zone EXCEPT ![run.conn] = Utc]}
    /\ UNCHANGED <<idle, others, home, cancelled>>

GetLock ==
    /\ run.pc = "acquire" /\ lock = Nobody
    /\ run' = [run EXCEPT !.pc = "work"]
    /\ lock' = run.conn
    /\ UNCHANGED <<idle, others, home, zone, cancelled>>

\* 0 after the timeout, or NULL: ErrLocked.
GetLockTimesOut ==
    /\ run.pc = "acquire"
    /\ run' = [run EXCEPT !.pc = "restore"]
    /\ UNCHANGED <<idle, others, home, zone, lock, cancelled>>

\* Mutant: the connection whose answer was lost goes back to the pool.
GetLockFailsKept ==
    /\ run.pc = "acquire"
    /\ run' = [run EXCEPT !.pc = "restore"]
    /\ lock' \in {lock, IF lock = Nobody THEN run.conn ELSE lock}
    /\ UNCHANGED <<idle, others, home, zone, cancelled>>

\* The answer of GET_LOCK is lost; the server may have granted it.
GetLockFails ==
    /\ run.pc = "acquire"
    /\ run' = [run EXCEPT !.pc = "restore", !.gone = TRUE]
    /\ lock' \in {lock, IF lock = Nobody THEN Elsewhere ELSE lock}
    /\ UNCHANGED <<idle, others, home, zone, cancelled>>

\* What runs under the lock (module MigrateRunner), which may lose it.
Work ==
    /\ run.pc = "work"
    /\ run' = [run EXCEPT !.pc = "release"]
    /\ lock' \in {lock, Nobody}
    /\ UNCHANGED <<idle, others, home, zone, cancelled>>

ReleaseLock ==
    /\ run.pc = "release" /\ lock = run.conn
    /\ run' = [run EXCEPT !.pc = "restore"]
    /\ lock' = Nobody
    /\ UNCHANGED <<idle, others, home, zone, cancelled>>

\* RELEASE_LOCK fails, or answers that the session did not hold the lock.
ReleaseLockFails ==
    /\ run.pc = "release"
    /\ Discard("restore")
    /\ UNCHANGED <<idle, others, home, zone, cancelled>>

\* The deferred statement exists only when the zone was changed.
RestoreZone ==
    /\ run.pc = "restore" /\ (run.saved = Utc \/ ~run.gone)
    /\ run' = [run EXCEPT !.pc = "close"]
    /\ zone' = [zone EXCEPT ![run.conn] = run.saved]
    /\ UNCHANGED <<idle, others, home, lock, cancelled>>

RestoreZoneFails ==
    /\ run.pc = "restore" /\ run.saved # Utc
    /\ Discard("close")
    /\ UNCHANGED <<idle, others, home, zone, cancelled>>

\* conn.Close; database/sql dials again for a slot whose connection is gone.
CloseConnection ==
    /\ run.pc = "close"
    /\ idle' = idle \cup {run.conn}
    /\ zone' = IF run.gone THEN [zone EXCEPT ![run.conn] = home[run.conn]] ELSE zone
    /\ run' = AtRest
    /\ UNCHANGED <<others, home, lock, cancelled>>

RunSession ==
    \/ InspectConnection \/ SetZone \/ SetZoneFails
    \/ GetLock \/ GetLockTimesOut \/ GetLockFails
    \/ Work \/ ReleaseLock \/ ReleaseLockFails
    \/ RestoreZone \/ RestoreZoneFails \/ CloseConnection

\* The pool, its other users and the lock's other users.
Surroundings ==
    \/ \E c \in Connections : OthersTake(c) \/ OthersReturn(c)
    \/ LockElsewhere

SessionsNext == Surroundings \/ (\E c \in Connections : Connect(c)) \/ RunSession
SessionsSpec == SessionsInit /\ [][SessionsNext]_sessionVars

---------------------------------------------------------------------------

\* A connection in the pool is as it was dialled, whatever failed in the
\* command that used it: its zone is its own, and its session has no lock that
\* would keep every later command waiting.
SessionsComeBackClean == \A c \in idle : zone[c] = home[c] /\ lock # c
=============================================================================
