---------------------------- MODULE WebSessions ----------------------------
(***************************************************************************)
(* The web sessions of one administrator of the panel (SessionStore, which *)
(* the cabinet shares): login with its lockout, pages that load, renew or  *)
(* close the session, logout, and the commands of the operator's console   *)
(* that change the credentials or turn the administrator off.              *)
(*                                                                         *)
(* A handler reads in one transaction and commits later; the commit writes *)
(* the columns that differ from what it read.  An UPDATE of one row that   *)
(* was purged meanwhile is a StaleDataError nobody catches (Abandon); in a *)
(* batch of several rows asyncpg gives no count and the loss passes.  The  *)
(* clock counts minutes; session identifiers are numbers in the order of   *)
(* opening.                                                                *)
(***************************************************************************)
EXTENDS Integers, FiniteSets

CONSTANTS
  Handlers,     \* handlers that may run at the same time
  Ttl,          \* admin_session_ttl_hours
  IdleTime,     \* admin_session_idle_minutes
  Throttle,     \* LAST_SEEN_THROTTLE_SECONDS
  MaxAttempts,  \* admin_max_login_attempts
  LockTime,     \* admin_lockout_minutes
  None,
  MaxTime,      \* bound: last tick of the clock
  MaxRuns,      \* bound: number of handlers ever started
  MaxSessions,  \* bound: number of sessions ever opened
  MaxChanges,   \* bound: number of credentials ever set
  Lag           \* bound: ticks a page may spend between read and commit

ASSUME SessionsAssumption ==
  /\ Ttl \in Nat /\ IdleTime \in Nat /\ Throttle \in Nat
  /\ MaxAttempts \in Nat \ {0} /\ LockTime \in Nat
  /\ MaxTime \in Nat /\ MaxRuns \in Nat /\ MaxSessions \in Nat
  /\ MaxChanges \in Nat /\ Lag \in Nat
  /\ None \notin [expires: Nat, seen: Nat, revoked: BOOLEAN]

VARIABLES
  admin,     \* the row of admin_users
  rows,      \* the rows of admin_sessions, None where there is none
  opened,    \* sessions opened so far
  hs,        \* the handlers
  now,
  runs,      \* handlers started so far
  changes    \* passwords and secrets set so far: none is set twice

VARIABLES    \* history, read by no action
  proof,       \* per session, the credentials its login proved
  touched,     \* per session, the clock of the latest page it was good for
  late,        \* sessions opened with outdated credentials or behind the
               \* back of a command that had listed the sessions to close
  interrupted  \* some command stopped between its two commits

history == <<proof, touched, late, interrupted>>
vars == <<admin, rows, opened, hs, now, runs, changes, history>>

Ids == 1..MaxSessions
Time == 0..MaxTime
Secret == 0..MaxChanges
Credentials == [password: Secret, totp: Secret]
\* The argon2 parameters of a hash may be outdated; a locked_until of 0 is NULL.
Hash == [set: Secret, outdated: BOOLEAN]
AdminRow ==
  [password: Hash, totp: Secret, is_active: BOOLEAN, failed: 0..(MaxAttempts - 1),
   locked_until: 0..(MaxTime + LockTime)]
SessionRow == [expires: Nat, seen: Nat, revoked: BOOLEAN]

\* Where a handler is, the administrator as it read it, the session of its
\* cookie, its clock, the row a command will write, whether the command closes
\* sessions afterwards, and those it listed.
Places ==
  {"idle", "login", "expire", "renew", "owner", "served", "command", "changed", "close"}
Handler ==
  [at: Places, loaded: AdminRow \cup {None}, id: Ids \cup {None},
   clock: Time, after: AdminRow \cup {None}, closes: BOOLEAN, closing: SUBSET Ids]
Idle ==
  [at |-> "idle", loaded |-> None, id |-> None, clock |-> 0, after |-> None,
   closes |-> FALSE, closing |-> {}]

Exists(i) == rows[i] # None
Live == {i \in Ids : Exists(i) /\ ~rows[i].revoked}

TypeOK ==
  /\ admin \in AdminRow
  /\ rows \in [Ids -> SessionRow \cup {None}]
  /\ opened \in 0..MaxSessions
  /\ hs \in [Handlers -> Handler]
  /\ now \in Time
  /\ runs \in 0..MaxRuns
  /\ changes \in 0..MaxChanges
  /\ proof \in [Ids -> Credentials \cup {None}]
  /\ touched \in [Ids -> Time]
  /\ late \in SUBSET Ids
  /\ interrupted \in BOOLEAN

\* `nosbp admin create` has run; the hash may be of an older release.
Init ==
  /\ \E outdated \in BOOLEAN :
       admin = [password |-> [set |-> 0, outdated |-> outdated], totp |-> 0,
                is_active |-> TRUE, failed |-> 0, locked_until |-> 0]
  /\ rows = [i \in Ids |-> None]
  /\ opened = 0
  /\ hs = [h \in Handlers |-> Idle]
  /\ now = 0
  /\ runs = 0
  /\ changes = 0
  /\ proof = [i \in Ids |-> None]
  /\ touched = [i \in Ids |-> 0]
  /\ late = {}
  /\ interrupted = FALSE

---------------------------------------------------------------------------
(* Handlers and their transactions *)

Start(h, entry) ==
  /\ hs[h].at = "idle"
  /\ runs < MaxRuns
  /\ runs' = runs + 1
  /\ hs' = [hs EXCEPT ![h] = entry]
  /\ UNCHANGED <<admin, rows, opened, now, proof, late, interrupted>>

End(h) == hs' = [hs EXCEPT ![h] = Idle]

\* The administrator's row after the flush of a copy read as before.
WriteBack(before, after) ==
  [column \in DOMAIN admin |->
     IF after[column] # before[column] THEN after[column] ELSE admin[column]]

---------------------------------------------------------------------------
(* Login *)

\* authenticate reads the row of an active administrator who is not locked
\* out; anyone else is turned away without a trace.
StartLogin(h) ==
  /\ admin.is_active
  /\ now >= admin.locked_until
  /\ Start(h, [Idle EXCEPT !.at = "login", !.loaded = admin, !.clock = now])
  /\ UNCHANGED <<changes, touched>>

\* Mutant: the failure that locks does not start the count over.
FailedRow_keeps_counter(row, time) ==
  IF row.failed + 1 >= MaxAttempts
  THEN [row EXCEPT !.failed = @ + 1, !.locked_until = time + LockTime]
  ELSE [row EXCEPT !.failed = @ + 1]

\* register_failure on the copy that was read.
FailedRow(row, time) ==
  IF row.failed + 1 >= MaxAttempts
  THEN [row EXCEPT !.failed = 0, !.locked_until = time + LockTime]
  ELSE [row EXCEPT !.failed = @ + 1]

\* The password or the code is wrong: the failure is committed.
LoginFails(h) ==
  LET before == hs[h].loaded IN
  /\ hs[h].at = "login"
  /\ admin' = WriteBack(before, FailedRow(before, hs[h].clock))
  /\ End(h)
  /\ UNCHANGED <<rows, opened, now, runs, changes, history>>

\* reset_failures, and a hash of the current parameters.
SignedInRow(row) == [row EXCEPT !.password.outdated = FALSE, !.failed = 0, !.locked_until = 0]

\* _purge_stale: the expired and the revoked sessions are deleted.
Purged(time) ==
  [i \in Ids |-> IF Exists(i) /\ (rows[i].expires < time \/ rows[i].revoked)
                 THEN None ELSE rows[i]]

\* The credentials are no longer those in force.
Outdated(proved) == proved.password < admin.password.set \/ proved.totp < admin.totp

\* The credentials are right: one commit clears the failures, renews the
\* hash, purges what is stale and opens the session.
SignIn(h) ==
  LET new == opened + 1
      before == hs[h].loaded
      proved == [password |-> before.password.set, totp |-> before.totp]
  IN
  /\ hs[h].at = "login"
  /\ new \in Ids
  /\ opened' = new
  /\ admin' = WriteBack(before, SignedInRow(before))
  /\ rows' = [Purged(now) EXCEPT ![new] = [expires |-> now + Ttl, seen |-> now,
                                           revoked |-> FALSE]]
  /\ proof' = [proof EXCEPT ![new] = proved]
  /\ touched' = [touched EXCEPT ![new] = now]
  /\ late' = IF \/ \E g \in Handlers : hs[g].at = "close"
                \/ Outdated(proved) \/ ~admin.is_active
             THEN late \cup {new} ELSE late
  /\ End(h)
  /\ UNCHANGED <<now, runs, changes, interrupted>>

---------------------------------------------------------------------------
(* A page of the panel *)

IsExpired(row, time) == time >= row.expires \/ time - row.seen > IdleTime

\* The page goes on with its session: it was in use at the given time.
Touched(i, time) == [touched EXCEPT ![i] = IF @ < time THEN time ELSE @]

\* Mutant: the mark of activity is renewed only once it is idle.
LoadSession_renews_late(h, i) ==
  LET row == rows[i]
      loaded == [Idle EXCEPT !.id = i, !.clock = now]
  IN
  /\ Exists(i) /\ ~row.revoked
  /\ UNCHANGED changes
  /\ IF IsExpired(row, now)
     THEN Start(h, [loaded EXCEPT !.at = "expire"]) /\ UNCHANGED touched
     ELSE IF now - row.seen >= IdleTime
     THEN Start(h, [loaded EXCEPT !.at = "renew"]) /\ UNCHANGED touched
     ELSE Start(h, [loaded EXCEPT !.at = "owner"]) /\ touched' = Touched(i, now)

\* load reads the row and looks at the clock: an expired or idle session is
\* about to be revoked, a mark of a minute ago or older about to be renewed.
LoadSession(h, i) ==
  LET row == rows[i]
      loaded == [Idle EXCEPT !.id = i, !.clock = now]
  IN
  /\ Exists(i) /\ ~row.revoked
  /\ UNCHANGED changes
  /\ IF IsExpired(row, now)
     THEN Start(h, [loaded EXCEPT !.at = "expire"]) /\ UNCHANGED touched
     ELSE IF now - row.seen >= Throttle
     THEN Start(h, [loaded EXCEPT !.at = "renew"]) /\ UNCHANGED touched
     ELSE Start(h, [loaded EXCEPT !.at = "owner"]) /\ touched' = Touched(i, now)

\* The page of an expired session leads to the login form.
CommitExpired(h) ==
  LET i == hs[h].id IN
  /\ hs[h].at = "expire"
  /\ Exists(i)
  /\ rows' = [rows EXCEPT ![i].revoked = TRUE]
  /\ End(h)
  /\ UNCHANGED <<admin, opened, now, runs, changes, history>>

\* Mutant: the renewal writes the row as it was read.
CommitRenewal_all_columns(h) ==
  LET i == hs[h].id IN
  /\ hs[h].at = "renew"
  /\ Exists(i)
  /\ rows' = [rows EXCEPT ![i].seen = hs[h].clock, ![i].revoked = FALSE]
  /\ hs' = [hs EXCEPT ![h].at = "owner"]
  /\ touched' = Touched(i, hs[h].clock)
  /\ UNCHANGED <<admin, opened, now, runs, changes, proof, late, interrupted>>

\* The renewal writes last_seen_at and nothing else, without looking at what
\* another page wrote meanwhile.
CommitRenewal(h) ==
  LET i == hs[h].id IN
  /\ hs[h].at = "renew"
  /\ Exists(i)
  /\ rows' = [rows EXCEPT ![i].seen = hs[h].clock]
  /\ hs' = [hs EXCEPT ![h].at = "owner"]
  /\ touched' = Touched(i, hs[h].clock)
  /\ UNCHANGED <<admin, opened, now, runs, changes, proof, late, interrupted>>

\* current_admin: the owner must be active, and the page is shown.
FindOwner(h) ==
  /\ hs[h].at = "owner"
  /\ admin.is_active
  /\ hs' = [hs EXCEPT ![h].at = "served"]
  /\ UNCHANGED <<admin, rows, opened, now, runs, changes, history>>

Serve(h) ==
  /\ hs[h].at = "served"
  /\ End(h)
  /\ UNCHANGED <<admin, rows, opened, now, runs, changes, history>>

\* Logout: close loads the session again, which yields the copy it has, and
\* revokes it.
Logout(h) ==
  LET i == hs[h].id IN
  /\ hs[h].at = "served"
  /\ Exists(i)
  /\ rows' = [rows EXCEPT ![i].revoked = TRUE]
  /\ End(h)
  /\ UNCHANGED <<admin, opened, now, runs, changes, history>>

---------------------------------------------------------------------------
(* The console *)

\* A command reads the administrator and works on the copy.
Command(h, after, closes) ==
  /\ Start(h, [Idle EXCEPT !.at = "command", !.loaded = admin, !.after = after,
                           !.closes = closes])
  /\ UNCHANGED touched

Unlocked(row) == [row EXCEPT !.failed = 0, !.locked_until = 0]

AdminPassword(h) ==
  /\ changes < MaxChanges
  /\ changes' = changes + 1
  /\ Command(h, [Unlocked(admin) EXCEPT
                   !.password = [set |-> changes + 1, outdated |-> FALSE]], TRUE)

AdminResetTotp(h) ==
  /\ changes < MaxChanges
  /\ changes' = changes + 1
  /\ Command(h, [Unlocked(admin) EXCEPT !.totp = changes + 1], TRUE)

\* `nosbp admin disable` and `enable`.
AdminDisable(h, enable) ==
  Command(h, [admin EXCEPT !.is_active = enable], ~enable) /\ UNCHANGED changes

\* Only a lock still in force is lifted.
AdminUnlock(h) ==
  /\ admin.locked_until > now
  /\ Command(h, Unlocked(admin), FALSE)
  /\ UNCHANGED changes

\* The first commit of a command, and the only one of unlock and enable.
CommitCommand(h) ==
  /\ hs[h].at = "command"
  /\ admin' = WriteBack(hs[h].loaded, hs[h].after)
  /\ hs' = [hs EXCEPT ![h] = IF hs[h].closes THEN [Idle EXCEPT !.at = "changed"] ELSE Idle]
  /\ UNCHANGED <<rows, opened, now, runs, changes, history>>

\* close_all lists the sessions that are not revoked, the expired ones too.
ListSessions(h) ==
  /\ hs[h].at = "changed"
  /\ hs' = [hs EXCEPT ![h].at = "close", ![h].closing = Live]
  /\ UNCHANGED <<admin, rows, opened, now, runs, changes, history>>

\* The rows with the listed sessions revoked; the purged ones stay purged.
Closing(listed) ==
  [i \in Ids |-> IF i \in listed /\ Exists(i) THEN [rows[i] EXCEPT !.revoked = TRUE]
                 ELSE rows[i]]

\* Mutant: a session whose mark is old is taken for closed already.
CloseAll_recent_only(h) ==
  LET listed == hs[h].closing IN
  /\ hs[h].at = "close"
  /\ rows' = Closing({i \in listed : Exists(i) /\ now - rows[i].seen <= Throttle})
  /\ End(h)
  /\ UNCHANGED <<admin, opened, now, runs, changes, history>>

\* close_all revokes the listed sessions in one commit, which fails when a
\* login has purged the only one.
CloseAll(h) ==
  LET listed == hs[h].closing IN
  /\ hs[h].at = "close"
  /\ Cardinality(listed) = 1 => \A i \in listed : Exists(i)
  /\ rows' = Closing(listed)
  /\ End(h)
  /\ UNCHANGED <<admin, opened, now, runs, changes, history>>

---------------------------------------------------------------------------
(* The environment *)

\* A handler ends without its next commit: a refusal, an error, a restart.
Abandon(h) ==
  /\ hs[h].at \notin {"idle", "served"}
  /\ interrupted' = (interrupted \/ hs[h].at \in {"changed", "close"})
  /\ End(h)
  /\ UNCHANGED <<admin, rows, opened, now, runs, changes, proof, touched, late>>

Tick ==
  /\ now < MaxTime
  /\ \A h \in Handlers : hs[h].at \in {"renew", "expire"} => now + 1 - hs[h].clock <= Lag
  /\ now' = now + 1
  /\ UNCHANGED <<admin, rows, opened, hs, runs, changes, history>>

\* All bounds are used up and every handler has ended.
Finished ==
  /\ \A h \in Handlers : hs[h].at = "idle"
  /\ runs = MaxRuns
  /\ now = MaxTime
  /\ UNCHANGED vars

Next ==
  \/ \E h \in Handlers :
       \/ StartLogin(h) \/ LoginFails(h) \/ SignIn(h)
       \/ \E i \in Ids : LoadSession(h, i)
       \/ CommitExpired(h) \/ CommitRenewal(h) \/ FindOwner(h) \/ Serve(h) \/ Logout(h)
       \/ AdminPassword(h) \/ AdminResetTotp(h) \/ AdminUnlock(h)
       \/ \E enable \in BOOLEAN : AdminDisable(h, enable)
       \/ CommitCommand(h) \/ ListSessions(h) \/ CloseAll(h)
       \/ Abandon(h)
  \/ Tick \/ Finished

Spec == Init /\ [][Next]_vars

---------------------------------------------------------------------------
(* Properties *)

MidCommand == \E h \in Handlers : hs[h].at \in {"changed", "close"}

\* A change of password or of the second factor, or a disabled administrator,
\* throws every open session out.  A session outlives it only if it was
\* opened late, by a login that had read the row before or while the command
\* had its list already, or if the command was cut between its commits.
SessionsFollowCredentials ==
  MidCommand \/ interrupted
    \/ \A i \in Live : Outdated(proof[i]) \/ ~admin.is_active => i \in late

\* A closed session stays closed: no renewal by a page that had read the row
\* before opens it again.
ClosedForGood ==
  [][\A i \in Ids : Exists(i) /\ rows[i].revoked
       => rows'[i] = None \/ rows'[i].revoked]_vars

\* A session is given up for idleness only after a pause between pages longer
\* than the idle time less the age a mark may have: the throttle, or the time
\* a page spends between its read and its commit, whose renewal then turns
\* the mark back.
IdleIsIdle ==
  [][\A h \in Handlers : hs[h].at = "idle" /\ hs'[h].at = "expire" =>
       LET i == hs'[h].id IN
       \/ now >= rows[i].expires
       \/ now - touched[i] > IdleTime - (IF Lag > Throttle THEN Lag ELSE Throttle)]_vars
=============================================================================
