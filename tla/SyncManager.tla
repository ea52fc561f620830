----------------------------- MODULE SyncManager -----------------------------
(***************************************************************************)
(* Threads that open and close one synchronised Realm file while its user  *)
(* logs out and in: SyncManager::get_session and unregister_session,       *)
(* SyncUser::register_session, log_out, update_refresh_token and           *)
(* invalidate, and the external reference of a SyncSession.                *)
(*                                                                         *)
(* Three kinds of mutex: "sessions" is SyncManager::m_session_mutex,       *)
(* "user" is SyncUser::m_mutex and "state" the m_state_mutex of a session. *)
(* A step is what a thread does up to the next mutex it takes and keeps,   *)
(* or releases; a critical section that takes no other mutex is one step,  *)
(* enabled when its mutex is free.                                         *)
(*                                                                         *)
(* A session is up or inactive here, and closes at once (Immediately):     *)
(* its states, its tokens and its client are the subject of SyncSession.   *)
(***************************************************************************)
EXTENDS Integers, FiniteSets

CONSTANTS
  Threads,
  Realms,      \* Realms that may be open on the file, each holds a reference
  Operations,  \* what threads do: "get", "drop", "logout", "login", "invalidate"
  None,        \* no thread
  MaxSessions  \* bounds the SyncSession objects made

ASSUME ManagerAssumption ==
  /\ None \notin Threads
  /\ Threads # {} /\ Realms \cap Threads = {}
  /\ Operations \subseteq {"get", "drop", "logout", "login", "invalidate"}
  /\ MaxSessions \in Nat

Sessions == 1 .. MaxSessions
NoSession == 0
Mutexes == {"sessions", "user", "state"}

VARIABLES
  owner,        \* owner[m]: the thread that keeps mutex m
  thread,       \* thread[t]: where it is, and the session it is about
  registered,   \* SyncManager::m_sessions[path]
  made,         \* SyncSession objects made
  up,           \* sessions that are not inactive
  refs,         \* refs[s]: open Realms, and threads, which share its external reference
  user,         \* SyncUser::m_state
  userSession,  \* SyncUser::m_sessions[path]
  userWaiting,  \* SyncUser::m_waiting_sessions[path]
  missing,      \* unregister_session found no entry: its assertion failed
  disturbed     \* history: operations have overlapped, or the user was invalidated

vars == <<owner, thread, registered, made, up, refs, user, userSession,
          userWaiting, missing, disturbed>>
userVars == <<user, userSession, userWaiting>>

Idle == [at |-> "idle", session |-> NoSession, realm |-> {}, loggingOut |-> FALSE]

Init ==
  /\ owner = [m \in Mutexes |-> None]
  /\ thread = [t \in Threads |-> Idle]
  /\ registered = NoSession /\ made = 0 /\ up = {}
  /\ refs = [s \in Sessions |-> {}]
  /\ user = "active" /\ userSession = NoSession /\ userWaiting = NoSession
  /\ missing = FALSE /\ disturbed = FALSE

Free(m) == owner[m] = None

\* A weak pointer to s can be locked: the map, a Realm or a thread holds it.
Alive(s) ==
  /\ s # NoSession
  /\ \/ s = registered \/ refs[s] # {}
     \/ \E t \in Threads : thread[t].session = s

\* No thread is opening Realm r.
Unused(r) == \A t \in Threads : r \notin thread[t].realm

Goes(t, at) == thread' = [thread EXCEPT ![t].at = at]
Rests(t) == thread' = [thread EXCEPT ![t] = Idle]

-------------------------------------------------------------------------------
\* SyncManager::get_session, for a Realm r that is opened.

\* An existing session is found, or made and referenced at once.
GetSession(t, r) ==
  /\ thread[t] = Idle /\ Free("sessions")
  /\ \A s \in Sessions : r \notin refs[s]
  /\ Unused(r)
  /\ owner' = [owner EXCEPT !["sessions"] = t]
  /\ IF registered # NoSession
     THEN /\ thread' = [thread EXCEPT ![t] = [Idle EXCEPT
                          !.at = "register", !.session = registered, !.realm = {r}]]
          /\ UNCHANGED <<registered, made, refs>>
     ELSE /\ made < MaxSessions /\ Free("state")
          /\ made' = made + 1 /\ registered' = made'
          /\ refs' = [refs EXCEPT ![made'] = {r}]
          /\ thread' = [thread EXCEPT ![t] = [Idle EXCEPT
                          !.at = "register", !.session = made', !.realm = {r}]]
  /\ UNCHANGED <<up, userVars, missing>>

\* SyncUser::register_session, under the mutex of the user.
RegisterSession(t) ==
  /\ thread[t].at = "register" /\ Free("user")
  /\ \/ /\ user = "active"
        /\ userSession' = thread[t].session
        /\ Goes(t, "revive")
        /\ UNCHANGED userWaiting
     \/ /\ user = "loggedOut"
        /\ userWaiting' = thread[t].session
        /\ Goes(t, "refer")
        /\ UNCHANGED userSession
     \/ /\ user = "error"
        /\ Goes(t, "refer")
        /\ UNCHANGED <<userSession, userWaiting>>
  /\ UNCHANGED <<owner, registered, made, up, refs, user, missing>>

\* SyncSession::revive_if_needed, by a thread that registers or logs in.
Revive(t) ==
  /\ thread[t].at \in {"revive", "reviveAfterLogin"} /\ Free("state")
  /\ up' = up \cup {thread[t].session}
  /\ IF thread[t].at = "revive" THEN Goes(t, "refer") ELSE Rests(t)
  /\ UNCHANGED <<owner, registered, made, refs, userVars, missing>>

\* SyncSession::external_reference, and get_session returns.
Refer(t) ==
  /\ thread[t].at = "refer" /\ Free("state")
  /\ refs' = [refs EXCEPT ![thread[t].session] = @ \cup thread[t].realm]
  /\ owner' = [owner EXCEPT !["sessions"] = None]
  /\ Rests(t)
  /\ UNCHANGED <<registered, made, up, userVars, missing>>

-------------------------------------------------------------------------------
\* ~ExternalReference, for a Realm r that is closed.

DropReference(t, r) ==
  /\ thread[t] = Idle
  /\ Unused(r)
  /\ \E s \in Sessions :
       /\ r \in refs[s]
       /\ refs' = [refs EXCEPT ![s] = @ \ {r}]
       /\ thread' = [thread EXCEPT ![t] =
            IF refs[s] = {r} THEN [Idle EXCEPT !.at = "close", !.session = s] ELSE Idle]
  /\ UNCHANGED <<owner, registered, made, up, userVars, missing>>

\* Faulty: the session is unregistered under its own mutex.
CloseUnderMutex(t) ==
  /\ thread[t].at = "close" /\ Free("state")
  /\ IF refs[thread[t].session] # {}
     THEN Rests(t) /\ UNCHANGED <<up, owner>>
     ELSE /\ up' = up \ {thread[t].session}
          /\ owner' = [owner EXCEPT !["state"] = t]
          /\ Goes(t, "unregister")
  /\ UNCHANGED <<registered, made, refs, userVars, missing>>

\* SyncSession::did_drop_external_reference and State::close.
Close(t) ==
  /\ thread[t].at = "close" /\ Free("state")
  /\ IF refs[thread[t].session] # {}
     THEN Rests(t) /\ UNCHANGED up
     ELSE /\ up' = up \ {thread[t].session}
          /\ Goes(t, "unregister")
  /\ UNCHANGED <<owner, registered, made, refs, userVars, missing>>

Unregistered(t) ==
  IF thread[t].loggingOut THEN Goes(t, "loggedOut") ELSE Rests(t)

\* Faulty: the entry goes although the session is referenced.
UnregisterReferenced(t) ==
  /\ thread[t].at = "unregister" /\ Free("sessions") /\ Free("state")
  /\ missing' = (registered = NoSession)
  /\ registered' = NoSession
  /\ Unregistered(t)
  /\ UNCHANGED <<owner, made, up, refs, userVars>>

\* SyncSession::unregister and SyncManager::unregister_session, which knows the
\* session by its path only. It looks for an external reference by taking one.
Unregister(t) ==
  /\ thread[t].at = "unregister" /\ Free("sessions") /\ Free("state")
  /\ missing' = (registered = NoSession)
  /\ IF registered # NoSession /\ refs[registered] # {}
     THEN /\ refs' = [refs EXCEPT ![registered] = @ \cup {t}]
          /\ owner' = [owner EXCEPT !["sessions"] = t]
          /\ Goes(t, "leave")
          /\ UNCHANGED registered
     ELSE /\ registered' = NoSession
          /\ Unregistered(t)
          /\ UNCHANGED <<refs, owner>>
  /\ UNCHANGED <<made, up, userVars>>

\* The reference that was taken is dropped, under the mutex of the manager; it
\* may be the last by now.
LeaveBe(t) ==
  /\ thread[t].at = "leave"
  /\ refs' = [refs EXCEPT ![registered] = @ \ {t}]
  /\ IF refs[registered] = {t}
     THEN /\ thread' = [thread EXCEPT ![t].at = "close", ![t].session = registered]
          /\ UNCHANGED owner
     ELSE /\ Unregistered(t)
          /\ owner' = [owner EXCEPT !["sessions"] = None]
  /\ UNCHANGED <<registered, made, up, userVars, missing>>

-------------------------------------------------------------------------------
\* SyncUser::log_out, which keeps the mutex of the user to its end.

LogOut(t) ==
  /\ thread[t] = Idle /\ Free("user") /\ user # "loggedOut"
  /\ owner' = [owner EXCEPT !["user"] = t]
  /\ user' = "loggedOut"
  /\ thread' = [thread EXCEPT ![t] = [Idle EXCEPT !.loggingOut = TRUE,
        !.at = IF Alive(userSession) THEN "logOutSession" ELSE "loggedOut",
        !.session = IF Alive(userSession) THEN userSession ELSE NoSession]]
  /\ UNCHANGED <<registered, made, up, refs, userSession, userWaiting, missing>>

\* SyncSession::log_out; an inactive session is left alone.
LogOutSession(t) ==
  /\ thread[t].at = "logOutSession" /\ Free("state")
  /\ up' = up \ {thread[t].session}
  /\ Goes(t, IF thread[t].session \in up THEN "unregister" ELSE "loggedOut")
  /\ UNCHANGED <<owner, registered, made, refs, userVars, missing>>

\* Faulty: the session does not wait for the user to log in again.
ForgetSession(t) ==
  /\ thread[t].at = "loggedOut"
  /\ userSession' = NoSession
  /\ owner' = [owner EXCEPT !["user"] = None]
  /\ Rests(t)
  /\ UNCHANGED <<registered, made, up, refs, user, userWaiting, missing>>

\* The end of log_out: the session waits for the user to log in again.
LoggedOut(t) ==
  /\ thread[t].at = "loggedOut"
  /\ userSession' = NoSession
  /\ userWaiting' = IF thread[t].session = NoSession THEN userWaiting
                    ELSE thread[t].session
  /\ owner' = [owner EXCEPT !["user"] = None]
  /\ Rests(t)
  /\ UNCHANGED <<registered, made, up, refs, user, missing>>

\* SyncUser::update_refresh_token; sessions are revived after its mutex is
\* released.
LogIn(t) ==
  /\ thread[t] = Idle /\ Free("user") /\ user = "loggedOut"
  /\ user' = "active"
  /\ userWaiting' = NoSession
  /\ userSession' = IF Alive(userWaiting) THEN userWaiting ELSE userSession
  /\ thread' = [thread EXCEPT ![t] =
       IF Alive(userWaiting)
       THEN [Idle EXCEPT !.at = "reviveAfterLogin", !.session = userWaiting] ELSE Idle]
  /\ UNCHANGED <<owner, registered, made, up, refs, missing>>

\* SyncUser::invalidate
Invalidate(t) ==
  /\ thread[t] = Idle /\ Free("user") /\ user # "error"
  /\ user' = "error"
  /\ UNCHANGED <<owner, thread, registered, made, up, refs, userSession,
                 userWaiting, missing>>

Does(t, op) ==
  \/ op = "get" /\ \E r \in Realms : GetSession(t, r)
  \/ op = "drop" /\ \E r \in Realms : DropReference(t, r)
  \/ op = "logout" /\ LogOut(t)
  \/ op = "login" /\ LogIn(t)
  \/ op = "invalidate" /\ Invalidate(t)

Continues(t) ==
  \/ RegisterSession(t) \/ Revive(t) \/ Refer(t)
  \/ Close(t) \/ Unregister(t) \/ LeaveBe(t)
  \/ LogOutSession(t) \/ LoggedOut(t)

Step(t) == Continues(t) \/ \E op \in Operations : Does(t, op)

\* A failed assertion ends the process.
Next ==
  /\ ~missing
  /\ \E t \in Threads :
       /\ Step(t)
       /\ disturbed' = (\/ disturbed \/ user' = "error"
                        \/ \E u \in Threads \ {t} : thread[u] # Idle)

Spec == Init /\ [][Next]_vars

-------------------------------------------------------------------------------
(* Properties.                                                               *)

Ats == {"idle", "register", "revive", "refer", "close", "unregister", "leave",
        "logOutSession", "loggedOut", "reviveAfterLogin"}

\* Every variable stays in its domain.
TypeOK ==
  /\ owner \in [Mutexes -> Threads \cup {None}]
  /\ thread \in [Threads -> [at : Ats, session : Sessions \cup {NoSession},
                             realm : SUBSET Realms, loggingOut : BOOLEAN]]
  /\ registered \in Sessions \cup {NoSession} /\ made \in 0 .. MaxSessions
  /\ up \subseteq Sessions /\ refs \in [Sessions -> SUBSET (Realms \cup Threads)]
  /\ user \in {"active", "loggedOut", "error"}
  /\ {userSession, userWaiting} \subseteq Sessions \cup {NoSession}
  /\ missing \in BOOLEAN /\ disturbed \in BOOLEAN

\* While a Realm is open its session is the one the next Realm gets: whatever
\* threads drop, unregister and log out meanwhile, get_session does not make a
\* second session for the file beside one that is referenced.
ReferencedIsRegistered ==
  \A s \in Sessions : refs[s] # {} => registered = s

\* Whoever opens a Realm, or looks for a reference, keeps the mutex of the
\* manager and the entry of the map; only a thread that logs the user out keeps
\* the mutex of the user; the mutex of a session is never kept.
LocksAreKept ==
  /\ owner["state"] = None
  /\ owner["user"] # None => thread[owner["user"]].loggingOut
  /\ \A t \in Threads :
       /\ thread[t].at \in {"register", "revive", "refer"} =>
            owner["sessions"] = t /\ registered = thread[t].session
       /\ thread[t].at \in {"register", "revive", "refer", "reviveAfterLogin"} =>
            ~thread[t].loggingOut /\ thread[t].session # NoSession
       /\ thread[t].at = "leave" => owner["sessions"] = t /\ registered # NoSession
       /\ thread[t].at = "close" /\ thread[t].loggingOut =>
            /\ owner["sessions"] = t /\ thread[t].session # NoSession
            /\ refs[thread[t].session] = {}

\* The inductive invariant.
ManagerInv == TypeOK /\ ReferencedIsRegistered /\ LocksAreKept

\* The mutexes thread t waits for.
WaitsFor(t) ==
  CASE thread[t].at = "register" -> {"user"}
    [] thread[t].at = "unregister" -> {"sessions", "state"}
    [] thread[t].at \in {"revive", "reviveAfterLogin", "refer", "close",
                         "logOutSession"} -> {"state"}
    [] OTHER -> {}

InCircle(t, u) ==
  /\ t # u
  /\ \E m \in WaitsFor(t) : owner[m] = u
  /\ \E m \in WaitsFor(u) : owner[m] = t

\* What is done after releasing a lock, as sync_user.cpp:141 and sync_session.cpp:367
\* say, keeps threads from waiting for each other's mutexes in a circle.
NoCircularWait == \A t, u \in Threads : ~InCircle(t, u)

\* Threads that open and close Realms and log in never wait for each other in a
\* circle: it takes one that logs the user out.
CirclesNeedLogOut ==
  \A t, u \in Threads : InCircle(t, u) => thread[t].loggingOut \/ thread[u].loggingOut

Quiet == \A t \in Threads : thread[t] = Idle

\* As long as the operations of threads do not overlap, however they follow each
\* other, and the user stays valid: when none is under way, the session of an
\* open Realm is up if its user is logged in, no session is up that nobody refers
\* to or whose user is logged out, and at no time are two up; unregister_session
\* finds its entry, and no thread waits for a mutex it keeps.
InTurnAllIsWell ==
  ~disturbed =>
    /\ Quiet /\ user = "active" => \A s \in Sessions : refs[s] # {} => s \in up
    /\ Quiet => \A s \in up : refs[s] # {}
    /\ Quiet /\ user = "loggedOut" => up = {}
    /\ Cardinality(up) <= 1
    /\ ~missing
    /\ \A t \in Threads : \A m \in WaitsFor(t) : owner[m] # t
===============================================================================
