--------------------------- MODULE SyncManagerProofs ---------------------------
(***************************************************************************)
(* The mutexes of the sync manager protect what they are there for, for    *)
(* any number of threads, Realms and sessions.                             *)
(***************************************************************************)
EXTENDS SyncManager, FiniteSetTheorems, TLAPS

\* The part of LocksAreKept that is about one thread.
Keeps(t) ==
  /\ thread[t].at \in {"register", "revive", "refer"} =>
       owner["sessions"] = t /\ registered = thread[t].session
  /\ thread[t].at \in {"register", "revive", "refer", "reviveAfterLogin"} =>
       ~thread[t].loggingOut /\ thread[t].session # NoSession
  /\ thread[t].at = "leave" => owner["sessions"] = t /\ registered # NoSession
  /\ thread[t].at = "close" /\ thread[t].loggingOut =>
       /\ owner["sessions"] = t /\ thread[t].session # NoSession
       /\ refs[thread[t].session] = {}

\* The records threads go through.
ThreadStates == [at : Ats, session : Sessions \cup {NoSession},
                 realm : SUBSET Realms, loggingOut : BOOLEAN]

\* The initial state satisfies the invariant.
LEMMA InitManagerInv == Init => ManagerInv
<1> SUFFICES ASSUME Init PROVE ManagerInv
  OBVIOUS
<1>1. TypeOK
  <2>1. owner \in [Mutexes -> Threads \cup {None}]
    BY DEF Init
  <2>2. Idle \in ThreadStates
    BY DEF Idle, ThreadStates, Ats
  <2>3. thread \in [Threads -> ThreadStates]
    BY <2>2 DEF Init
  <2>4. /\ registered \in Sessions \cup {NoSession} /\ made \in 0 .. MaxSessions
        /\ {userSession, userWaiting} \subseteq Sessions \cup {NoSession}
    BY ManagerAssumption DEF Init
  <2>5. up \subseteq Sessions /\ refs \in [Sessions -> SUBSET (Realms \cup Threads)]
    BY DEF Init
  <2>6. /\ user \in {"active", "loggedOut", "error"}
        /\ missing \in BOOLEAN /\ disturbed \in BOOLEAN
    BY DEF Init
  <2> QED BY <2>1, <2>3, <2>4, <2>5, <2>6 DEF TypeOK, ThreadStates
<1>2. ReferencedIsRegistered
  BY DEF Init, ReferencedIsRegistered
<1>3. LocksAreKept
  <2>1. \A m \in Mutexes : owner[m] = None
    BY DEF Init
  <2>2. \A t \in Threads : thread[t].at = "idle"
    BY DEF Init, Idle
  <2> QED BY <2>1, <2>2 DEF LocksAreKept, Mutexes
<1> QED BY <1>1, <1>2, <1>3 DEF ManagerInv

\* A thread that rests, and one that has dropped the last reference.
LEMMA IdleStates ==
  /\ Idle \in ThreadStates /\ Idle.at = "idle" /\ Idle.loggingOut = FALSE
  /\ \A s \in Sessions, at \in Ats :
       LET q == [Idle EXCEPT !.at = at, !.session = s]
       IN  q \in ThreadStates /\ q.at = at /\ q.session = s /\ q.loggingOut = FALSE
  BY DEF Idle, ThreadStates, Ats

\* Setting the place of a thread leaves a record of a thread.
LEMMA GoesType ==
  ASSUME TypeOK, NEW t \in Threads, NEW at \in Ats, Goes(t, at)
  PROVE  /\ thread' \in [Threads -> ThreadStates]
         /\ thread'[t] = [thread[t] EXCEPT !.at = at]
         /\ \A u \in Threads \ {t} : thread'[u] = thread[u]
         /\ thread'[t].at = at /\ thread'[t].session = thread[t].session
         /\ thread'[t].realm = thread[t].realm
         /\ thread'[t].loggingOut = thread[t].loggingOut
  BY DEF TypeOK, Goes, ThreadStates

\* So does resting.
LEMMA RestsType ==
  ASSUME TypeOK, NEW t \in Threads, Rests(t)
  PROVE  /\ thread' \in [Threads -> ThreadStates]
         /\ thread'[t] = Idle
         /\ \A u \in Threads \ {t} : thread'[u] = thread[u]
         /\ thread'[t].at = "idle" /\ thread'[t].loggingOut = FALSE
  BY DEF TypeOK, Rests, ThreadStates, Idle, Ats, NoSession

\* get_session begins with the mutex of the manager free, and keeps it.
LEMMA GetSessionKeeps ==
  ASSUME ManagerInv, NEW t \in Threads, NEW r \in Realms, GetSession(t, r),
         disturbed' \in BOOLEAN
  PROVE  ManagerInv'
<1> USE DEF ManagerInv
<1>1. /\ owner' = [owner EXCEPT !["sessions"] = t] /\ owner["sessions"] = None
      /\ thread[t] = Idle
      /\ UNCHANGED <<up, user, userSession, userWaiting, missing>>
  BY DEF GetSession, Free, userVars
<1>2. \A u \in Threads : thread[u].at \notin {"register", "revive", "refer", "leave"}
        /\ ~(thread[u].at = "close" /\ thread[u].loggingOut)
  BY <1>1, ManagerAssumption DEF LocksAreKept
<1>3. thread[t].loggingOut = FALSE
  BY <1>1 DEF Idle
<1>4. CASE registered # NoSession
  <2>1. /\ thread' = [thread EXCEPT ![t] = [at |-> "register", session |-> registered,
                                            realm |-> {r}, loggingOut |-> FALSE]]
        /\ UNCHANGED <<registered, made, refs>>
    BY <1>4 DEF GetSession, Idle
  <2>2. TypeOK'
    BY <1>1, <2>1, <1>4 DEF TypeOK, Ats, Mutexes
  <2>3. ReferencedIsRegistered'
    BY <2>1 DEF ReferencedIsRegistered
  <2>4. LocksAreKept'
    BY <1>1, <1>2, <1>3, <1>4, <2>1, ManagerAssumption DEF LocksAreKept, TypeOK, Mutexes
  <2> QED BY <2>2, <2>3, <2>4
<1>5. CASE registered = NoSession
  <2>1. /\ thread' = [thread EXCEPT ![t] = [at |-> "register", session |-> made + 1,
                                            realm |-> {r}, loggingOut |-> FALSE]]
        /\ made < MaxSessions /\ made' = made + 1 /\ registered' = made + 1
        /\ refs' = [refs EXCEPT ![made + 1] = {r}]
    BY <1>5 DEF GetSession, Idle
  <2>2. made + 1 \in Sessions /\ made' \in 0 .. MaxSessions
    BY <2>1, ManagerAssumption DEF TypeOK, Sessions
  <2>3. TypeOK'
    BY <1>1, <2>1, <2>2 DEF TypeOK, Ats, Mutexes
  <2>4. ReferencedIsRegistered'
    BY <1>5, <2>1, <2>2 DEF ReferencedIsRegistered, TypeOK, Sessions, NoSession
  <2>5. made + 1 # NoSession
    BY <2>2, ManagerAssumption DEF Sessions, NoSession
  <2>6. LocksAreKept'
    BY <1>1, <1>2, <1>3, <2>1, <2>5, ManagerAssumption DEF LocksAreKept, TypeOK, Mutexes
  <2> QED BY <2>3, <2>4, <2>6
<1> QED BY <1>4, <1>5

\* What follows, up to the reference that get_session takes.
LEMMA OpeningKeeps ==
  ASSUME ManagerInv, NEW t \in Threads,
         RegisterSession(t) \/ Revive(t) \/ Refer(t), disturbed' \in BOOLEAN
  PROVE  ManagerInv'
<1> USE DEF ManagerInv
<1>1. CASE RegisterSession(t)
  <2>1. /\ thread[t].at = "register"
        /\ UNCHANGED <<owner, registered, made, up, refs, user, missing>>
        /\ \E at \in {"revive", "refer"} : Goes(t, at)
    BY <1>1 DEF RegisterSession
  <2>2. thread[t].session \in Sessions \cup {NoSession}
    BY DEF TypeOK
  <2>3. {userSession', userWaiting'} \subseteq Sessions \cup {NoSession}
    BY <1>1, <2>2 DEF RegisterSession, TypeOK
  <2>4. PICK at \in {"revive", "refer"} : Goes(t, at)
    BY <2>1
  <2>5. /\ thread' \in [Threads -> ThreadStates] /\ thread'[t].at = at
        /\ thread'[t].session = thread[t].session
        /\ thread'[t].loggingOut = thread[t].loggingOut
        /\ \A u \in Threads \ {t} : thread'[u] = thread[u]
    BY <2>4, GoesType DEF Ats
  <2>6. TypeOK'
    BY <2>1, <2>3, <2>5 DEF TypeOK, ThreadStates
  <2>7. LocksAreKept'
    BY <2>1, <2>5, ManagerAssumption DEF LocksAreKept, TypeOK, Mutexes
  <2> QED BY <2>1, <2>6, <2>7 DEF ReferencedIsRegistered
<1>2. CASE Revive(t)
  <2>1. /\ thread[t].at \in {"revive", "reviveAfterLogin"}
        /\ up' = up \cup {thread[t].session}
        /\ UNCHANGED <<owner, registered, made, refs, user, userSession, userWaiting,
                       missing>>
    BY <1>2 DEF Revive, userVars
  <2>2. thread[t].session \in Sessions /\ up' \subseteq Sessions
    BY <2>1 DEF LocksAreKept, TypeOK
  <2>3. CASE thread[t].at = "revive"
    <3>1. Goes(t, "refer")
      BY <1>2, <2>3 DEF Revive
    <3>2. /\ thread' \in [Threads -> ThreadStates] /\ thread'[t].at = "refer"
          /\ thread'[t].session = thread[t].session
          /\ thread'[t].loggingOut = thread[t].loggingOut
          /\ \A u \in Threads \ {t} : thread'[u] = thread[u]
      BY <3>1, GoesType DEF Ats
    <3>3. TypeOK'
      BY <2>1, <2>2, <3>2 DEF TypeOK, ThreadStates
    <3>4. LocksAreKept'
      BY <2>1, <2>3, <3>2, ManagerAssumption DEF LocksAreKept, TypeOK, Mutexes
    <3> QED BY <2>1, <3>3, <3>4 DEF ReferencedIsRegistered
  <2>4. CASE thread[t].at = "reviveAfterLogin"
    <3>1. Rests(t)
      BY <1>2, <2>4 DEF Revive
    <3>2. /\ thread' \in [Threads -> ThreadStates] /\ thread'[t].at = "idle"
          /\ \A u \in Threads \ {t} : thread'[u] = thread[u]
      BY <3>1, RestsType
    <3>3. TypeOK'
      BY <2>1, <2>2, <3>2 DEF TypeOK, ThreadStates
    <3>4. LocksAreKept'
      BY <2>1, <2>4, <3>2, ManagerAssumption DEF LocksAreKept, TypeOK, Mutexes
    <3> QED BY <2>1, <3>3, <3>4 DEF ReferencedIsRegistered
  <2> QED BY <2>1, <2>3, <2>4
<1>3. CASE Refer(t)
  <2>1. /\ thread[t].at = "refer" /\ Rests(t)
        /\ refs' = [refs EXCEPT ![thread[t].session] = @ \cup thread[t].realm]
        /\ owner' = [owner EXCEPT !["sessions"] = None]
        /\ UNCHANGED <<registered, made, up, user, userSession, userWaiting, missing>>
    BY <1>3 DEF Refer, userVars
  <2>2. /\ owner["sessions"] = t /\ registered = thread[t].session
        /\ thread[t].session \in Sessions /\ thread[t].loggingOut = FALSE
    BY <2>1 DEF LocksAreKept, TypeOK
  <2>3. /\ thread' \in [Threads -> ThreadStates] /\ thread'[t].at = "idle"
        /\ \A u \in Threads \ {t} : thread'[u] = thread[u]
    BY <2>1, RestsType
  <2>4. refs' \in [Sessions -> SUBSET (Realms \cup Threads)]
    BY <2>1 DEF TypeOK
  <2>5. TypeOK'
    BY <2>1, <2>3, <2>4 DEF TypeOK, ThreadStates
  <2>6. ReferencedIsRegistered'
    BY <2>1, <2>2 DEF ReferencedIsRegistered, TypeOK
  <2>7. LocksAreKept'
    BY <2>1, <2>2, <2>3, ManagerAssumption DEF LocksAreKept, TypeOK, Mutexes
  <2> QED BY <2>5, <2>6, <2>7
<1> QED BY <1>1, <1>2, <1>3

\* A Realm is closed: references only go.
LEMMA DropReferenceKeeps ==
  ASSUME ManagerInv, NEW t \in Threads, NEW r \in Realms, DropReference(t, r),
         disturbed' \in BOOLEAN
  PROVE  ManagerInv'
<1> USE DEF ManagerInv
<1>1. CASE DropReference(t, r)
  <2>1. PICK s \in Sessions :
          /\ r \in refs[s] /\ refs' = [refs EXCEPT ![s] = @ \ {r}]
          /\ thread' = [thread EXCEPT ![t] =
               IF refs[s] = {r} THEN [Idle EXCEPT !.at = "close", !.session = s] ELSE Idle]
    BY <1>1 DEF DropReference
  <2>2. UNCHANGED <<owner, registered, made, up, user, userSession, userWaiting, missing>>
    BY <1>1 DEF DropReference, userVars
  <2>3. thread[t].loggingOut = FALSE /\ thread[t].at = "idle"
    BY <1>1, IdleStates DEF DropReference
  <2>4. refs' \in [Sessions -> SUBSET (Realms \cup Threads)]
        /\ \A q \in Sessions : refs'[q] \subseteq refs[q]
    BY <2>1 DEF TypeOK
  <2>5. /\ thread' \in [Threads -> ThreadStates]
        /\ thread'[t].at \in {"idle", "close"} /\ thread'[t].loggingOut = FALSE
        /\ \A u \in Threads \ {t} : thread'[u] = thread[u]
    <3>1. "close" \in Ats /\ thread \in [Threads -> ThreadStates]
      BY DEF Ats, TypeOK, ThreadStates
    <3>2. CASE refs[s] = {r}
      <4> DEFINE q == [Idle EXCEPT !.at = "close", !.session = s]
      <4>1. q \in ThreadStates /\ q.at = "close" /\ q.loggingOut = FALSE
        BY <3>1, IdleStates
      <4>2. thread' = [thread EXCEPT ![t] = q]
        BY <2>1, <3>2
      <4> QED BY <3>1, <4>1, <4>2
    <3>3. CASE refs[s] # {r}
      BY <2>1, <3>1, <3>3, IdleStates
    <3> QED BY <3>2, <3>3
  <2>6. TypeOK'
    BY <2>2, <2>4, <2>5 DEF TypeOK, ThreadStates
  <2>7. ReferencedIsRegistered'
    BY <2>2, <2>4 DEF ReferencedIsRegistered
  <2>8. LocksAreKept'
    BY <2>2, <2>3, <2>4, <2>5, ManagerAssumption DEF LocksAreKept, TypeOK, Mutexes
  <2> QED BY <2>6, <2>7, <2>8
<1> QED BY <1>1

\* The session of the last reference is closed, unless it is referenced again; a
\* thread that is logging out does not find it so.
LEMMA CloseKeeps ==
  ASSUME ManagerInv, NEW t \in Threads, Close(t), disturbed' \in BOOLEAN
  PROVE  ManagerInv'
<1> USE DEF ManagerInv
<1>2. CASE Close(t)
  <2>1. /\ thread[t].at = "close"
        /\ UNCHANGED <<owner, registered, made, refs, user, userSession, userWaiting,
                       missing>>
        /\ up' \subseteq Sessions
    BY <1>2 DEF Close, userVars, TypeOK
  <2>2. CASE refs[thread[t].session] # {}
    <3>1. Rests(t)
      BY <1>2, <2>2 DEF Close
    <3>2. thread[t].loggingOut = FALSE
      BY <2>1, <2>2 DEF LocksAreKept, TypeOK
    <3>3. /\ thread' \in [Threads -> ThreadStates] /\ thread'[t].at = "idle"
          /\ \A u \in Threads \ {t} : thread'[u] = thread[u]
      BY <3>1, RestsType
    <3>4. TypeOK'
      BY <2>1, <3>3 DEF TypeOK, ThreadStates
    <3>5. LocksAreKept'
      BY <2>1, <3>2, <3>3, ManagerAssumption DEF LocksAreKept, TypeOK, Mutexes
    <3> QED BY <2>1, <3>4, <3>5 DEF ReferencedIsRegistered
  <2>3. CASE refs[thread[t].session] = {}
    <3>1. Goes(t, "unregister")
      BY <1>2, <2>3 DEF Close
    <3>2. /\ thread' \in [Threads -> ThreadStates] /\ thread'[t].at = "unregister"
          /\ thread'[t].loggingOut = thread[t].loggingOut
          /\ \A u \in Threads \ {t} : thread'[u] = thread[u]
      BY <3>1, GoesType DEF Ats
    <3>3. TypeOK'
      BY <2>1, <3>2 DEF TypeOK, ThreadStates
    <3>4. LocksAreKept'
      BY <2>1, <3>2, ManagerAssumption DEF LocksAreKept, TypeOK, Mutexes
    <3> QED BY <2>1, <3>3, <3>4 DEF ReferencedIsRegistered
  <2> QED BY <2>2, <2>3
<1> QED BY <1>2

\* A session leaves the map only when nothing refers to it.
LEMMA UnregisteringKeeps ==
  ASSUME ManagerInv, NEW t \in Threads, Unregister(t) \/ LeaveBe(t),
         disturbed' \in BOOLEAN
  PROVE  ManagerInv'
<1> USE DEF ManagerInv
<1>1. ASSUME Unregistered(t)
      PROVE  /\ thread' \in [Threads -> ThreadStates]
             /\ thread'[t].at = "idle" \/ thread'[t].at = "loggedOut"
             /\ thread'[t].loggingOut = thread[t].loggingOut
             /\ \A u \in Threads \ {t} : thread'[u] = thread[u]
  <2>1. CASE thread[t].loggingOut = TRUE
    BY <1>1, <2>1, GoesType DEF Unregistered, Ats
  <2>2. CASE thread[t].loggingOut = FALSE
    BY <1>1, <2>2, RestsType DEF Unregistered
  <2> QED BY <2>1, <2>2 DEF TypeOK
<1>2. CASE Unregister(t)
  <2>1. /\ thread[t].at = "unregister" /\ owner["sessions"] = None
        /\ missing' \in BOOLEAN
        /\ UNCHANGED <<made, up, user, userSession, userWaiting>>
    BY <1>2 DEF Unregister, userVars, Free
  <2>2. \A u \in Threads : thread[u].at \notin {"register", "revive", "refer", "leave"}
          /\ ~(thread[u].at = "close" /\ thread[u].loggingOut)
    BY <2>1, ManagerAssumption DEF LocksAreKept
  <2>3. CASE registered # NoSession /\ refs[registered] # {}
    <3>1. /\ refs' = [refs EXCEPT ![registered] = @ \cup {t}]
          /\ owner' = [owner EXCEPT !["sessions"] = t]
          /\ Goes(t, "leave") /\ registered' = registered
      BY <1>2, <2>3 DEF Unregister
    <3>2. /\ thread' \in [Threads -> ThreadStates] /\ thread'[t].at = "leave"
          /\ thread'[t].loggingOut = thread[t].loggingOut
          /\ \A u \in Threads \ {t} : thread'[u] = thread[u]
      BY <3>1, GoesType DEF Ats
    <3>3. refs' \in [Sessions -> SUBSET (Realms \cup Threads)]
          /\ \A s \in Sessions : s # registered => refs'[s] = refs[s]
      BY <3>1 DEF TypeOK
    <3>4. TypeOK'
      BY <2>1, <3>1, <3>2, <3>3 DEF TypeOK, ThreadStates
    <3>5. ReferencedIsRegistered'
      BY <3>1, <3>3 DEF ReferencedIsRegistered
    <3>6. LocksAreKept'
      BY <2>2, <2>3, <3>1, <3>2, ManagerAssumption DEF LocksAreKept, TypeOK, Mutexes
    <3> QED BY <3>4, <3>5, <3>6
  <2>4. CASE ~(registered # NoSession /\ refs[registered] # {})
    <3>1. registered' = NoSession /\ Unregistered(t) /\ UNCHANGED <<refs, owner>>
      BY <1>2, <2>4 DEF Unregister
    <3>2. \A s \in Sessions : refs[s] = {}
      BY <2>4, ManagerAssumption DEF ReferencedIsRegistered, Sessions, NoSession
    <3>3. TypeOK'
      BY <2>1, <1>1, <3>1 DEF TypeOK, ThreadStates
    <3>4. ReferencedIsRegistered'
      BY <3>1, <3>2 DEF ReferencedIsRegistered
    <3>5. LocksAreKept'
      BY <2>2, <1>1, <3>1, ManagerAssumption DEF LocksAreKept, TypeOK, Mutexes
    <3> QED BY <3>3, <3>4, <3>5
  <2> QED BY <2>3, <2>4
<1>3. CASE LeaveBe(t)
  <2>1. /\ thread[t].at = "leave"
        /\ refs' = [refs EXCEPT ![registered] = @ \ {t}]
        /\ UNCHANGED <<registered, made, up, user, userSession, userWaiting, missing>>
    BY <1>3 DEF LeaveBe, userVars
  <2>2. owner["sessions"] = t /\ registered \in Sessions /\ registered # NoSession
    BY <2>1 DEF LocksAreKept, TypeOK
  <2>3. /\ refs' \in [Sessions -> SUBSET (Realms \cup Threads)]
        /\ \A s \in Sessions : refs'[s] \subseteq refs[s]
    BY <2>1 DEF TypeOK
  <2>4. ReferencedIsRegistered'
    BY <2>1, <2>3 DEF ReferencedIsRegistered
  <2>5. CASE refs[registered] = {t}
    <3>1. /\ thread' = [thread EXCEPT ![t].at = "close", ![t].session = registered]
          /\ owner' = owner
      BY <1>3, <2>5 DEF LeaveBe
    <3>2. /\ thread' \in [Threads -> ThreadStates] /\ thread'[t].at = "close"
          /\ thread'[t].session = registered
          /\ thread'[t].loggingOut = thread[t].loggingOut
          /\ \A u \in Threads \ {t} : thread'[u] = thread[u]
      <4> DEFINE q == [thread[t] EXCEPT !.at = "close", !.session = registered]
      <4>1. thread \in [Threads -> ThreadStates] /\ "close" \in Ats
        BY DEF TypeOK, ThreadStates, Ats
      <4>2. /\ q \in ThreadStates /\ q.at = "close" /\ q.session = registered
            /\ q.loggingOut = thread[t].loggingOut
        BY <4>1, <2>2 DEF ThreadStates
      <4>3. thread' = [thread EXCEPT ![t] = q]
        BY <3>1, <4>1
      <4> QED BY <4>1, <4>2, <4>3
    <3>3. refs'[registered] = {}
      BY <2>1, <2>2, <2>5 DEF TypeOK
    <3>4. TypeOK'
      BY <2>1, <2>3, <3>1, <3>2 DEF TypeOK, ThreadStates
    <3>5. LocksAreKept'
      BY <2>1, <2>2, <3>1, <3>2, <3>3, ManagerAssumption DEF LocksAreKept, TypeOK, Mutexes
    <3> QED BY <2>4, <3>4, <3>5
  <2>6. CASE refs[registered] # {t}
    <3>1. Unregistered(t) /\ owner' = [owner EXCEPT !["sessions"] = None]
      BY <1>3, <2>6 DEF LeaveBe
    <3>2. TypeOK'
      BY <2>1, <2>3, <1>1, <3>1 DEF TypeOK, ThreadStates
    <3>3. LocksAreKept'
      BY <2>1, <2>2, <2>3, <1>1, <3>1, ManagerAssumption DEF LocksAreKept, TypeOK, Mutexes
    <3> QED BY <2>4, <3>2, <3>3
  <2> QED BY <2>5, <2>6
<1> QED BY <1>2, <1>3

\* Logging out and in and invalidating the user touch neither map nor references.
LEMMA UserKeeps ==
  ASSUME ManagerInv, NEW t \in Threads,
         \/ LogOut(t) \/ LogOutSession(t) \/ LoggedOut(t) \/ LogIn(t) \/ Invalidate(t),
         disturbed' \in BOOLEAN
  PROVE  ManagerInv'
<1> USE DEF ManagerInv
<1>1. thread \in [Threads -> ThreadStates]
  BY DEF TypeOK, ThreadStates
<1>2. CASE LogOut(t)
  <2>1. /\ thread[t] = Idle /\ owner' = [owner EXCEPT !["user"] = t]
        /\ user' = "loggedOut"
        /\ UNCHANGED <<registered, made, up, refs, userSession, userWaiting, missing>>
    BY <1>2 DEF LogOut
  <2>2. PICK q \in ThreadStates :
          /\ thread' = [thread EXCEPT ![t] = q]
          /\ q.at \in {"logOutSession", "loggedOut"} /\ q.loggingOut = TRUE
    <3> DEFINE at == IF Alive(userSession) THEN "logOutSession" ELSE "loggedOut"
               s == IF Alive(userSession) THEN userSession ELSE NoSession
               q == [Idle EXCEPT !.loggingOut = TRUE, !.at = at, !.session = s]
    <3>1. thread' = [thread EXCEPT ![t] = q]
      BY <1>2 DEF LogOut
    <3>2. at \in {"logOutSession", "loggedOut"} /\ s \in Sessions \cup {NoSession}
      BY DEF TypeOK
    <3> HIDE DEF at, s
    <3>3. q \in ThreadStates /\ q.at = at /\ q.loggingOut = TRUE
      BY <3>2 DEF Idle, ThreadStates, Ats
    <3> QED BY <3>1, <3>2, <3>3
  <2>3. /\ thread' \in [Threads -> ThreadStates] /\ thread'[t] = q
        /\ \A u \in Threads \ {t} : thread'[u] = thread[u]
    BY <1>1, <2>2
  <2>4. thread[t].loggingOut = FALSE /\ thread[t].at = "idle"
    BY <2>1, IdleStates
  <2>5. TypeOK'
    BY <2>1, <2>3 DEF TypeOK, ThreadStates, Mutexes
  <2>6. LocksAreKept'
    BY <2>1, <2>2, <2>3, <2>4, ManagerAssumption DEF LocksAreKept, TypeOK, Mutexes
  <2> QED BY <2>1, <2>5, <2>6 DEF ReferencedIsRegistered
<1>3. CASE LogOutSession(t)
  <2>1. /\ thread[t].at = "logOutSession" /\ up' \subseteq Sessions
        /\ UNCHANGED <<owner, registered, made, refs, user, userSession, userWaiting,
                       missing>>
        /\ \E at \in {"unregister", "loggedOut"} : Goes(t, at)
    BY <1>3 DEF LogOutSession, userVars, TypeOK
  <2>2. PICK at \in {"unregister", "loggedOut"} : Goes(t, at)
    BY <2>1
  <2>3. /\ thread' \in [Threads -> ThreadStates] /\ thread'[t].at = at
        /\ thread'[t].loggingOut = thread[t].loggingOut
        /\ \A u \in Threads \ {t} : thread'[u] = thread[u]
    BY <2>2, GoesType DEF Ats
  <2>4. TypeOK'
    BY <2>1, <2>3 DEF TypeOK, ThreadStates
  <2>5. LocksAreKept'
    BY <2>1, <2>3, ManagerAssumption DEF LocksAreKept, TypeOK, Mutexes
  <2> QED BY <2>1, <2>4, <2>5 DEF ReferencedIsRegistered
<1>4. CASE LoggedOut(t)
  <2>1. /\ thread[t].at = "loggedOut" /\ Rests(t)
        /\ owner' = [owner EXCEPT !["user"] = None]
        /\ UNCHANGED <<registered, made, up, refs, user, missing>>
        /\ {userSession', userWaiting'} \subseteq Sessions \cup {NoSession}
    BY <1>4 DEF LoggedOut, TypeOK
  <2>2. /\ thread' \in [Threads -> ThreadStates] /\ thread'[t].at = "idle"
        /\ \A u \in Threads \ {t} : thread'[u] = thread[u]
    BY <2>1, RestsType
  <2>3. TypeOK'
    BY <2>1, <2>2 DEF TypeOK, ThreadStates, Mutexes
  <2>4. LocksAreKept'
    BY <2>1, <2>2, ManagerAssumption DEF LocksAreKept, TypeOK, Mutexes
  <2> QED BY <2>1, <2>3, <2>4 DEF ReferencedIsRegistered
<1>5. CASE LogIn(t)
  <2>1. /\ thread[t] = Idle /\ user' = "active"
        /\ UNCHANGED <<owner, registered, made, up, refs, missing>>
        /\ {userSession', userWaiting'} \subseteq Sessions \cup {NoSession}
    BY <1>5 DEF LogIn, TypeOK
  <2>2. PICK q \in ThreadStates :
          /\ thread' = [thread EXCEPT ![t] = q]
          /\ q.loggingOut = FALSE
          /\ q.at \in {"idle", "reviveAfterLogin"}
          /\ q.at = "reviveAfterLogin" => q.session # NoSession
    <3>1. CASE Alive(userWaiting)
      <4>1. userWaiting \in Sessions /\ userWaiting # NoSession
        BY <3>1 DEF Alive, TypeOK
      <4> DEFINE q == [Idle EXCEPT !.at = "reviveAfterLogin", !.session = userWaiting]
      <4>2. thread' = [thread EXCEPT ![t] = q]
        BY <1>5, <3>1 DEF LogIn
      <4>3. /\ q \in ThreadStates /\ q.at = "reviveAfterLogin"
            /\ q.session = userWaiting /\ q.loggingOut = FALSE
        BY <4>1, IdleStates DEF Ats
      <4> HIDE DEF q
      <4> QED BY <4>1, <4>2, <4>3
    <3>2. CASE ~Alive(userWaiting)
      <4>1. thread' = [thread EXCEPT ![t] = Idle]
        BY <1>5, <3>2 DEF LogIn
      <4>2. Idle \in ThreadStates /\ Idle.at = "idle" /\ Idle.loggingOut = FALSE
        BY IdleStates
      <4> QED BY <4>1, <4>2
    <3> QED BY <3>1, <3>2
  <2>3. /\ thread' \in [Threads -> ThreadStates] /\ thread'[t] = q
        /\ \A u \in Threads \ {t} : thread'[u] = thread[u]
    BY <1>1, <2>2
  <2>4. thread[t].loggingOut = FALSE /\ thread[t].at = "idle"
    BY <2>1, IdleStates
  <2>5. TypeOK'
    BY <2>1, <2>3 DEF TypeOK, ThreadStates
  <2>6. LocksAreKept'
    BY <2>1, <2>2, <2>3, <2>4, ManagerAssumption DEF LocksAreKept, TypeOK, Mutexes
  <2> QED BY <2>1, <2>5, <2>6 DEF ReferencedIsRegistered
<1>6. CASE Invalidate(t)
  <2>1. user' = "error" /\ UNCHANGED <<owner, thread, registered, made, up, refs,
                                       userSession, userWaiting, missing>>
    BY <1>6 DEF Invalidate
  <2>2. TypeOK'
    BY <2>1 DEF TypeOK
  <2> QED BY <2>1, <2>2 DEF ReferencedIsRegistered, LocksAreKept
<1> QED BY <1>2, <1>3, <1>4, <1>5, <1>6

\* Every step keeps the invariant.
LEMMA NextKeepsManagerInv == ManagerInv /\ [Next]_vars => ManagerInv'
<1>1. ASSUME ManagerInv, Next PROVE ManagerInv'
  <2>1. PICK t \in Threads :
          /\ Step(t)
          /\ disturbed' = (\/ disturbed \/ user' = "error"
                           \/ \E u \in Threads \ {t} : thread[u] # Idle)
    BY <1>1 DEF Next
  <2>2. disturbed' \in BOOLEAN
    BY <2>1
  <2>3. CASE \E r \in Realms : GetSession(t, r) \/ DropReference(t, r)
    BY <1>1, <2>2, <2>3, GetSessionKeeps, DropReferenceKeeps
  <2>4. CASE RegisterSession(t) \/ Revive(t) \/ Refer(t)
    BY <1>1, <2>2, <2>4, OpeningKeeps
  <2>5. CASE Close(t)
    BY <1>1, <2>2, <2>5, CloseKeeps
  <2>6. CASE Unregister(t) \/ LeaveBe(t)
    BY <1>1, <2>2, <2>6, UnregisteringKeeps
  <2>7. CASE LogOut(t) \/ LogOutSession(t) \/ LoggedOut(t) \/ LogIn(t) \/ Invalidate(t)
    BY <1>1, <2>2, <2>7, UserKeeps
  <2> QED BY <2>1, <2>3, <2>4, <2>5, <2>6, <2>7 DEF Step, Continues, Does
<1>2. ASSUME ManagerInv, UNCHANGED vars PROVE ManagerInv'
  BY <1>2 DEF vars, ManagerInv, TypeOK, ReferencedIsRegistered, LocksAreKept
<1> QED BY <1>1, <1>2

\* The manager's mutex protects its map, whatever threads do: a referenced session
\* is the registered one, and mutexes are kept as LocksAreKept says.
THEOREM SyncManagerInvariant == Spec => []ManagerInv
<1>1. Init => ManagerInv
  BY InitManagerInv
<1>2. ManagerInv /\ [Next]_vars => ManagerInv'
  BY NextKeepsManagerInv
<1> QED BY <1>1, <1>2, PTL DEF Spec

\* While a Realm is open, the next Realm opened on its file gets its session.
THEOREM SyncManagerReferencedIsRegistered == Spec => []ReferencedIsRegistered
<1>1. ManagerInv => ReferencedIsRegistered
  BY DEF ManagerInv
<1> QED BY <1>1, SyncManagerInvariant, PTL

\* Two threads that wait for each other need different mutexes, and the only one
\* beside the manager's that is kept is kept by a thread that logs out.
LEMMA CircleHasLogOut == ManagerInv => CirclesNeedLogOut
<1> SUFFICES ASSUME ManagerInv, NEW t \in Threads, NEW u \in Threads, InCircle(t, u)
             PROVE  thread[t].loggingOut \/ thread[u].loggingOut
  BY DEF CirclesNeedLogOut
<1>1. \A v \in Threads : WaitsFor(v) \subseteq Mutexes
  BY DEF WaitsFor, Mutexes
<1>2. PICK m \in Mutexes, n \in Mutexes : owner[m] = u /\ owner[n] = t
  BY <1>1 DEF InCircle
<1>3. m # "state" /\ n # "state" /\ m # n
  BY <1>2, ManagerAssumption DEF ManagerInv, LocksAreKept, InCircle
<1>4. owner["user"] = t \/ owner["user"] = u
  BY <1>2, <1>3 DEF Mutexes
<1> QED BY <1>4, ManagerAssumption DEF ManagerInv, LocksAreKept

\* Opening and closing Realms and logging in cannot deadlock on the manager's,
\* the user's and a session's mutex; only logging out can.
THEOREM SyncManagerCirclesNeedLogOut == Spec => []CirclesNeedLogOut
  BY CircleHasLogOut, SyncManagerInvariant, PTL

-------------------------------------------------------------------------------
\* Operations that do not overlap.

\* The user's account of its sessions, to revive or to log out.
Knows(s) == IF user = "active" THEN userSession = s ELSE userWaiting = s

OnlyRealms == \A s \in Sessions : refs[s] \subseteq Realms

\* The session of the map is that of an open Realm.
Opened == registered # NoSession /\ refs[registered] # {}

\* The session that is up when no operation is under way.
UpAtRest == IF user = "active" /\ registered # NoSession THEN {registered} ELSE {}

\* No operation is under way.
AtRest ==
  /\ owner["sessions"] = None /\ OnlyRealms /\ up = UpAtRest
  /\ registered # NoSession => Opened /\ Knows(registered)

\* An operation of thread t is: where it has got to, and what it has done.
Opening(t) ==
  /\ OnlyRealms /\ Opened
  /\ \/ thread[t].at = "register" /\ (user = "loggedOut" => up = {})
     \/ thread[t].at = "revive" /\ user = "active" /\ userSession = registered
     \/ thread[t].at = "refer" /\ Knows(registered) /\ up = UpAtRest

Closing(t) ==
  /\ ~thread[t].loggingOut /\ owner["sessions"] = None
  /\ thread[t].session = registered /\ registered # NoSession
  /\ \A s \in Sessions : refs[s] = {}
  /\ \/ thread[t].at = "close" /\ (user = "loggedOut" => up = {})
     \/ thread[t].at = "unregister" /\ up = {}

\* A thread that logs the user out finds the session of the open Realms or none.
LoggingOut(t) ==
  /\ thread[t].loggingOut /\ user = "loggedOut" /\ thread[t].session = registered
  /\ thread[t].at = "leave" \/ (owner["sessions"] = None /\ OnlyRealms)
  /\ \/ thread[t].at = "logOutSession" /\ Opened /\ up = {registered}
     \/ thread[t].at = "unregister" /\ Opened /\ up = {}
     \/ /\ thread[t].at = "leave" /\ registered # NoSession /\ up = {}
        /\ refs[registered] \ {t} # {} /\ refs[registered] \ {t} \subseteq Realms
     \/ thread[t].at = "loggedOut" /\ (registered # NoSession => Opened) /\ up = {}

LoggingIn(t) ==
  /\ thread[t].at = "reviveAfterLogin" /\ ~thread[t].loggingOut
  /\ user = "active" /\ thread[t].session = registered /\ userSession = registered
  /\ owner["sessions"] = None /\ OnlyRealms /\ Opened /\ up = {}

\* What holds when no thread but t is at work.
Well(t) ==
  /\ up \subseteq {registered} /\ user # "error" /\ ~missing
  /\ IF thread[t] = Idle THEN AtRest
     ELSE Opening(t) \/ Closing(t) \/ LoggingOut(t) \/ LoggingIn(t)

Alone(t) == \A u \in Threads \ {t} : thread[u] = Idle

\* The inductive invariant of operations that do not overlap.
InTurn == ~disturbed => \E t \in Threads : Alone(t) /\ Well(t)

\* A session that is referenced is the one of the map, and a session at all.
LEMMA Referenced ==
  ASSUME ManagerInv
  PROVE  /\ \A s \in Sessions : s # NoSession
         /\ \A s \in Sessions : refs[s] # {} => s = registered
         /\ registered # NoSession => registered \in Sessions
         /\ thread \in [Threads -> ThreadStates]
         /\ refs \in [Sessions -> SUBSET (Realms \cup Threads)]
         /\ Realms \cap Threads = {} /\ None \notin Threads
BY ManagerAssumption
   DEF ManagerInv, ReferencedIsRegistered, TypeOK, ThreadStates, Sessions, NoSession

\* What is known when a thread begins an operation, and in the middle of one.
LEMMA Begins ==
  ASSUME NEW t, Well(t), thread[t] = Idle PROVE AtRest
BY DEF Well

LEMMA Within ==
  ASSUME NEW t, Well(t), thread[t].at # "idle"
  PROVE  Opening(t) \/ Closing(t) \/ LoggingOut(t) \/ LoggingIn(t)
BY DEF Well, Idle

\* It is enough to say where the thread has got to.
LEMMA WellWithin ==
  ASSUME NEW t, up' \subseteq {registered'}, user' # "error", ~missing',
         thread'[t].at # "idle",
         (Opening(t) \/ Closing(t) \/ LoggingOut(t) \/ LoggingIn(t))'
  PROVE  Well(t)'
BY DEF Well, Idle

LEMMA WellAtRest ==
  ASSUME NEW t, up' \subseteq {registered'}, user' # "error", ~missing',
         thread'[t] = Idle, AtRest'
  PROVE  Well(t)'
BY DEF Well

\* get_session finds the session of the open Realms or makes one.
LEMMA GetSessionWell ==
  ASSUME ManagerInv, NEW t \in Threads, Well(t), NEW r \in Realms, GetSession(t, r)
  PROVE  Well(t)'
<1>1. AtRest /\ up \subseteq {registered} /\ user # "error" /\ ~missing
  BY DEF GetSession, Well
<1>2. UNCHANGED <<up, user, userSession, userWaiting, missing>>
  BY DEF GetSession, userVars
<1>3. CASE registered # NoSession
  <2>1. /\ thread' = [thread EXCEPT ![t] = [Idle EXCEPT
                          !.at = "register", !.session = registered, !.realm = {r}]]
        /\ UNCHANGED <<registered, refs>>
    BY <1>3 DEF GetSession
  <2>2. thread'[t].at = "register"
    BY <2>1, Referenced DEF Idle
  <2>3. Opening(t)'
    BY <1>1, <1>2, <1>3, <2>1, <2>2 DEF AtRest, Opening, OnlyRealms, Opened, UpAtRest
  <2> QED
    BY <1>1, <1>2, <2>1, <2>2, <2>3, WellWithin
<1>4. CASE registered = NoSession
  <2>1. /\ made < MaxSessions /\ registered' = made + 1
        /\ refs' = [refs EXCEPT ![made + 1] = {r}]
        /\ thread' = [thread EXCEPT ![t] = [Idle EXCEPT
                        !.at = "register", !.session = made', !.realm = {r}]]
    BY <1>4 DEF GetSession
  <2>2. made + 1 \in Sessions /\ made + 1 # NoSession
    BY <2>1, ManagerAssumption DEF ManagerInv, TypeOK, Sessions, NoSession
  <2>3. thread'[t].at = "register"
    BY <2>1, Referenced DEF Idle
  <2>4. up' = {}
    BY <1>1, <1>2, <1>4 DEF AtRest, UpAtRest
  <2>5. refs'[made + 1] = {r} /\ \A s \in Sessions : refs'[s] = {r} \/ refs'[s] = refs[s]
    BY <2>1, <2>2, Referenced
  <2>6. OnlyRealms'
    BY <1>1, <2>5 DEF AtRest, OnlyRealms
  <2>7. Opening(t)'
    BY <2>1, <2>2, <2>3, <2>4, <2>5, <2>6 DEF Opening, Opened
  <2> QED
    BY <1>1, <1>2, <2>3, <2>4, <2>7, WellWithin
<1> QED
  BY <1>3, <1>4

\* The last Realm that is closed leaves a session that nobody refers to.
LEMMA DropReferenceWell ==
  ASSUME ManagerInv, NEW t \in Threads, Well(t), NEW r \in Realms, DropReference(t, r)
  PROVE  Well(t)'
<1>1. AtRest /\ up \subseteq {registered} /\ user # "error" /\ ~missing
  BY DEF DropReference, Well
<1>2. UNCHANGED <<owner, registered, up, user, userSession, userWaiting, missing>>
  BY DEF DropReference, userVars
<1>3. PICK s \in Sessions :
        /\ r \in refs[s]
        /\ refs' = [refs EXCEPT ![s] = @ \ {r}]
        /\ thread' = [thread EXCEPT ![t] =
             IF refs[s] = {r} THEN [Idle EXCEPT !.at = "close", !.session = s] ELSE Idle]
  BY DEF DropReference
<1>4. s = registered /\ registered # NoSession
  BY <1>3, Referenced
<1>5. refs'[s] = refs[s] \ {r} /\ \A x \in Sessions \ {s} : refs'[x] = refs[x]
  BY <1>3, Referenced
<1>6. CASE refs[s] = {r}
  <2>1. thread'[t] = [Idle EXCEPT !.at = "close", !.session = s]
    BY <1>3, <1>6, Referenced
  <2>2. thread'[t].at = "close" /\ thread'[t].session = s /\ ~thread'[t].loggingOut
    BY <2>1 DEF Idle
  <2>3. \A x \in Sessions : refs'[x] = {}
    BY <1>4, <1>5, <1>6, Referenced
  <2>4. user = "loggedOut" => up = {}
    BY <1>1 DEF AtRest, UpAtRest
  <2>5. Closing(t)'
    BY <1>1, <1>2, <1>4, <2>2, <2>3, <2>4 DEF AtRest, Closing
  <2> QED
    BY <1>1, <1>2, <2>2, <2>5, WellWithin
<1>7. CASE refs[s] # {r}
  <2>1. thread'[t] = Idle
    BY <1>3, <1>7, Referenced
  <2>2. refs'[s] # {}
    BY <1>3, <1>5, <1>7
  <2>3. AtRest'
    BY <1>1, <1>2, <1>4, <1>5, <2>2 DEF AtRest, OnlyRealms, Opened, Knows, UpAtRest
  <2> QED
    BY <1>1, <1>2, <2>1, <2>3, WellAtRest
<1> QED
  BY <1>6, <1>7

\* The user takes the session up, which is revived if the user is logged in, and
\* the Realm takes its reference.
LEMMA OpeningWell ==
  ASSUME ManagerInv, NEW t \in Threads, Well(t),
         RegisterSession(t) \/ Revive(t) \/ Refer(t)
  PROVE  Well(t)'
<1>1. up \subseteq {registered} /\ user # "error" /\ ~missing
  BY DEF Well
<1>2. thread[t].at \in {"register", "revive", "refer", "reviveAfterLogin"}
  BY DEF RegisterSession, Revive, Refer
<1>3. Opening(t) \/ LoggingIn(t)
  BY <1>2, Within DEF Closing, LoggingOut
<1>4. thread[t].at # "reviveAfterLogin" => registered = thread[t].session
  BY <1>2 DEF ManagerInv, LocksAreKept
<1>5. CASE RegisterSession(t)
  <2>1. /\ thread[t].at = "register"
        /\ UNCHANGED <<owner, registered, up, refs, user, missing>>
    BY <1>5 DEF RegisterSession
  <2>2. Opening(t) /\ (user = "loggedOut" => up = {})
    BY <1>3, <2>1 DEF Opening, LoggingIn
  <2>3. CASE user = "active" /\ userSession' = thread[t].session /\ Goes(t, "revive")
    <3>1. thread'[t].at = "revive"
      BY <2>3, GoesType DEF ManagerInv, Ats
    <3>2. Opening(t)'
      BY <1>4, <2>1, <2>2, <2>3, <3>1 DEF Opening, OnlyRealms, Opened
    <3> QED
      BY <1>1, <2>1, <3>1, <3>2, WellWithin
  <2>4. CASE user = "loggedOut" /\ userWaiting' = thread[t].session /\ Goes(t, "refer")
    <3>1. thread'[t].at = "refer"
      BY <2>4, GoesType DEF ManagerInv, Ats
    <3>2. Opening(t)'
      BY <1>4, <2>1, <2>2, <2>4, <3>1
         DEF Opening, OnlyRealms, Opened, Knows, UpAtRest
    <3> QED
      BY <1>1, <2>1, <3>1, <3>2, WellWithin
  <2> QED
    BY <1>1, <1>5, <2>3, <2>4 DEF RegisterSession
<1>6. CASE Revive(t)
  <2>1. /\ up' = up \cup {thread[t].session}
        /\ UNCHANGED <<owner, registered, refs, user, userSession, userWaiting, missing>>
        /\ thread[t].at \in {"revive", "reviveAfterLogin"}
    BY <1>6 DEF Revive, userVars
  <2>2. thread[t].session = registered /\ user = "active" /\ userSession = registered
        /\ OnlyRealms /\ Opened
    BY <1>3, <1>4, <2>1 DEF Opening, LoggingIn
  <2>3. up' = {registered} /\ up' = UpAtRest'
    BY <1>1, <2>1, <2>2 DEF UpAtRest, Opened
  <2>4. CASE thread[t].at = "revive"
    <3>1. thread'[t].at = "refer"
      BY <1>6, <2>4, GoesType DEF Revive, ManagerInv, Ats
    <3>2. Opening(t)'
      BY <2>1, <2>2, <2>3, <3>1 DEF Opening, OnlyRealms, Opened, Knows
    <3> QED
      BY <1>1, <2>1, <2>3, <3>1, <3>2, WellWithin
  <2>5. CASE thread[t].at = "reviveAfterLogin"
    <3>1. thread'[t] = Idle
      BY <1>6, <2>5, RestsType DEF Revive, ManagerInv
    <3>2. owner["sessions"] = None
      BY <1>3, <2>5 DEF Opening, LoggingIn
    <3>3. AtRest'
      BY <2>1, <2>2, <2>3, <3>2 DEF AtRest, OnlyRealms, Opened, Knows
    <3> QED
      BY <1>1, <2>1, <2>3, <3>1, <3>3, WellAtRest
  <2> QED
    BY <2>1, <2>4, <2>5
<1>7. CASE Refer(t)
  <2>1. /\ thread[t].at = "refer"
        /\ refs' = [refs EXCEPT ![thread[t].session] = @ \cup thread[t].realm]
        /\ owner' = [owner EXCEPT !["sessions"] = None]
        /\ Rests(t)
        /\ UNCHANGED <<registered, up, user, userSession, userWaiting, missing>>
    BY <1>7 DEF Refer, userVars
  <2>2. OnlyRealms /\ Opened /\ Knows(registered) /\ up = UpAtRest
    BY <1>3, <2>1 DEF Opening, LoggingIn
  <2>3. thread[t].realm \subseteq Realms /\ owner'["sessions"] = None
    BY <2>1, Referenced DEF ThreadStates, ManagerInv, TypeOK, Mutexes
  <2>4. \A s \in Sessions : refs[s] \subseteq refs'[s] /\ refs'[s] \subseteq refs[s] \cup Realms
    BY <2>1, <2>3, Referenced
  <2>5. OnlyRealms'
    BY <2>2, <2>4 DEF OnlyRealms
  <2>6. Opened'
    BY <2>1, <2>2, <2>4, Referenced DEF Opened
  <2>7. AtRest'
    BY <2>1, <2>2, <2>3, <2>5, <2>6 DEF AtRest, Knows, UpAtRest
  <2>8. thread'[t] = Idle
    BY <2>1, RestsType DEF ManagerInv
  <2> QED
    BY <1>1, <2>1, <2>7, <2>8, WellAtRest
<1> QED
  BY <1>5, <1>6, <1>7

\* The session that nobody refers to becomes inactive and leaves the map.
LEMMA CloseWell ==
  ASSUME ManagerInv, NEW t \in Threads, Well(t), Close(t) PROVE Well(t)'
<1>1. up \subseteq {registered} /\ user # "error" /\ ~missing /\ thread[t].at = "close"
  BY DEF Well, Close
<1>2. Closing(t)
  BY <1>1, Within DEF Opening, LoggingOut, LoggingIn
<1>3. registered \in Sessions /\ refs[registered] = {} /\ thread[t].session = registered
  BY <1>2, Referenced DEF Closing
<1>4. /\ up' = up \ {registered} /\ Goes(t, "unregister")
      /\ UNCHANGED <<owner, registered, refs, user, missing>>
  BY <1>3 DEF Close, userVars
<1>5. /\ thread'[t].at = "unregister" /\ thread'[t].session = thread[t].session
      /\ thread'[t].loggingOut = thread[t].loggingOut
  BY <1>4, GoesType DEF ManagerInv, Ats
<1>6. up' = {}
  BY <1>1, <1>4
<1>7. Closing(t)'
  BY <1>2, <1>4, <1>5, <1>6 DEF Closing
<1> QED
  BY <1>1, <1>4, <1>5, <1>6, <1>7, WellWithin

\* unregister_session finds its entry: that of a session nobody refers to goes,
\* that of an open Realm is left, with a reference of the thread's own for a while.
LEMMA UnregisterWell ==
  ASSUME ManagerInv, NEW t \in Threads, Well(t), Unregister(t) PROVE Well(t)'
<1>1. up \subseteq {registered} /\ user # "error" /\ ~missing
      /\ thread[t].at = "unregister" /\ missing' = (registered = NoSession)
      /\ UNCHANGED <<made, up, user, userSession, userWaiting>>
  BY DEF Well, Unregister, userVars
<1>2. Closing(t) \/ LoggingOut(t)
  BY <1>1, Within DEF Opening, LoggingIn
<1>3. CASE Closing(t)
  <2>1. registered \in Sessions /\ refs[registered] = {} /\ ~thread[t].loggingOut /\ up = {}
    BY <1>1, <1>3, Referenced DEF Closing
  <2>2. registered' = NoSession /\ Unregistered(t) /\ UNCHANGED <<refs, owner>>
    BY <2>1 DEF Unregister
  <2>3. thread'[t] = Idle
    BY <2>1, <2>2, RestsType DEF Unregistered, ManagerInv
  <2>4. AtRest'
    BY <1>1, <1>3, <2>1, <2>2 DEF Closing, AtRest, OnlyRealms, UpAtRest
  <2>5. ~missing'
    BY <1>1, <1>3 DEF Closing
  <2> QED
    BY <1>1, <2>1, <2>3, <2>4, <2>5, WellAtRest
<1>4. CASE LoggingOut(t)
  <2>1. Opened /\ OnlyRealms /\ up = {} /\ user = "loggedOut"
        /\ thread[t].loggingOut /\ thread[t].session = registered
    BY <1>1, <1>4 DEF LoggingOut
  <2>2. /\ refs' = [refs EXCEPT ![registered] = @ \cup {t}]
        /\ Goes(t, "leave") /\ registered' = registered
    BY <2>1 DEF Unregister, Opened
  <2>3. /\ thread'[t].at = "leave" /\ thread'[t].session = thread[t].session
        /\ thread'[t].loggingOut = thread[t].loggingOut
    BY <2>2, GoesType DEF ManagerInv, Ats
  <2>4. registered \in Sessions /\ registered # NoSession
    BY <2>1, Referenced DEF Opened
  <2>5. refs'[registered] = refs[registered] \cup {t} /\ refs[registered] \subseteq Realms
    BY <2>1, <2>2, <2>4, Referenced DEF OnlyRealms
  <2>6. refs'[registered] \ {t} = refs[registered]
    BY <2>5, Referenced
  <2>7. LoggingOut(t)'
    BY <1>1, <2>1, <2>2, <2>3, <2>4, <2>5, <2>6 DEF LoggingOut, Opened
  <2>8. ~missing'
    BY <1>1, <2>4
  <2> QED
    BY <1>1, <2>2, <2>3, <2>7, <2>8, WellWithin
<1> QED
  BY <1>2, <1>3, <1>4

\* The thread's own reference is never the last.
LEMMA LeaveBeWell ==
  ASSUME ManagerInv, NEW t \in Threads, Well(t), LeaveBe(t) PROVE Well(t)'
<1>1. up \subseteq {registered} /\ user # "error" /\ ~missing /\ thread[t].at = "leave"
      /\ refs' = [refs EXCEPT ![registered] = @ \ {t}]
      /\ UNCHANGED <<registered, up, user, missing>>
  BY DEF Well, LeaveBe, userVars
<1>2. LoggingOut(t)
  BY <1>1, Within DEF Opening, Closing, LoggingIn
<1>3. /\ thread[t].loggingOut /\ user = "loggedOut" /\ thread[t].session = registered
      /\ registered # NoSession /\ up = {}
      /\ refs[registered] \ {t} # {} /\ refs[registered] \ {t} \subseteq Realms
  BY <1>1, <1>2 DEF LoggingOut
<1>4. Goes(t, "loggedOut") /\ owner' = [owner EXCEPT !["sessions"] = None]
  BY <1>3 DEF LeaveBe, Unregistered
<1>5. /\ thread'[t].at = "loggedOut" /\ thread'[t].session = thread[t].session
      /\ thread'[t].loggingOut = thread[t].loggingOut
  BY <1>4, GoesType DEF ManagerInv, Ats
<1>6. owner'["sessions"] = None
  BY <1>4 DEF ManagerInv, TypeOK, Mutexes
<1>7. registered \in Sessions
  BY <1>3, Referenced
<1>8. refs'[registered] = refs[registered] \ {t}
      /\ \A s \in Sessions \ {registered} : refs'[s] = refs[s]
  BY <1>1, <1>7, Referenced
<1>9. OnlyRealms'
  BY <1>3, <1>8, Referenced DEF OnlyRealms
<1>10. LoggingOut(t)'
  BY <1>1, <1>3, <1>5, <1>6, <1>8, <1>9 DEF LoggingOut, Opened
<1> QED
  BY <1>1, <1>5, <1>10, WellWithin

\* log_out finds the session of the open Realms, if there are any, makes it
\* inactive and keeps it for the user to log in again.
LEMMA LogOutWell ==
  ASSUME ManagerInv, NEW t \in Threads, Well(t), Alone(t),
         LogOut(t) \/ LogOutSession(t) \/ LoggedOut(t)
  PROVE  Well(t)'
<1>1. up \subseteq {registered} /\ user # "error" /\ ~missing
  BY DEF Well
<1>2. CASE LogOut(t)
  <2>1. /\ thread[t] = Idle /\ user # "loggedOut" /\ user' = "loggedOut"
        /\ owner' = [owner EXCEPT !["user"] = t]
        /\ thread' = [thread EXCEPT ![t] = [Idle EXCEPT !.loggingOut = TRUE,
             !.at = IF Alive(userSession) THEN "logOutSession" ELSE "loggedOut",
             !.session = IF Alive(userSession) THEN userSession ELSE NoSession]]
        /\ UNCHANGED <<registered, up, refs, userSession, userWaiting, missing>>
    BY <1>2 DEF LogOut
  <2>2. AtRest
    BY <2>1, Begins
  <2>3. user = "active"
    BY <1>1, <2>1 DEF ManagerInv, TypeOK
  <2>4. owner'["sessions"] = None
    BY <2>1, <2>2 DEF AtRest, ManagerInv, TypeOK, Mutexes
  <2>5. OnlyRealms'
    BY <2>1, <2>2 DEF AtRest, OnlyRealms
  <2>6. thread'[t] = [Idle EXCEPT !.loggingOut = TRUE,
           !.at = IF Alive(userSession) THEN "logOutSession" ELSE "loggedOut",
           !.session = IF Alive(userSession) THEN userSession ELSE NoSession]
    BY <2>1, Referenced
  <2>7. CASE registered # NoSession
    <3>1. userSession = registered /\ Opened /\ up = {registered}
      BY <2>2, <2>3, <2>7 DEF AtRest, Knows, UpAtRest
    <3>2. Alive(userSession)
      BY <2>7, <3>1 DEF Alive
    <3>3. /\ thread'[t].at = "logOutSession" /\ thread'[t].session = registered
          /\ thread'[t].loggingOut
      BY <2>6, <3>1, <3>2 DEF Idle
    <3>4. LoggingOut(t)'
      BY <2>1, <2>4, <2>5, <3>1, <3>3 DEF LoggingOut, Opened
    <3> QED
      BY <1>1, <2>1, <3>3, <3>4, WellWithin
  <2>8. CASE registered = NoSession
    <3>1. ~Alive(userSession)
      <4>1. \A u \in Threads : thread[u].session = NoSession
        BY <2>1 DEF Alone, Idle
      <4>2. userSession # NoSession => refs[userSession] = {}
        BY <2>8, Referenced DEF ManagerInv, TypeOK
      <4> QED
        BY <2>8, <4>1, <4>2 DEF Alive
    <3>2. /\ thread'[t].at = "loggedOut" /\ thread'[t].session = registered
          /\ thread'[t].loggingOut
      BY <2>6, <2>8, <3>1 DEF Idle
    <3>3. up = {}
      BY <2>2, <2>8 DEF AtRest, UpAtRest
    <3>4. LoggingOut(t)'
      BY <2>1, <2>4, <2>5, <2>8, <3>2, <3>3 DEF LoggingOut
    <3> QED
      BY <1>1, <2>1, <3>2, <3>4, WellWithin
  <2> QED
    BY <2>7, <2>8
<1>3. CASE LogOutSession(t)
  <2>1. /\ thread[t].at = "logOutSession" /\ up' = up \ {thread[t].session}
        /\ Goes(t, IF thread[t].session \in up THEN "unregister" ELSE "loggedOut")
        /\ UNCHANGED <<owner, registered, refs, user, missing>>
    BY <1>3 DEF LogOutSession, userVars
  <2>2. LoggingOut(t)
    BY <2>1, Within DEF Opening, Closing, LoggingIn
  <2>3. Opened /\ up = {registered} /\ thread[t].session = registered
        /\ thread[t].loggingOut /\ user = "loggedOut" /\ owner["sessions"] = None
        /\ OnlyRealms
    BY <2>1, <2>2 DEF LoggingOut
  <2>4. up' = {} /\ Goes(t, "unregister")
    BY <2>1, <2>3
  <2>5. /\ thread'[t].at = "unregister" /\ thread'[t].session = thread[t].session
        /\ thread'[t].loggingOut = thread[t].loggingOut
    BY <2>4, GoesType DEF ManagerInv, Ats
  <2>6. LoggingOut(t)'
    BY <2>1, <2>3, <2>4, <2>5 DEF LoggingOut, Opened, OnlyRealms
  <2> QED
    BY <1>1, <2>1, <2>4, <2>5, <2>6, WellWithin
<1>4. CASE LoggedOut(t)
  <2>1. /\ thread[t].at = "loggedOut" /\ Rests(t)
        /\ userWaiting' = (IF thread[t].session = NoSession THEN userWaiting
                           ELSE thread[t].session)
        /\ owner' = [owner EXCEPT !["user"] = None]
        /\ UNCHANGED <<registered, up, refs, user, missing>>
    BY <1>4 DEF LoggedOut
  <2>2. LoggingOut(t)
    BY <2>1, Within DEF Opening, Closing, LoggingIn
  <2>3. user = "loggedOut" /\ thread[t].session = registered /\ up = {}
        /\ owner["sessions"] = None /\ OnlyRealms /\ (registered # NoSession => Opened)
    BY <2>1, <2>2 DEF LoggingOut
  <2>4. thread'[t] = Idle
    BY <2>1, RestsType DEF ManagerInv
  <2>5. owner'["sessions"] = None
    BY <2>1, <2>3 DEF ManagerInv, TypeOK, Mutexes
  <2>6. AtRest'
    BY <2>1, <2>3, <2>5 DEF AtRest, OnlyRealms, Opened, Knows, UpAtRest
  <2> QED
    BY <1>1, <2>1, <2>4, <2>6, WellAtRest
<1> QED
  BY <1>2, <1>3, <1>4

\* The user who logs in again finds the session of the open Realms.
LEMMA LogInWell ==
  ASSUME ManagerInv, NEW t \in Threads, Well(t), Alone(t), LogIn(t) PROVE Well(t)'
<1>1. /\ up \subseteq {registered} /\ ~missing
      /\ thread[t] = Idle /\ user = "loggedOut" /\ user' = "active"
      /\ userSession' = (IF Alive(userWaiting) THEN userWaiting ELSE userSession)
      /\ thread' = [thread EXCEPT ![t] =
           IF Alive(userWaiting)
           THEN [Idle EXCEPT !.at = "reviveAfterLogin", !.session = userWaiting] ELSE Idle]
      /\ UNCHANGED <<owner, registered, up, refs, missing>>
  BY DEF Well, LogIn
<1>2. AtRest
  BY <1>1, Begins
<1>3. owner["sessions"] = None /\ OnlyRealms /\ up = {}
  BY <1>1, <1>2 DEF AtRest, UpAtRest
<1>4. CASE registered # NoSession
  <2>1. userWaiting = registered /\ Opened
    BY <1>1, <1>2, <1>4 DEF AtRest, Knows
  <2>2. Alive(userWaiting)
    BY <1>4, <2>1 DEF Alive
  <2>3. thread'[t] = [Idle EXCEPT !.at = "reviveAfterLogin", !.session = registered]
    BY <1>1, <2>1, <2>2, Referenced
  <2>4. thread'[t].at = "reviveAfterLogin" /\ thread'[t].session = registered
        /\ ~thread'[t].loggingOut
    BY <2>3 DEF Idle
  <2>5. LoggingIn(t)'
    BY <1>1, <1>3, <2>1, <2>2, <2>4 DEF LoggingIn, OnlyRealms, Opened
  <2> QED
    BY <1>1, <2>4, <2>5, WellWithin
<1>5. CASE registered = NoSession
  <2>1. ~Alive(userWaiting)
    <3>1. \A u \in Threads : thread[u].session = NoSession
      BY <1>1 DEF Alone, Idle
    <3>2. userWaiting # NoSession => refs[userWaiting] = {}
      BY <1>5, Referenced DEF ManagerInv, TypeOK
    <3> QED
      BY <1>5, <3>1, <3>2 DEF Alive
  <2>2. thread'[t] = Idle
    BY <1>1, <2>1, Referenced
  <2>3. AtRest'
    BY <1>1, <1>3, <1>5 DEF AtRest, OnlyRealms, UpAtRest
  <2> QED
    BY <1>1, <2>2, <2>3, WellAtRest
<1> QED
  BY <1>4, <1>5

\* A step of thread t moves no other thread.
LEMMA OthersStay ==
  ASSUME ManagerInv, NEW t \in Threads, Step(t), NEW u \in Threads \ {t}
  PROVE  thread'[u] = thread[u]
<1>1. CASE \E at \in Ats : Goes(t, at)
  BY <1>1, GoesType DEF ManagerInv
<1>2. CASE Rests(t)
  BY <1>2, RestsType DEF ManagerInv
<1>3. CASE thread' = thread
  BY <1>3
<1>4. CASE \E q : thread' = [thread EXCEPT ![t] = q]
  BY <1>4, Referenced
<1>5. CASE LeaveBe(t) /\ refs[registered] = {t}
  BY <1>5, Referenced DEF LeaveBe
<1>6. CASE LogOutSession(t)
  <2>1. \E at \in {"unregister", "loggedOut"} : Goes(t, at)
    BY <1>6 DEF LogOutSession
  <2> QED
    BY <2>1, <1>1 DEF Ats
<1>7. CASE Unregistered(t)
  BY <1>1, <1>2, <1>7 DEF Unregistered, Ats
<1>8. CASE RegisterSession(t) \/ Revive(t) \/ Refer(t) \/ Close(t) \/ Unregister(t)
  BY <1>1, <1>2, <1>7, <1>8 DEF RegisterSession, Revive, Refer, Close, Unregister, Ats
<1>9. CASE LeaveBe(t) \/ LoggedOut(t)
  BY <1>2, <1>5, <1>7, <1>9 DEF LeaveBe, LoggedOut
<1>10. CASE \E op \in Operations : Does(t, op)
  BY <1>3, <1>4, <1>10
     DEF Does, GetSession, DropReference, LogOut, LogIn, Invalidate
<1> QED
  BY <1>6, <1>8, <1>9, <1>10 DEF Step, Continues

\* The invariant of operations that do not overlap holds at first and is kept.
LEMMA InitInTurn == Init => InTurn
<1> SUFFICES ASSUME Init PROVE InTurn
  OBVIOUS
<1>1. PICK t \in Threads : TRUE
  BY ManagerAssumption
<1>2. Alone(t) /\ thread[t] = Idle
  BY DEF Init, Alone
<1>3. AtRest
  BY DEF Init, AtRest, OnlyRealms, UpAtRest, Mutexes
<1> QED
  BY <1>2, <1>3 DEF Init, InTurn, Well

LEMMA NextKeepsInTurn == ManagerInv /\ InTurn /\ [Next]_vars => InTurn'
<1> SUFFICES ASSUME ManagerInv, InTurn, [Next]_vars, ~disturbed'
             PROVE  \E t \in Threads : Alone(t)' /\ Well(t)'
  BY DEF InTurn
<1>1. CASE UNCHANGED vars
  BY <1>1 DEF vars, InTurn, Alone, Well, AtRest, Opening, Closing, LoggingOut, LoggingIn,
     OnlyRealms, Opened, Knows, UpAtRest
<1>2. CASE Next
  <2>1. PICK t \in Threads :
          /\ Step(t)
          /\ disturbed' = (\/ disturbed \/ user' = "error"
                           \/ \E u \in Threads \ {t} : thread[u] # Idle)
    BY <1>2 DEF Next
  <2>2. ~disturbed /\ user' # "error" /\ Alone(t)
    BY <2>1 DEF Alone
  <2>3. PICK w \in Threads : Alone(w) /\ Well(w)
    BY <2>2 DEF InTurn
  <2>4. Well(t)
    <3>1. w = t \/ (thread[w] = Idle /\ thread[t] = Idle)
      BY <2>2, <2>3 DEF Alone
    <3> QED
      BY <2>3, <3>1 DEF Well
  <2>5. Alone(t)'
    BY <2>1, <2>2, OthersStay DEF Alone
  <2>6. CASE \E r \in Realms : GetSession(t, r) \/ DropReference(t, r)
    BY <2>4, <2>5, <2>6, GetSessionWell, DropReferenceWell
  <2>7. CASE RegisterSession(t) \/ Revive(t) \/ Refer(t)
    BY <2>4, <2>5, <2>7, OpeningWell
  <2>8. CASE Close(t) \/ Unregister(t) \/ LeaveBe(t)
    BY <2>4, <2>5, <2>8, CloseWell, UnregisterWell, LeaveBeWell
  <2>9. CASE LogOut(t) \/ LogOutSession(t) \/ LoggedOut(t) \/ LogIn(t)
    BY <2>2, <2>4, <2>5, <2>9, LogOutWell, LogInWell
  <2>10. CASE Invalidate(t)
    BY <2>2, <2>10 DEF Invalidate
  <2> QED
    BY <2>1, <2>6, <2>7, <2>8, <2>9, <2>10 DEF Step, Continues, Does
<1> QED
  BY <1>1, <1>2

\* The invariant says of states between operations, and of those within one, what
\* InTurnAllIsWell asks.
LEMMA InTurnIsWell == ManagerInv /\ InTurn => InTurnAllIsWell
<1> SUFFICES ASSUME ManagerInv, InTurn, ~disturbed
             PROVE  /\ Quiet /\ user = "active" => \A s \in Sessions : refs[s] # {} => s \in up
                    /\ Quiet => \A s \in up : refs[s] # {}
                    /\ Quiet /\ user = "loggedOut" => up = {}
                    /\ Cardinality(up) <= 1
                    /\ ~missing
                    /\ \A t \in Threads : \A m \in WaitsFor(t) : owner[m] # t
  BY DEF InTurnAllIsWell
<1>1. PICK t \in Threads : Alone(t) /\ Well(t)
  BY DEF InTurn
<1>2. Quiet => AtRest
  BY <1>1 DEF Quiet, Well
<1>3. Quiet /\ user = "active" => \A s \in Sessions : refs[s] # {} => s \in up
  BY <1>2, Referenced DEF AtRest, UpAtRest
<1>4. Quiet => \A s \in up : refs[s] # {}
  BY <1>2 DEF AtRest, UpAtRest, Opened
<1>5. Quiet /\ user = "loggedOut" => up = {}
  BY <1>2 DEF AtRest, UpAtRest
<1>6. Cardinality(up) <= 1
  <2>1. up = {} \/ up = {registered}
    BY <1>1 DEF Well
  <2>2. Cardinality({}) = 0 /\ Cardinality({registered}) = 1
    BY FS_EmptySet, FS_Singleton
  <2> QED
    BY <2>1, <2>2
<1>7. ASSUME NEW u \in Threads, NEW m \in WaitsFor(u) PROVE owner[m] # u
  <2>1. owner["state"] = None /\ None \notin Threads
    BY Referenced DEF ManagerInv, LocksAreKept
  <2>2. CASE thread[u].at = "register"
    <3>1. m = "user" /\ ~thread[u].loggingOut
      BY <2>2 DEF WaitsFor, ManagerInv, LocksAreKept
    <3> QED
      BY <2>1, <3>1 DEF ManagerInv, LocksAreKept
  <2>3. CASE thread[u].at = "unregister"
    <3>1. u = t
      BY <1>1, <2>3 DEF Alone, Idle
    <3>2. owner["sessions"] = None
      BY <1>1, <2>3, <3>1, Within DEF Opening, Closing, LoggingOut, LoggingIn
    <3>3. m \in {"sessions", "state"}
      BY <2>3 DEF WaitsFor
    <3> QED
      BY <2>1, <3>2, <3>3
  <2>4. CASE thread[u].at \notin {"register", "unregister"}
    <3>1. m = "state"
      BY <2>4 DEF WaitsFor
    <3> QED
      BY <2>1, <3>1
  <2> QED
    BY <2>2, <2>3, <2>4
<1> QED
  BY <1>1, <1>3, <1>4, <1>5, <1>6, <1>7 DEF Well

\* While operations do not overlap, for any number of threads, Realms and sessions
\* and in any order of operations: the session of an open Realm is up if and only
\* if its user is logged in, there is one at most, unregister_session finds its
\* entry and no thread waits for itself.
THEOREM SyncManagerInTurn == Spec => []InTurnAllIsWell
<1>1. Init => InTurn
  BY InitInTurn
<1>2. ManagerInv /\ InTurn /\ [Next]_vars => InTurn'
  BY NextKeepsInTurn
<1>3. ManagerInv /\ InTurn => InTurnAllIsWell
  BY InTurnIsWell
<1> QED
  BY <1>1, <1>2, <1>3, SyncManagerInvariant, PTL DEF Spec
===============================================================================
