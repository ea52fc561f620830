------------------------- MODULE SyncProgressNotifier -------------------------
(***************************************************************************)
(* _impl::SyncProgressNotifier (sync_session.cpp): callbacks that are told *)
(* how many bytes of how many are transferred.  A streaming notifier is    *)
(* told the newest numbers; another one is told of a total captured once,  *)
(* and is dropped when that much is transferred.                           *)
(*                                                                         *)
(* What to tell is decided under m_mutex and told after it is released, so *)
(* the event loop thread, which updates, and a thread that registers a     *)
(* notifier may tell it in either order.                                   *)
(*                                                                         *)
(* The sync client is external: every version of the Realm is one byte to  *)
(* upload, which it first has to find out, and it reports its numbers at   *)
(* any time.  An update before the first DOWNLOAD message changes nothing  *)
(* and is left out.                                                        *)
(***************************************************************************)
EXTENDS Integers, FiniteSets

CONSTANTS
  MaxTokens,   \* bounds the notifiers registered
  MaxVersion,  \* bounds the local transactions
  MaxDownload  \* bounds the bytes to download

ASSUME ProgressAssumption == {MaxTokens, MaxVersion, MaxDownload} \subseteq Nat

Tokens == 1 .. MaxTokens
None == -1
Directions == {"upload", "download"}

VARIABLES
  packages,   \* m_packages: a set of packages, each with its token
  nextToken,  \* m_progress_notifier_token
  local,      \* m_local_transaction_version
  progress,   \* m_current_progress, a set of at most one element
  client,     \* the numbers of the sync client
  calls,      \* calls of notifiers decided on and not made
  finals      \* history: finals[k], calls made that told k it has all it waits for

vars == <<packages, nextToken, local, progress, client, calls, finals>>

NoProgress == [upload |-> [done |-> 0, all |-> 0], download |-> [done |-> 0, all |-> 0],
               snapshot |-> 0]

Init ==
  /\ packages = {} /\ nextToken = 1 /\ local = 0
  /\ progress = {} /\ client = NoProgress
  /\ calls = {}
  /\ finals = [k \in Tokens |-> 0]

\* Faulty: the client's total is taken whatever it includes.
AnyTotal(p, current) ==
  IF p.streaming THEN current[p.direction].all
  ELSE IF p.captured # None THEN p.captured
  ELSE current[p.direction].all

\* Faulty: the client must have seen more than what was committed by then.
LaterTotal(p, current) ==
  IF p.streaming THEN current[p.direction].all
  ELSE IF p.captured # None THEN p.captured
  ELSE IF p.direction = "upload" /\ p.snapshot >= current.snapshot THEN None
  ELSE current[p.direction].all

\* The total package p is told of; None if the client has not seen yet what
\* was committed when p was registered.
Transferrable(p, current) ==
  IF p.streaming THEN current[p.direction].all
  ELSE IF p.captured # None THEN p.captured
  ELSE IF p.direction = "upload" /\ p.snapshot > current.snapshot THEN None
  ELSE current[p.direction].all

\* NotifierPackage::create_invocation: the package afterwards, the call, and
\* whether the notifier is expired.
Captured(p, current) ==
  [p EXCEPT !.captured = IF p.streaming THEN None ELSE Transferrable(p, current)]

\* A notifier that is not streaming has all it waits for, and is dropped.
Expired(p, current) ==
  /\ ~p.streaming /\ Transferrable(p, current) # None
  /\ current[p.direction].done >= Transferrable(p, current)

Call(p, current, by) ==
  [token |-> p.token, done |-> current[p.direction].done,
   all |-> Transferrable(p, current), final |-> Expired(p, current), by |-> by]

-------------------------------------------------------------------------------
\* register_callback, up to the release of the mutex.
RegisterCallback(direction, streaming) ==
  LET p == [token |-> nextToken, captured |-> None, snapshot |-> local,
            streaming |-> streaming, direction |-> direction]
  IN  /\ nextToken \in Tokens
      /\ nextToken' = nextToken + 1
      /\ \/ /\ progress = {}
            /\ packages' = packages \cup {p}
            /\ UNCHANGED calls
         \/ \E current \in progress :
              /\ packages' = IF Expired(p, current) THEN packages
                             ELSE packages \cup {Captured(p, current)}
              /\ calls' = IF Transferrable(p, current) = None THEN calls
                          ELSE calls \cup {Call(p, current, "register")}
  /\ UNCHANGED <<local, progress, client, finals>>

UnregisterCallback ==
  /\ \E p \in packages : packages' = packages \ {p}
  /\ UNCHANGED <<nextToken, local, progress, client, calls, finals>>

\* The packages after an update.
Remaining(current) ==
  {Captured(p, current) : p \in {q \in packages : ~Expired(q, current)}}

\* update, up to the release of the mutex, by the event loop thread.
Update ==
  /\ \A c \in calls : c.by # "update"
  /\ progress' = {client}
  /\ packages' = Remaining(client)
  /\ calls' = calls \cup {Call(p, client, "update") :
                            p \in {q \in packages : Transferrable(q, client) # None}}
  /\ UNCHANGED <<nextToken, local, client, finals>>

\* A notifier is called, without the mutex.
Invoke ==
  /\ \E c \in calls :
       /\ calls' = calls \ {c}
       /\ finals' = IF c.final THEN [finals EXCEPT ![c.token] = @ + 1] ELSE finals
  /\ UNCHANGED <<packages, nextToken, local, progress, client>>

\* A local transaction: set_local_version.
SetLocalVersion ==
  /\ local < MaxVersion
  /\ local' = local + 1
  /\ UNCHANGED <<packages, nextToken, progress, client, calls, finals>>

\* The client looks at the newest version, uploads a byte, learns of a byte to
\* download, downloads it.
Client(step) ==
  /\ \/ /\ step = "process" /\ client.snapshot < local
        /\ client' = [client EXCEPT !.snapshot = local, !.upload.all = local]
     \/ /\ step = "upload" /\ client.upload.done < client.upload.all
        /\ client' = [client EXCEPT !.upload.done = @ + 1]
     \/ /\ step = "learn" /\ client.download.all < MaxDownload
        /\ client' = [client EXCEPT !.download.all = @ + 1]
     \/ /\ step = "download" /\ client.download.done < client.download.all
        /\ client' = [client EXCEPT !.download.done = @ + 1]
  /\ UNCHANGED <<packages, nextToken, local, progress, calls, finals>>

Next ==
  \/ \E d \in Directions, s \in BOOLEAN : RegisterCallback(d, s)
  \/ UnregisterCallback \/ Update \/ Invoke \/ SetLocalVersion
  \/ \E step \in {"process", "upload", "learn", "download"} : Client(step)

Spec == Init /\ [][Next]_vars

\* The client works on what it knows of, and reports.
FairSpec ==
  /\ Spec
  /\ WF_vars(Update) /\ WF_vars(Invoke)
  /\ \A step \in {"process", "upload", "download"} : WF_vars(Client(step))

-------------------------------------------------------------------------------
TypeOK ==
  /\ packages \subseteq [token : Tokens, captured : None .. MaxVersion + MaxDownload,
                         snapshot : 0 .. MaxVersion, streaming : BOOLEAN,
                         direction : Directions]
  /\ nextToken \in 1 .. MaxTokens + 1 /\ local \in 0 .. MaxVersion
  /\ Cardinality(progress) <= 1
  /\ \A p, q \in packages : p.token = q.token => p = q
  /\ \A c \in calls : c.token \in Tokens /\ c.all >= 0 /\ c.done >= 0

\* A notifier of uploads that is not streaming waits for no less than what was
\* committed when it was registered, although the client's numbers may be older
\* then; so it does not report the end of uploads too early.
CapturesAllCommitted ==
  \A p \in packages : p.direction = "upload" /\ p.captured # None
                        => p.captured >= p.snapshot

\* A notifier that is not streaming is told once that all is done, whether the
\* thread that registers it finds out, or an update, or both are under way.
EndsOnce == \A k \in Tokens : finals[k] <= 1

\* The state of the notifiers is sound.
ProgressInv == TypeOK /\ CapturesAllCommitted /\ EndsOnce

\* A notifier that is not streaming comes to its end, or is unregistered.
NotifiersEnd ==
  \A k \in Tokens :
    (\E p \in packages : p.token = k /\ ~p.streaming)
      ~> (\A p \in packages : p.token # k)
===============================================================================
