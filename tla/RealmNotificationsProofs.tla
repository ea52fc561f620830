------------------------ MODULE RealmNotificationsProofs ------------------------
(***************************************************************************)
(* The notifiers of a Realm stay together, for any collections, callbacks  *)
(* and versions; and no change is missed or told twice but in the two ways *)
(* that the properties name.                                               *)
(***************************************************************************)
EXTENDS RealmNotifications, TLAPS

RealmType == [version : Versions, at : {"read", "write", "refresh", "begin"},
              target : 0 .. MaxVersion, woke : BOOLEAN, silent : SUBSET Callbacks]
NotifierType == [list : {"none", "new", "main"}, alive : BOOLEAN, version : 0 .. MaxVersion,
                 run : BOOLEAN, have : BOOLEAN, changes : SUBSET Versions]
CallbackType == [on : BOOLEAN, acc : SUBSET Versions, skip : BOOLEAN,
                 initial : BOOLEAN, told : SUBSET Versions,
                 late : SUBSET Versions, exposed : SUBSET Versions]
WorkerType == [at : {"idle", "skip", "toSkip", "skipped", "last", "toLast", "ran"},
               version : 0 .. MaxVersion, skip : 0 .. MaxVersion,
               old : SUBSET Notifiers, new : SUBSET Notifiers, out : SUBSET Notifiers]

Main == {n \in Notifiers : notifier[n].list = "main"}
Ran == {n \in Main : notifier[n].run}

\* Versions do not run ahead of the file; a callback is suppressed in a transaction.
VersionsExist ==
  /\ realm.version <= latest /\ realm.target <= latest
  /\ realm.at \in {"refresh", "begin"} => realm.target >= realm.version
  /\ realm.silent # {} => realm.at = "write" /\ latest < MaxVersion
  /\ \A n \in Notifiers : notifier[n].version <= latest
  /\ skipVersion <= latest /\ worker.version <= latest

\* The worker works on the main list: on the notifiers that ran before, which are
\* at one version, and on those that did not.
WorkerHasTheList ==
  /\ \A n \in Notifiers : notifier[n].run =>
       notifier[n].list = "main" \/ (notifier[n].list = "none" /\ ~notifier[n].alive)
  /\ worker.new = Main \ Ran
  /\ worker.at = "idle" => worker = Idle
  /\ worker.at # "idle" => worker.old = Ran
  /\ \A n, m \in Ran : notifier[n].version = notifier[m].version

\* A version to skip has notifiers that are to stop there, and that have not
\* come past it.
SkipIsAhead ==
  /\ skipVersion # 0 =>
       /\ Main # {} /\ worker.version <= skipVersion
       /\ \A n \in Ran : notifier[n].version <= skipVersion
  /\ SkipFits

\* The inductive invariant, for NotifierInv.
BaseInv == TypeOK /\ VersionsExist /\ WorkerHasTheList /\ SkipIsAhead

\* Nobody commits before a transaction that waits for the worker has begun.
WriterIsAlone ==
  /\ realm.at = "begin" => realm.target = latest
  /\ realm.at = "write" => realm.version = latest

\* A run calculates the changes, up to the version it is for, of all collections
\* that it does not leave out; nothing else has changes to hand over.
RunsForAll ==
  /\ worker.at # "idle" => \A n \in Ran : notifier[n].version <= worker.version
  /\ worker.at = "skipped" => \A n \in Ran \ worker.out : notifier[n].alive =>
       notifier[n].changes = notifier[n].version + 1 .. worker.skip
  /\ worker.at = "ran" => \A n \in Ran \ worker.out : notifier[n].alive =>
       notifier[n].changes = notifier[n].version + 1 .. worker.version
  /\ \A n \in Notifiers : notifier[n].changes # {} =>
       worker.at \in {"skipped", "ran"} /\ n \in Ran \ worker.out
  /\ \A n \in Notifiers : notifier[n].have /\ notifier[n].alive => notifier[n].list # "none"

\* The parts of a callback agree with each other and with its notifier; a
\* suppression that is used up before the transaction commits was overlapped.
Registered(c) ==
  /\ callback[c].on => notifier[c[1]].have
  /\ callback[c].skip => callback[c].on /\ callback[c].initial
  /\ callback[c].initial => notifier[c[1]].run
  /\ c \in realm.silent /\ callback[c].on =>
       \/ latest + 1 \in callback[c].exposed
       \/ callback[c].skip /\ worker.at = "idle"
  /\ c \in realm.silent =>
       /\ callback[c].told \subseteq 1 .. latest
       /\ 1 .. latest \subseteq callback[c].told \cup callback[c].late

\* The version after the one the notifier is at was made by a transaction that
\* suppressed c, and the worker is to stop at it, in the run under way or in the
\* next one.
Pending(c) ==
  LET next == notifier[c[1]].version + 1
  IN  /\ next <= realm.version
      /\ \/ worker.at = "idle" /\ skipVersion = next
         \/ worker.at \in {"skip", "toSkip", "skipped"} /\ worker.skip = next
         \/ /\ worker.at # "idle" /\ skipVersion = next
            /\ worker.version < next /\ next \in callback[c].exposed

\* Whoever follows a collection knows, has waiting or has missed its changes, and
\* knows at most one more, that the next handover skips or that is exposed; the
\* Realm is at most one version ahead, and then nothing waits.
Knows(c) ==
  LET known == notifier[c[1]].version
  IN  Following(c) =>
        /\ callback[c].told \subseteq 1 .. known + 1
        /\ 1 .. known \subseteq callback[c].told \cup callback[c].acc \cup callback[c].late
        /\ callback[c].acc \subseteq 1 .. known
        /\ callback[c].told \cap callback[c].acc \subseteq callback[c].exposed
        /\ known + 1 \in callback[c].told =>
             (callback[c].skip \/ known + 1 \in callback[c].exposed) /\ Pending(c)
        /\ callback[c].skip => c \in realm.silent \/ known + 1 \in callback[c].told
        /\ realm.version <= known + 1
        /\ known < realm.version => callback[c].acc = {}

\* Within a transaction everybody knows everything but what was missed.
WriterTold(c) ==
  realm.at = "write" /\ callback[c].on /\ c[1] \in Ours =>
    /\ callback[c].initial /\ callback[c].acc = {}
    /\ callback[c].told \subseteq 1 .. latest
    /\ 1 .. latest \subseteq callback[c].told \cup callback[c].late
    /\ notifier[c[1]].run /\ notifier[c[1]].version = latest

\* The inductive invariant, together with BaseInv, for what callbacks are told.
FollowInv ==
  /\ WriterIsAlone /\ RunsForAll
  /\ \A c \in Callbacks : Registered(c) /\ Knows(c) /\ WriterTold(c)

-------------------------------------------------------------------------------
\* What the operators of the specification do to single notifiers and callbacks.

LEMMA Typed ==
  ASSUME TypeOK
  PROVE  /\ latest \in Versions /\ skipVersion \in 0 .. MaxVersion
         /\ realm \in RealmType /\ worker \in WorkerType
         /\ notifier \in [Notifiers -> NotifierType]
         /\ callback \in [Callbacks -> CallbackType]
         /\ \A n \in Notifiers : notifier[n] \in NotifierType
         /\ \A c \in Callbacks : c[1] \in Notifiers /\ callback[c] \in CallbackType
         /\ MaxVersion \in Nat
BY NotificationsAssumption
DEF TypeOK, RealmType, WorkerType, NotifierType, CallbackType, Notifiers

\* clean_up_dead_notifiers changes only the list that a dead notifier is in.
LEMMA CleanedFacts ==
  ASSUME NEW ns \in [Notifiers -> NotifierType]
  PROVE  /\ Cleaned(ns) \in [Notifiers -> NotifierType]
         /\ \A n \in Notifiers :
              /\ Cleaned(ns)[n].list = IF ns[n].alive THEN ns[n].list ELSE "none"
              /\ Cleaned(ns)[n].version = ns[n].version /\ Cleaned(ns)[n].run = ns[n].run
              /\ Cleaned(ns)[n].alive = ns[n].alive /\ Cleaned(ns)[n].have = ns[n].have
              /\ Cleaned(ns)[n].changes = ns[n].changes
<1>1. ASSUME NEW n \in Notifiers
      PROVE  /\ Cleaned(ns)[n] \in NotifierType
             /\ Cleaned(ns)[n].list = IF ns[n].alive THEN ns[n].list ELSE "none"
             /\ Cleaned(ns)[n].version = ns[n].version /\ Cleaned(ns)[n].run = ns[n].run
             /\ Cleaned(ns)[n].alive = ns[n].alive /\ Cleaned(ns)[n].have = ns[n].have
             /\ Cleaned(ns)[n].changes = ns[n].changes
  <2>1. CASE ns[n].alive
    BY <2>1 DEF Cleaned
  <2>2. CASE ~ns[n].alive
    BY <2>2 DEF Cleaned, NotifierType
  <2> QED BY <2>1, <2>2
<1>2. Cleaned(ns) \in [Notifiers -> NotifierType]
  BY <1>1 DEF Cleaned
<1> QED BY <1>1, <1>2

\* prepare_handover brings its notifiers to its version.
LEMMA HandedOverFacts ==
  ASSUME TypeOK, NEW ns, NEW v \in 0 .. MaxVersion
  PROVE  /\ HandedOver(ns, v) \in [Notifiers -> NotifierType]
         /\ \A n \in Notifiers :
              /\ HandedOver(ns, v)[n].list = notifier[n].list
              /\ HandedOver(ns, v)[n].alive = notifier[n].alive
              /\ HandedOver(ns, v)[n].have = notifier[n].have
              /\ n \in ns => /\ HandedOver(ns, v)[n].version = v
                             /\ HandedOver(ns, v)[n].run
                             /\ HandedOver(ns, v)[n].changes = {}
              /\ n \notin ns => HandedOver(ns, v)[n] = notifier[n]
<1>1. ASSUME NEW n \in Notifiers
      PROVE  /\ HandedOver(ns, v)[n] \in NotifierType
             /\ HandedOver(ns, v)[n].list = notifier[n].list
             /\ HandedOver(ns, v)[n].alive = notifier[n].alive
             /\ HandedOver(ns, v)[n].have = notifier[n].have
             /\ n \in ns => /\ HandedOver(ns, v)[n].version = v
                            /\ HandedOver(ns, v)[n].run
                            /\ HandedOver(ns, v)[n].changes = {}
             /\ n \notin ns => HandedOver(ns, v)[n] = notifier[n]
  <2>1. CASE n \in ns
    BY <2>1, Typed DEF HandedOver, NotifierType
  <2>2. CASE n \notin ns
    BY <2>2, Typed DEF HandedOver
  <2> QED BY <2>1, <2>2
<1>2. HandedOver(ns, v) \in [Notifiers -> NotifierType]
  BY <1>1 DEF HandedOver
<1> QED BY <1>1, <1>2

\* Changes are added for callbacks that do not skip them.
LEMMA GivenFacts ==
  ASSUME TypeOK, NEW ns, NEW v \in 0 .. MaxVersion
  PROVE  /\ Given(ns, v) \in [Callbacks -> CallbackType]
         /\ \A c \in Callbacks :
              /\ Given(ns, v)[c].on = callback[c].on
              /\ Given(ns, v)[c].initial = callback[c].initial
              /\ Given(ns, v)[c].told = callback[c].told
              /\ Given(ns, v)[c].exposed = callback[c].exposed
              /\ c[1] \notin ns \/ ~callback[c].on => Given(ns, v)[c] = callback[c]
              /\ c[1] \in ns /\ callback[c].on =>
                   /\ ~Given(ns, v)[c].skip
                   /\ callback[c].skip => /\ Given(ns, v)[c].acc = callback[c].acc
                                        /\ Given(ns, v)[c].late = callback[c].late
                   /\ ~callback[c].skip =>
                        /\ Given(ns, v)[c].acc = callback[c].acc \cup notifier[c[1]].changes
                        /\ Given(ns, v)[c].late = callback[c].late \cup Late(c, v)
<1>1. ASSUME NEW c \in Callbacks
      PROVE  /\ Given(ns, v)[c] \in CallbackType
             /\ Given(ns, v)[c].on = callback[c].on
             /\ Given(ns, v)[c].initial = callback[c].initial
             /\ Given(ns, v)[c].told = callback[c].told
             /\ Given(ns, v)[c].exposed = callback[c].exposed
             /\ c[1] \notin ns \/ ~callback[c].on => Given(ns, v)[c] = callback[c]
             /\ c[1] \in ns /\ callback[c].on =>
                  /\ ~Given(ns, v)[c].skip
                  /\ callback[c].skip => /\ Given(ns, v)[c].acc = callback[c].acc
                                       /\ Given(ns, v)[c].late = callback[c].late
                  /\ ~callback[c].skip =>
                       /\ Given(ns, v)[c].acc = callback[c].acc \cup notifier[c[1]].changes
                       /\ Given(ns, v)[c].late = callback[c].late \cup Late(c, v)
  <2>1. CASE c[1] \notin ns \/ ~callback[c].on
    BY <2>1, Typed DEF Given
  <2>2. CASE c[1] \in ns /\ callback[c].on /\ callback[c].skip
    BY <2>2, Typed DEF Given, CallbackType
  <2>3. CASE c[1] \in ns /\ callback[c].on /\ ~callback[c].skip
    <3>1. notifier[c[1]].changes \subseteq Versions /\ Late(c, v) \subseteq Versions
      BY Typed DEF NotifierType, Late, Versions
    <3>2. Given(ns, v)[c] = [callback[c] EXCEPT !.acc = callback[c].acc \cup notifier[c[1]].changes,
                                                !.late = callback[c].late \cup Late(c, v)]
      BY <2>3 DEF Given
    <3> QED BY <2>3, <3>1, <3>2, Typed DEF CallbackType
  <2> QED BY <2>1, <2>2, <2>3
<1>2. Given(ns, v) \in [Callbacks -> CallbackType]
  BY <1>1 DEF Given
<1> QED BY <1>1, <1>2

\* A delivery leaves nothing waiting.
LEMMA PackagedFacts ==
  ASSUME TypeOK, NEW ns
  PROVE  /\ Packaged(ns) \in [Callbacks -> CallbackType]
         /\ \A c \in Callbacks :
              /\ Packaged(ns)[c].on = callback[c].on
              /\ Packaged(ns)[c].skip = callback[c].skip
              /\ Packaged(ns)[c].initial = callback[c].initial
              /\ Packaged(ns)[c].told = callback[c].told
              /\ Packaged(ns)[c].late = callback[c].late
              /\ c[1] \in ns => /\ Packaged(ns)[c].acc = {}
                                /\ Packaged(ns)[c].exposed = callback[c].exposed \ callback[c].acc
              /\ c[1] \notin ns => Packaged(ns)[c] = callback[c]
<1>1. ASSUME NEW c \in Callbacks
      PROVE  /\ Packaged(ns)[c] \in CallbackType
             /\ Packaged(ns)[c].on = callback[c].on
             /\ Packaged(ns)[c].skip = callback[c].skip
             /\ Packaged(ns)[c].initial = callback[c].initial
             /\ Packaged(ns)[c].told = callback[c].told
             /\ Packaged(ns)[c].late = callback[c].late
             /\ c[1] \in ns => /\ Packaged(ns)[c].acc = {}
                               /\ Packaged(ns)[c].exposed = callback[c].exposed \ callback[c].acc
             /\ c[1] \notin ns => Packaged(ns)[c] = callback[c]
  <2>1. CASE c[1] \in ns
    BY <2>1, Typed DEF Packaged, CallbackType
  <2>2. CASE c[1] \notin ns
    BY <2>2, Typed DEF Packaged
  <2> QED BY <2>1, <2>2
<1>2. Packaged(ns) \in [Callbacks -> CallbackType]
  BY <1>1 DEF Packaged
<1> QED BY <1>1, <1>2

\* Whoever is called knows what waited for it; the first time, everything.
LEMMA CalledFacts ==
  ASSUME TypeOK, NEW ns, NEW v \in Versions
  PROVE  /\ Called(ns, v) \in [Callbacks -> CallbackType]
         /\ \A c \in Callbacks :
              /\ Called(ns, v)[c].on = callback[c].on
              /\ Called(ns, v)[c].skip = callback[c].skip
              /\ c[1] \notin ns => Called(ns, v)[c] = callback[c]
              /\ Called(ns, v)[c].late = callback[c].late
              /\ c[1] \in ns => /\ Called(ns, v)[c].acc = {}
                                /\ Called(ns, v)[c].exposed = callback[c].exposed \ callback[c].acc
              /\ ~callback[c].on => /\ Called(ns, v)[c].initial = callback[c].initial
                                    /\ Called(ns, v)[c].told = callback[c].told
              /\ c[1] \in ns /\ callback[c].on =>
                   /\ Called(ns, v)[c].initial
                   /\ callback[c].initial =>
                        Called(ns, v)[c].told = callback[c].told \cup callback[c].acc
                   /\ ~callback[c].initial => Called(ns, v)[c].told = 1 .. v
<1>1. ASSUME NEW c \in Callbacks
      PROVE  /\ Called(ns, v)[c] \in CallbackType
             /\ Called(ns, v)[c].on = callback[c].on
             /\ Called(ns, v)[c].skip = callback[c].skip
             /\ c[1] \notin ns => Called(ns, v)[c] = callback[c]
             /\ Called(ns, v)[c].late = callback[c].late
             /\ c[1] \in ns => /\ Called(ns, v)[c].acc = {}
                               /\ Called(ns, v)[c].exposed = callback[c].exposed \ callback[c].acc
             /\ ~callback[c].on => /\ Called(ns, v)[c].initial = callback[c].initial
                                   /\ Called(ns, v)[c].told = callback[c].told
             /\ c[1] \in ns /\ callback[c].on =>
                  /\ Called(ns, v)[c].initial
                  /\ callback[c].initial =>
                       Called(ns, v)[c].told = callback[c].told \cup callback[c].acc
                  /\ ~callback[c].initial => Called(ns, v)[c].told = 1 .. v
  <2> DEFINE p == Packaged(ns)[c]
             s == IF callback[c].initial THEN p.told \cup callback[c].acc ELSE 1 .. v
  <2>1. /\ p \in CallbackType /\ p.on = callback[c].on /\ p.skip = callback[c].skip
        /\ p.initial = callback[c].initial /\ p.told = callback[c].told
        /\ p.late = callback[c].late
        /\ c[1] \in ns => p.acc = {} /\ p.exposed = callback[c].exposed \ callback[c].acc
        /\ c[1] \notin ns => p = callback[c]
    BY PackagedFacts
  <2>2. CASE c[1] \notin ns \/ ~callback[c].on
    <3>1. Called(ns, v)[c] = p
      BY <2>2 DEF Called
    <3> HIDE DEF p
    <3> QED BY <2>1, <2>2, <3>1
  <2>3. CASE c[1] \in ns /\ callback[c].on
    <3>1. Called(ns, v)[c] = [p EXCEPT !.initial = TRUE, !.told = s]
      BY <2>3, Zenon DEF Called
    <3>2. /\ callback[c].initial => s = callback[c].told \cup callback[c].acc
          /\ ~callback[c].initial => s = 1 .. v
      BY <2>1
    <3> HIDE DEF p, s
    <3>3. s \subseteq Versions
      BY <3>2, Typed DEF CallbackType, Versions
    <3> QED BY <2>1, <2>3, <3>1, <3>2, <3>3 DEF CallbackType
  <2> QED BY <2>2, <2>3
<1>2. Called(ns, v) \in [Callbacks -> CallbackType]
  BY <1>1, Zenon DEF Called
<1> QED BY <1>1, <1>2

\* Only the history changes of callbacks whose transaction a run overlaps.
LEMMA ExposedFacts ==
  ASSUME TypeOK, NEW cs, latest < MaxVersion \/ cs = {}
  PROVE  /\ Exposed(cs) \in [Callbacks -> CallbackType]
         /\ \A c \in Callbacks :
              /\ c \notin cs => Exposed(cs)[c] = callback[c]
              /\ Exposed(cs)[c] = [callback[c] EXCEPT !.exposed = Exposed(cs)[c].exposed]
              /\ Exposed(cs)[c].exposed = IF c \in cs THEN callback[c].exposed \cup {latest + 1}
                                          ELSE callback[c].exposed
<1>1. ASSUME NEW c \in Callbacks
      PROVE  /\ Exposed(cs)[c] \in CallbackType
             /\ c \notin cs => Exposed(cs)[c] = callback[c]
             /\ Exposed(cs)[c] = [callback[c] EXCEPT !.exposed = Exposed(cs)[c].exposed]
             /\ Exposed(cs)[c].exposed = IF c \in cs THEN callback[c].exposed \cup {latest + 1}
                                         ELSE callback[c].exposed
  <2>1. CASE c \in cs
    <3>1. Exposed(cs)[c] = [callback[c] EXCEPT !.exposed = callback[c].exposed \cup {latest + 1}]
      BY <2>1 DEF Exposed
    <3>2. latest + 1 \in Versions
      BY <2>1, Typed DEF Versions
    <3> QED BY <2>1, <3>1, <3>2, Typed DEF CallbackType
  <2>2. CASE c \notin cs
    <3>1. Exposed(cs)[c] = callback[c]
      BY <2>2 DEF Exposed
    <3> QED BY <2>2, <3>1, Typed DEF CallbackType
  <2> QED BY <2>1, <2>2
<1>2. Exposed(cs) \in [Callbacks -> CallbackType]
  BY <1>1 DEF Exposed
<1> QED BY <1>1, <1>2

-------------------------------------------------------------------------------
\* Every step keeps BaseInv.

LEMMA BaseInit == Init => BaseInv
<1> SUFFICES ASSUME Init PROVE BaseInv
  OBVIOUS
<1> USE NotificationsAssumption
<1>1. latest = 1 /\ skipVersion = 0 /\ worker = Idle
  BY DEF Init
<1>2. realm = [version |-> 1, at |-> "read", target |-> 0, woke |-> FALSE, silent |-> {}]
  BY DEF Init
<1>3. \A n \in Notifiers : /\ notifier[n].list = "none" /\ notifier[n].version = 0
                           /\ ~notifier[n].run
  BY DEF Init
<1>4. TypeOK
  <2>1. /\ latest \in Versions /\ skipVersion \in 0 .. MaxVersion
    BY <1>1 DEF Versions
  <2>2. realm \in RealmType
    BY <1>2 DEF RealmType, Versions
  <2>3. notifier \in [Notifiers -> NotifierType]
    <3> DEFINE r == [list |-> "none", alive |-> TRUE, version |-> 0,
                     run |-> FALSE, have |-> FALSE, changes |-> {}]
    <3>1. r \in NotifierType
      BY DEF NotifierType
    <3>2. notifier = [n \in Notifiers |-> r]
      BY DEF Init
    <3> HIDE DEF r
    <3> QED BY <3>1, <3>2
  <2>4. callback \in [Callbacks -> CallbackType]
    <3> DEFINE r == [on |-> FALSE, acc |-> {}, skip |-> FALSE,
                     initial |-> FALSE, told |-> {}, late |-> {}, exposed |-> {}]
    <3>1. r \in CallbackType
      BY DEF CallbackType
    <3>2. callback = [c \in Callbacks |-> r]
      BY DEF Init
    <3> HIDE DEF r
    <3> QED BY <3>1, <3>2
  <2>5. worker \in WorkerType
    BY <1>1 DEF WorkerType, Idle
  <2>6. wake = FALSE /\ signal = FALSE
    BY DEF Init
  <2> QED BY <2>1, <2>2, <2>3, <2>4, <2>5, <2>6
       DEF TypeOK, RealmType, NotifierType, CallbackType, WorkerType
<1>5. Main = {} /\ Ran = {}
  BY <1>3 DEF Main, Ran
<1>6. VersionsExist
  BY <1>1, <1>2, <1>3 DEF VersionsExist, Idle
<1>7. WorkerHasTheList
  BY <1>1, <1>3, <1>5 DEF WorkerHasTheList, Idle
<1>8. SkipIsAhead
  BY <1>1 DEF SkipIsAhead, SkipFits, Idle
<1> QED BY <1>4, <1>6, <1>7, <1>8 DEF BaseInv

\* Steps of the Realm's thread that leave the lists and the versions alone.
LEMMA BaseKept ==
  ASSUME BaseInv,
         UNCHANGED <<latest, skipVersion, worker>>,
         notifier' \in [Notifiers -> NotifierType],
         \A n \in Notifiers : /\ notifier'[n].list = notifier[n].list
                              /\ notifier'[n].version = notifier[n].version
                              /\ notifier'[n].run = notifier[n].run
                              /\ notifier'[n].alive => notifier[n].alive,
         realm' \in RealmType, realm'.version <= latest, realm'.target <= latest,
         realm'.at \in {"refresh", "begin"} => realm'.target >= realm'.version,
         realm'.silent # {} => realm'.at = "write" /\ latest < MaxVersion,
         callback' \in [Callbacks -> CallbackType],
         wake' \in BOOLEAN, signal' \in BOOLEAN
  PROVE  BaseInv'
<1>1. TypeOK'
  BY DEF BaseInv, TypeOK, NotifierType, CallbackType, RealmType
<1>2. Main' = Main /\ Ran' = Ran
  BY DEF Main, Ran
<1>3. VersionsExist'
  BY DEF BaseInv, VersionsExist
<1>4. WorkerHasTheList'
  BY <1>2 DEF BaseInv, WorkerHasTheList, Ran, Main
<1>5. SkipIsAhead'
  BY <1>2 DEF BaseInv, SkipIsAhead, SkipFits, Ran, Main, TypeOK
<1> QED BY <1>1, <1>3, <1>4, <1>5 DEF BaseInv

LEMMA BaseRegister ==
  ASSUME BaseInv, NEW k \in Notifiers, Register(k)
  PROVE  BaseInv'
<1> USE Typed DEF BaseInv
<1>1. /\ notifier[k].list = "none" /\ notifier[k].alive
      /\ notifier' = [notifier EXCEPT ![k] = [@ EXCEPT !.list = "new", !.version = realm.version]]
      /\ UNCHANGED <<latest, realm, callback, skipVersion, worker, wake, signal>>
  BY DEF Register
<1>2. /\ notifier'[k] \in NotifierType /\ notifier'[k].run = notifier[k].run
      /\ notifier'[k].list = "new" /\ notifier'[k].version = realm.version
  <2>1. realm.version \in 0 .. MaxVersion
    BY DEF RealmType, Versions
  <2>2. notifier'[k] = [notifier[k] EXCEPT !.list = "new", !.version = realm.version]
    BY <1>1
  <2> QED BY <2>1, <2>2 DEF NotifierType
<1>3. \A n \in Notifiers \ {k} : notifier'[n] = notifier[n]
  BY <1>1
<1>4. notifier' \in [Notifiers -> NotifierType]
  BY <1>1, <1>2
<1>5. TypeOK'
  BY <1>1, <1>4 DEF TypeOK, NotifierType
<1>6. ~notifier[k].run
  BY <1>1 DEF WorkerHasTheList
<1>7. Main' = Main /\ Ran' = Ran /\ k \notin Ran
  BY <1>1, <1>2, <1>3 DEF Main, Ran
<1>8. VersionsExist'
  BY <1>1, <1>2, <1>3 DEF VersionsExist
<1>9. WorkerHasTheList'
  BY <1>1, <1>2, <1>3, <1>6, <1>7 DEF WorkerHasTheList, Ran, Main
<1>10. SkipIsAhead'
  <2>1. worker.at \in {"skip", "toSkip", "skipped"} => worker.old = Ran
    BY DEF WorkerHasTheList
  <2> QED BY <1>1, <1>3, <1>7, <2>1 DEF SkipIsAhead, SkipFits, Ran, Main
<1> QED BY <1>5, <1>8, <1>9, <1>10

LEMMA BaseUnregister ==
  ASSUME BaseInv, NEW k \in Notifiers, Unregister(k)
  PROVE  BaseInv'
<1> USE Typed DEF BaseInv
<1>1. /\ notifier' = [notifier EXCEPT ![k] = [@ EXCEPT !.alive = FALSE]]
      /\ UNCHANGED <<latest, realm, callback, skipVersion, worker, wake, signal>>
  BY DEF Unregister
<1>2. /\ notifier'[k] \in NotifierType /\ notifier'[k].run = notifier[k].run
      /\ notifier'[k].list = notifier[k].list /\ notifier'[k].version = notifier[k].version
      /\ ~notifier'[k].alive
  BY <1>1 DEF NotifierType
<1>3. \A n \in Notifiers \ {k} : notifier'[n] = notifier[n]
  BY <1>1
<1> QED BY <1>1, <1>2, <1>3, BaseKept DEF VersionsExist, TypeOK

LEMMA BaseAddCallback ==
  ASSUME BaseInv, NEW c \in Callbacks, AddCallback(c)
  PROVE  BaseInv'
<1> USE Typed DEF BaseInv
<1> DEFINE k == c[1]
<1>1. /\ callback' = [callback EXCEPT ![c] = [@ EXCEPT !.on = TRUE]]
      /\ notifier' = [notifier EXCEPT ![k] = [@ EXCEPT !.have = TRUE]]
      /\ wake' = TRUE
      /\ UNCHANGED <<latest, realm, skipVersion, worker, signal>>
  BY DEF AddCallback
<1>2. k \in Notifiers /\ callback[c] \in CallbackType
  OBVIOUS
<1> HIDE DEF k
<1>3. /\ notifier'[k] \in NotifierType /\ notifier'[k].run = notifier[k].run
      /\ notifier'[k].list = notifier[k].list /\ notifier'[k].version = notifier[k].version
      /\ notifier'[k].alive = notifier[k].alive
  BY <1>1, <1>2 DEF NotifierType
<1>4. \A n \in Notifiers \ {k} : notifier'[n] = notifier[n]
  BY <1>1, <1>2
<1>5. callback' \in [Callbacks -> CallbackType]
  BY <1>1, <1>2 DEF CallbackType
<1> QED BY <1>1, <1>2, <1>3, <1>4, <1>5, BaseKept DEF VersionsExist, TypeOK

LEMMA BaseRemoveCallback ==
  ASSUME BaseInv, NEW c \in Callbacks, RemoveCallback(c)
  PROVE  BaseInv'
<1> USE Typed DEF BaseInv
<1> DEFINE k == c[1]
           b == \E d \in CallbacksOf(c[1]) : callback'[d].on
<1>1. /\ callback' = [callback EXCEPT ![c] = [@ EXCEPT !.on = FALSE, !.skip = FALSE, !.acc = {}]]
      /\ UNCHANGED <<latest, realm, skipVersion, worker, wake, signal>>
  BY DEF RemoveCallback
<1>2. notifier' = [notifier EXCEPT ![k] = [@ EXCEPT !.have = b]] /\ b \in BOOLEAN
  BY Zenon DEF RemoveCallback
<1>3. k \in Notifiers /\ callback[c] \in CallbackType
  OBVIOUS
<1> HIDE DEF k, b
<1>4. /\ notifier'[k] \in NotifierType /\ notifier'[k].run = notifier[k].run
      /\ notifier'[k].list = notifier[k].list /\ notifier'[k].version = notifier[k].version
      /\ notifier'[k].alive = notifier[k].alive
  BY <1>2, <1>3 DEF NotifierType
<1>5. \A n \in Notifiers \ {k} : notifier'[n] = notifier[n]
  BY <1>2, <1>3
<1>6. callback' \in [Callbacks -> CallbackType]
  BY <1>1, <1>3 DEF CallbackType
<1> QED BY <1>1, <1>2, <1>3, <1>4, <1>5, <1>6, BaseKept DEF VersionsExist, TypeOK

\* The version to skip goes with the last notifier of the main list.
LEMMA SkipAfterFacts ==
  ASSUME BaseInv
  PROVE  \/ SkipAfter(notifier) = 0
         \/ /\ SkipAfter(notifier) = skipVersion /\ skipVersion # 0
            /\ \E n \in Notifiers : notifier[n].list = "main" /\ notifier[n].alive
<1>1. \A n \in Notifiers : Cleaned(notifier)[n].list = "main" =>
        notifier[n].list = "main" /\ notifier[n].alive
  BY Typed, CleanedFacts DEF BaseInv
<1>2. skipVersion # 0 => Listed(notifier, "main") # {}
  BY DEF BaseInv, SkipIsAhead, Main, Listed
<1> QED BY <1>1, <1>2 DEF SkipAfter, Listed

LEMMA BaseStart ==
  ASSUME BaseInv, Start
  PROVE  BaseInv'
<1> USE DEF BaseInv
<1> DEFINE ns == Cleaned(notifier)
           main == Listed(ns, "main")
           new == Listed(ns, "new")
           s == SkipAfter(notifier)
<1>1. worker = Idle /\ UNCHANGED <<latest, realm>> /\ wake' = FALSE
  BY DEF Start
<1>0. callback' \in [Callbacks -> CallbackType]
  <2>1. callback' = callback \/ callback' = Exposed(realm.silent)
    BY Zenon DEF Start
  <2>2. latest < MaxVersion \/ realm.silent = {}
    BY DEF VersionsExist
  <2> QED BY <2>1, <2>2, Typed, ExposedFacts
<1>2. \/ /\ main \cup new = {} /\ notifier' = ns /\ skipVersion' = s
         /\ signal' = TRUE /\ worker' = worker
      \/ /\ main \cup new # {}
         /\ notifier' = [n \in Notifiers |->
                           IF n \in new THEN [ns[n] EXCEPT !.list = "main"] ELSE ns[n]]
         /\ worker' = [at |-> IF s = 0 THEN "last" ELSE "skip", version |-> latest,
                       skip |-> s, old |-> main, new |-> new, out |-> {}]
         /\ skipVersion' = 0 /\ signal' = signal
  BY Zenon DEF Start
<1>3. /\ ns \in [Notifiers -> NotifierType]
      /\ \A n \in Notifiers :
           /\ ns[n].list = IF notifier[n].alive THEN notifier[n].list ELSE "none"
           /\ ns[n].version = notifier[n].version /\ ns[n].run = notifier[n].run
           /\ ns[n].alive = notifier[n].alive /\ ns[n].have = notifier[n].have
           /\ ns[n].changes = notifier[n].changes
  BY Typed, CleanedFacts
<1>4. /\ main = {n \in Notifiers : notifier[n].list = "main" /\ notifier[n].alive}
      /\ new = {n \in Notifiers : notifier[n].list = "new" /\ notifier[n].alive}
  BY <1>3 DEF Listed
<1>5. s = 0 \/ (s = skipVersion /\ skipVersion # 0 /\ main # {})
  BY <1>4, SkipAfterFacts
<1>6. \A n \in Notifiers : notifier[n].run => notifier[n].list = "main" \/ ~notifier[n].alive
  BY DEF WorkerHasTheList
<1>7. \A n \in main : notifier[n].run
  BY <1>1, <1>4 DEF WorkerHasTheList, Main, Ran, Idle
<1> HIDE DEF ns, main, new, s
<1>8. CASE main \cup new = {}
  <2>1. notifier' = ns /\ skipVersion' = s /\ signal' = TRUE /\ worker' = worker
    BY <1>2, <1>8
  <2>2. TypeOK'
    <3>1. wake' \in BOOLEAN /\ signal' \in BOOLEAN
      BY <1>1, <2>1
    <3>2. s \in 0 .. MaxVersion
      BY <1>5, Typed
    <3>3. notifier' \in [Notifiers -> NotifierType]
      BY <1>3, <2>1
    <3> QED BY <1>0, <1>1, <2>1, <3>1, <3>2, <3>3, Typed
         DEF TypeOK, NotifierType, RealmType, CallbackType, WorkerType
  <2>3. Main' = {} /\ Ran' = {}
    BY <1>3, <1>4, <1>8, <2>1 DEF Main, Ran
  <2>4. skipVersion' = 0
    BY <1>5, <1>8, <2>1
  <2>5. VersionsExist'
    BY <1>1, <1>3, <2>1, <2>4, Typed DEF VersionsExist, Versions
  <2>6. WorkerHasTheList'
    BY <1>1, <1>3, <1>6, <2>1, <2>3 DEF WorkerHasTheList, Idle
  <2>7. SkipIsAhead'
    BY <1>1, <2>1, <2>4 DEF SkipIsAhead, SkipFits, Idle
  <2> QED BY <2>2, <2>5, <2>6, <2>7
<1>9. CASE main \cup new # {}
  <2>1. /\ notifier' = [n \in Notifiers |->
                          IF n \in new THEN [ns[n] EXCEPT !.list = "main"] ELSE ns[n]]
        /\ worker' = [at |-> IF s = 0 THEN "last" ELSE "skip", version |-> latest,
                      skip |-> s, old |-> main, new |-> new, out |-> {}]
        /\ skipVersion' = 0 /\ signal' = signal
    BY <1>2, <1>9
  <2>2. ASSUME NEW n \in Notifiers
        PROVE  /\ notifier'[n] \in NotifierType
               /\ notifier'[n].list = IF n \in main \cup new THEN "main" ELSE "none"
               /\ notifier'[n].version = notifier[n].version
               /\ notifier'[n].run = notifier[n].run
               /\ notifier'[n].alive = notifier[n].alive
    <3>1. ns[n] \in NotifierType
      BY <1>3
    <3>2. CASE n \in new
      <4>1. notifier'[n] = [ns[n] EXCEPT !.list = "main"]
        BY <2>1, <3>2
      <4> QED BY <1>3, <3>1, <3>2, <4>1 DEF NotifierType
    <3>3. CASE n \notin new
      <4>1. notifier'[n] = ns[n]
        BY <2>1, <3>3
      <4>2. notifier[n].list \in {"none", "new", "main"}
        BY Typed DEF NotifierType
      <4> QED BY <1>3, <1>4, <3>1, <3>3, <4>1, <4>2
    <3> QED BY <3>2, <3>3
  <2>3. notifier' \in [Notifiers -> NotifierType]
    BY <2>1, <2>2
  <2>4. worker' \in WorkerType
    <3>1. s \in 0 .. MaxVersion /\ latest \in 0 .. MaxVersion
      BY <1>5, Typed DEF Versions
    <3> QED BY <1>4, <2>1, <3>1 DEF WorkerType
  <2>5. TypeOK'
    <3>1. wake' \in BOOLEAN /\ signal' \in BOOLEAN
      BY <1>1, <2>1, Zenon DEF TypeOK
    <3>2. skipVersion' \in 0 .. MaxVersion
      BY <2>1, Typed
    <3> QED BY <1>0, <1>1, <2>3, <2>4, <3>1, <3>2, Typed
         DEF TypeOK, NotifierType, RealmType, CallbackType, WorkerType
  <2>6. Main' = main \cup new /\ Ran' = main
    BY <1>4, <1>6, <1>7, <2>2 DEF Main, Ran
  <2>7. VersionsExist'
    <3>1. latest \in Nat /\ worker'.version = latest /\ skipVersion' = 0
      BY <2>1, Typed DEF Versions
    <3>2. \A n \in Notifiers : notifier'[n].version <= latest
      BY <2>2 DEF VersionsExist
    <3> QED BY <1>1, <3>1, <3>2 DEF VersionsExist
  <2>8. WorkerHasTheList'
    <3>1. main \subseteq Ran /\ new \cap main = {}
      BY <1>4, <1>7 DEF Main, Ran
    <3>2. worker'.new = new /\ worker'.old = main /\ worker'.at # "idle"
      BY <2>1
    <3>3. \A n, m \in main : notifier'[n].version = notifier'[m].version
      BY <1>4, <2>2, <3>1 DEF WorkerHasTheList
    <3>4. \A n \in Notifiers : notifier'[n].run =>
            notifier'[n].list = "main" \/ (notifier'[n].list = "none" /\ ~notifier'[n].alive)
      BY <1>4, <1>6, <2>2
    <3> QED BY <2>6, <3>1, <3>2, <3>3, <3>4 DEF WorkerHasTheList
  <2>9. SkipIsAhead'
    <3>1. main \subseteq Ran
      BY <1>4, <1>7 DEF Main, Ran
    <3>2. s # 0 => /\ main # {} /\ s <= latest
                   /\ \A n \in main : notifier'[n].version <= s
      BY <1>4, <1>5, <2>2, <3>1 DEF SkipIsAhead, VersionsExist
    <3>3. /\ worker'.at \in {"skip", "toSkip", "skipped"} => s # 0
          /\ worker'.old = main /\ worker'.skip = s /\ worker'.version = latest
      BY <2>1
    <3> QED BY <2>1, <3>2, <3>3 DEF SkipIsAhead, SkipFits
  <2> QED BY <2>5, <2>7, <2>8, <2>9
<1> QED BY <1>8, <1>9

\* The worker goes on, with the notifiers that the run leaves out.
LEMMA WorkerFacts ==
  ASSUME TypeOK, NEW at \in {"toSkip", "skipped", "last", "toLast", "ran"},
         NEW out \in SUBSET Notifiers,
         worker' = [worker EXCEPT !.at = at, !.out = out]
  PROVE  /\ worker' \in WorkerType /\ worker'.at = at /\ worker'.out = out
         /\ worker'.version = worker.version /\ worker'.skip = worker.skip
         /\ worker'.old = worker.old /\ worker'.new = worker.new
BY Typed DEF WorkerType

\* A run calculates changes and nothing else.
LEMMA RunFacts ==
  ASSUME TypeOK, NEW ns, NEW v \in 0 .. MaxVersion,
         NEW at \in {"skipped", "ran"}, Run(ns, v, at)
  PROVE  /\ notifier' \in [Notifiers -> NotifierType]
         /\ UNCHANGED <<latest, realm, callback, skipVersion, wake, signal>>
         /\ worker' \in WorkerType /\ worker'.at = at
         /\ worker'.out = worker.out \cup (ns \cap Silent)
         /\ worker'.version = worker.version /\ worker'.skip = worker.skip
         /\ worker'.old = worker.old /\ worker'.new = worker.new
         /\ \A n \in Notifiers :
              /\ notifier'[n].list = notifier[n].list
              /\ notifier'[n].version = notifier[n].version
              /\ notifier'[n].alive = notifier[n].alive
              /\ notifier'[n].run = notifier[n].run
              /\ notifier'[n].have = notifier[n].have
              /\ n \in ns \ worker'.out /\ notifier[n].alive /\ notifier[n].run =>
                   notifier'[n].changes = notifier[n].version + 1 .. v
              /\ ~(n \in ns \ worker'.out /\ notifier[n].alive /\ notifier[n].run) =>
                   notifier'[n] = notifier[n]
<1> DEFINE out == worker.out \cup (ns \cap Silent)
           calculates(n) == n \in ns \ out /\ notifier[n].alive /\ notifier[n].run
<1>1. UNCHANGED <<latest, realm, callback, skipVersion, wake, signal>>
  BY DEF Run
<1>2. worker' = [worker EXCEPT !.at = at, !.out = out] /\ out \subseteq Notifiers
  BY Typed DEF Run, Silent, WorkerType
<1>3. /\ worker' \in WorkerType /\ worker'.at = at /\ worker'.out = out
      /\ worker'.version = worker.version /\ worker'.skip = worker.skip
      /\ worker'.old = worker.old /\ worker'.new = worker.new
  <2> HIDE DEF out
  <2> QED BY <1>2, WorkerFacts
<1>4. notifier' = [n \in Notifiers |->
        IF calculates(n)
        THEN [notifier[n] EXCEPT !.changes = notifier[n].version + 1 .. v]
        ELSE notifier[n]]
  BY DEF Run
<1> HIDE DEF out
<1>5. ASSUME NEW n \in Notifiers
      PROVE  /\ notifier'[n] \in NotifierType
             /\ notifier'[n].list = notifier[n].list
             /\ notifier'[n].version = notifier[n].version
             /\ notifier'[n].alive = notifier[n].alive
             /\ notifier'[n].run = notifier[n].run
             /\ notifier'[n].have = notifier[n].have
             /\ n \in ns \ out /\ notifier[n].alive /\ notifier[n].run =>
                  notifier'[n].changes = notifier[n].version + 1 .. v
             /\ ~(n \in ns \ out /\ notifier[n].alive /\ notifier[n].run) =>
                  notifier'[n] = notifier[n]
  <2>1. CASE calculates(n)
    <3>1. notifier'[n] = [notifier[n] EXCEPT !.changes = notifier[n].version + 1 .. v]
      BY <1>4, <2>1
    <3>2. notifier[n].version + 1 .. v \subseteq Versions
      BY Typed DEF NotifierType, Versions
    <3> QED BY <2>1, <3>1, <3>2, Typed DEF NotifierType
  <2>2. CASE ~calculates(n)
    <3>1. notifier'[n] = notifier[n]
      BY <1>4, <2>2
    <3> QED BY <2>2, <3>1, Typed
  <2> QED BY <2>1, <2>2
<1>6. notifier' \in [Notifiers -> NotifierType]
  BY <1>4, <1>5
<1> QED BY <1>1, <1>3, <1>5, <1>6 DEF out

\* The two runs, up to what the worker does next, and what comes before them.
LEMMA BaseRun ==
  ASSUME BaseInv, Ask \/ RunToSkip \/ RunToLast
  PROVE  BaseInv'
<1> USE DEF BaseInv
<1> DEFINE Kept == /\ notifier' \in [Notifiers -> NotifierType]
                   /\ UNCHANGED <<latest, realm, callback, skipVersion, wake, signal>>
                   /\ \A n \in Notifiers :
                        /\ notifier'[n].list = notifier[n].list
                        /\ notifier'[n].version = notifier[n].version
                        /\ notifier'[n].alive = notifier[n].alive
                        /\ notifier'[n].run = notifier[n].run
                   /\ worker' \in WorkerType /\ worker'.version = worker.version
                   /\ worker'.skip = worker.skip
                   /\ worker'.old = worker.old /\ worker'.new = worker.new
           Goes == /\ worker.at # "idle" /\ worker'.at # "idle"
                   /\ worker'.at \in {"skip", "toSkip", "skipped"} =>
                        worker.at \in {"skip", "toSkip", "skipped"}
<1>1. ASSUME Kept, Goes
      PROVE  BaseInv'
  <2>1. /\ notifier' \in [Notifiers -> NotifierType]
        /\ UNCHANGED <<latest, realm, callback, skipVersion, wake, signal>>
        /\ \A n \in Notifiers :
             /\ notifier'[n].list = notifier[n].list
             /\ notifier'[n].version = notifier[n].version
             /\ notifier'[n].alive = notifier[n].alive
             /\ notifier'[n].run = notifier[n].run
    BY <1>1
  <2>2. /\ worker' \in WorkerType /\ worker'.version = worker.version
        /\ worker'.skip = worker.skip /\ worker'.old = worker.old /\ worker'.new = worker.new
    BY <1>1
  <2>3. TypeOK'
    BY <2>1, <2>2 DEF TypeOK, NotifierType, RealmType, CallbackType, WorkerType
  <2>4. Main' = Main /\ Ran' = Ran
    BY <2>1 DEF Main, Ran
  <2>5. VersionsExist'
    BY <2>1, <2>2 DEF VersionsExist
  <2>6. WorkerHasTheList'
    BY <1>1, <2>1, <2>2, <2>4 DEF WorkerHasTheList, Main, Ran
  <2>7. SkipIsAhead'
    <3>1. worker.old \subseteq Notifiers
      BY Typed DEF WorkerType
    <3> QED BY <1>1, <2>1, <2>2, <2>4, <3>1 DEF SkipIsAhead, SkipFits, Main, Ran
  <2> QED BY <2>3, <2>5, <2>6, <2>7
<1>2. worker.skip \in 0 .. MaxVersion /\ worker.version \in 0 .. MaxVersion
  BY Typed DEF WorkerType
<1>3. ASSUME NEW ns, NEW v \in 0 .. MaxVersion, NEW at \in {"skipped", "ran"}, Run(ns, v, at)
      PROVE  Kept /\ worker'.at = at
  BY <1>3, RunFacts
<1>4. CASE Ask
  <2>1. /\ worker.at \in {"skip", "last"}
        /\ worker' = [worker EXCEPT !.at = IF worker.at = "skip" THEN "toSkip" ELSE "toLast",
                                   !.out = worker.old \cap Silent]
        /\ UNCHANGED <<latest, realm, notifier, callback, skipVersion, wake, signal>>
    BY <1>4 DEF Ask
  <2>2. worker.old \cap Silent \in SUBSET Notifiers
    BY DEF Silent
  <2>3. CASE worker.at = "skip"
    BY <1>1, <2>1, <2>2, <2>3, WorkerFacts, Typed
  <2>4. CASE worker.at = "last"
    BY <1>1, <2>1, <2>2, <2>4, WorkerFacts, Typed
  <2> QED BY <2>1, <2>3, <2>4
<1>5. CASE RunToSkip
  <2>1. worker.at = "toSkip" /\ Run(worker.old, worker.skip, "skipped")
    BY <1>5 DEF RunToSkip
  <2> QED BY <1>1, <1>2, <1>3, <2>1
<1>6. CASE RunToLast
  <2>1. worker.at = "toLast" /\ Run(worker.old \cup worker.new, worker.version, "ran")
    BY <1>6 DEF RunToLast
  <2> QED BY <1>1, <1>2, <1>3, <2>1
<1> QED BY <1>4, <1>5, <1>6

LEMMA BaseHandOverSkip ==
  ASSUME BaseInv, HandOverSkip
  PROVE  BaseInv'
<1> USE DEF BaseInv
<1>1. /\ worker.at = "skipped" /\ worker' = [worker EXCEPT !.at = "last", !.out = {}]
      /\ notifier' = HandedOver(worker.old, worker.skip)
      /\ callback' = Given(worker.old, worker.skip)
      /\ UNCHANGED <<latest, realm, skipVersion, wake, signal>>
  BY DEF HandOverSkip
<1>2. /\ worker' \in WorkerType /\ worker'.version = worker.version
      /\ worker'.skip = worker.skip /\ worker'.old = worker.old /\ worker'.new = worker.new
      /\ worker'.at = "last" /\ worker.skip \in 0 .. MaxVersion
  BY <1>1, WorkerFacts, Typed DEF WorkerType
<1>3. /\ notifier' \in [Notifiers -> NotifierType]
      /\ \A n \in Notifiers :
           /\ notifier'[n].list = notifier[n].list /\ notifier'[n].alive = notifier[n].alive
           /\ n \in worker.old => notifier'[n].version = worker.skip /\ notifier'[n].run
           /\ n \notin worker.old => notifier'[n] = notifier[n]
  BY <1>1, <1>2, HandedOverFacts
<1>4. callback' \in [Callbacks -> CallbackType]
  BY <1>1, <1>2, GivenFacts
<1>5. TypeOK'
  BY <1>1, <1>2, <1>3, <1>4 DEF TypeOK, NotifierType, RealmType, CallbackType, WorkerType
<1>6. worker.old = Ran
  BY <1>1 DEF WorkerHasTheList
<1>7. Main' = Main /\ Ran' = Ran
  BY <1>3, <1>6 DEF Main, Ran
<1>8. worker.skip <= worker.version /\ worker.version <= latest
  BY <1>1 DEF SkipIsAhead, SkipFits, VersionsExist
<1>9. VersionsExist'
  <2>1. \A n \in Notifiers : notifier'[n].version <= latest
    BY <1>2, <1>3, <1>8, Typed DEF VersionsExist, WorkerType, Versions
  <2> QED BY <1>1, <1>2, <2>1 DEF VersionsExist
<1>10. WorkerHasTheList'
  BY <1>1, <1>2, <1>3, <1>6, <1>7 DEF WorkerHasTheList, Main, Ran
<1>11. SkipIsAhead'
  <2>1. skipVersion # 0 => worker.skip <= skipVersion
    BY <1>2, <1>8, Typed DEF SkipIsAhead, WorkerType
  <2>2. \A n \in Ran : notifier'[n].version = worker.skip
    BY <1>3, <1>6 DEF Main, Ran
  <2> QED BY <1>1, <1>2, <1>7, <2>1, <2>2 DEF SkipIsAhead, SkipFits
<1> QED BY <1>5, <1>9, <1>10, <1>11

LEMMA BaseHandOverLast ==
  ASSUME BaseInv, HandOverLast
  PROVE  BaseInv'
<1> USE DEF BaseInv
<1> DEFINE v == worker.version
           hs == HandedOver(worker.old \cup worker.new, v)
<1>1. /\ worker.at = "ran" /\ worker' = Idle
      /\ notifier' = Cleaned(hs)
      /\ callback' = Given(worker.old \cup worker.new, v)
      /\ skipVersion' = SkipAfter(notifier) /\ signal' = TRUE
      /\ UNCHANGED <<latest, realm, wake>>
  BY DEF HandOverLast
<1>2. worker.old \cup worker.new = Main
  BY <1>1 DEF WorkerHasTheList, Ran
<1>3. v \in 0 .. MaxVersion /\ v <= latest
  BY Typed DEF WorkerType, VersionsExist
<1>4. /\ hs \in [Notifiers -> NotifierType]
      /\ \A n \in Notifiers :
           /\ hs[n].list = notifier[n].list /\ hs[n].alive = notifier[n].alive
           /\ n \in Main => hs[n].version = v /\ hs[n].run
           /\ n \notin Main => hs[n] = notifier[n]
  BY <1>2, <1>3, HandedOverFacts
<1> HIDE DEF hs
<1>5. /\ notifier' \in [Notifiers -> NotifierType]
      /\ \A n \in Notifiers :
           /\ notifier'[n].list = IF notifier[n].alive THEN notifier[n].list ELSE "none"
           /\ notifier'[n].alive = notifier[n].alive
           /\ n \in Main => notifier'[n].version = v /\ notifier'[n].run
           /\ n \notin Main => /\ notifier'[n].version = notifier[n].version
                               /\ notifier'[n].run = notifier[n].run
  BY <1>1, <1>4, CleanedFacts
<1>6. callback' \in [Callbacks -> CallbackType]
  BY <1>1, <1>3, GivenFacts
<1>7. \/ skipVersion' = 0
      \/ /\ skipVersion' = skipVersion /\ skipVersion # 0
         /\ \E n \in Notifiers : notifier[n].list = "main" /\ notifier[n].alive
  BY <1>1, SkipAfterFacts
<1>8. TypeOK'
  <2>1. wake' \in BOOLEAN /\ signal' \in BOOLEAN
    BY <1>1, Zenon DEF TypeOK
  <2>2. worker' \in WorkerType /\ skipVersion' \in 0 .. MaxVersion
    BY <1>1, <1>7, Typed DEF WorkerType, Idle
  <2> QED BY <1>1, <1>5, <1>6, <2>1, <2>2
       DEF TypeOK, NotifierType, RealmType, CallbackType, WorkerType
<1>9. Main' = {n \in Main : notifier[n].alive} /\ Ran' = Main'
  BY <1>5, Typed DEF Main, Ran, NotifierType
<1>10. VersionsExist'
  <2>1. \A n \in Notifiers : notifier'[n].version <= latest
    BY <1>3, <1>5 DEF VersionsExist
  <2>2. skipVersion' <= latest /\ 0 <= latest
    BY <1>7, Typed DEF VersionsExist, Versions
  <2> QED BY <1>1, <2>1, <2>2 DEF VersionsExist, Idle
<1>11. WorkerHasTheList'
  <2>1. \A n \in Notifiers : notifier'[n].run =>
          notifier'[n].list = "main" \/ (notifier'[n].list = "none" /\ ~notifier'[n].alive)
    BY <1>5 DEF WorkerHasTheList, Main
  <2>2. \A n \in Ran' : notifier'[n].version = v
    BY <1>5, <1>9 DEF Main
  <2>3. worker'.new = {} /\ Main' \ Ran' = {} /\ worker' = Idle
    BY <1>1, <1>9 DEF Idle
  <2> QED BY <2>1, <2>2, <2>3 DEF WorkerHasTheList, Idle
<1>12. SkipIsAhead'
  <2>1. skipVersion # 0 => v <= skipVersion
    BY DEF SkipIsAhead
  <2>2. worker'.version = 0 /\ worker'.at = "idle" /\ skipVersion \in Nat
    BY <1>1, Typed DEF Idle
  <2> QED BY <1>5, <1>7, <1>9, <2>1, <2>2 DEF SkipIsAhead, SkipFits, Main
<1> QED BY <1>8, <1>10, <1>11, <1>12

\* What a delivery is, by Realm::notify, a refresh or the begin of a transaction:
\* nothing; a step to the latest version with no notifiers that anybody listens to;
\* nothing but that of notifiers that are behind; a call of those that are where
\* the Realm is; or a step to where they are, and their call.
Delivered ==
  \/ callback' = callback /\ realm'.version = realm.version
  \/ callback' = callback /\ realm'.version = latest /\ HaveRun = {}
  \/ /\ callback' = Packaged(HaveRun) /\ realm'.version = latest
     /\ \A n \in HaveRun : ~notifier[n].have
  \/ /\ callback' = Packaged(HaveRun) /\ realm'.version = realm.version
     /\ \A n \in HaveRun : notifier[n].version < realm.version
  \/ /\ callback' = Called({n \in HaveRun : notifier[n].version = realm.version}, realm.version)
     /\ realm'.version = realm.version
  \/ \E v \in Versions :
       /\ realm.version <= v /\ v <= latest /\ realm'.version = v
       /\ HaveRun # {} /\ \A n \in HaveRun : notifier[n].version = v
       /\ callback' = Called(HaveRun, v)

\* Notifiers that have run are at one version that exists.
LEMMA HaveRunFacts ==
  ASSUME BaseInv
  PROVE  /\ HaveRun \subseteq Ran /\ Ran \subseteq Notifiers
         /\ \A n \in HaveRun : /\ notifier[n].version <= latest /\ notifier[n].version \in Nat
                               /\ notifier[n].alive /\ notifier[n].run
         /\ \A n, m \in HaveRun : notifier[n].version = notifier[m].version
         /\ realm.version \in Versions /\ latest \in Versions /\ realm.target \in Nat
         /\ realm.version <= latest /\ realm.target <= latest
<1> USE DEF BaseInv
<1>1. HaveRun \subseteq Ran /\ Ran \subseteq Notifiers
  BY DEF HaveRun, Ours, Ran, Main, WorkerHasTheList
<1>2. \A n \in HaveRun : /\ notifier[n].version <= latest /\ notifier[n].version \in Nat
                         /\ notifier[n].alive /\ notifier[n].run
  BY <1>1, Typed DEF HaveRun, Ours, VersionsExist, NotifierType
<1>3. realm.version \in Versions /\ latest \in Versions /\ realm.target \in Nat
  BY Typed DEF RealmType
<1> QED BY <1>1, <1>2, <1>3 DEF WorkerHasTheList, VersionsExist

LEMMA DeliveredTyped ==
  ASSUME BaseInv, Delivered
  PROVE  /\ callback' \in [Callbacks -> CallbackType]
         /\ realm'.version \in Versions
         /\ realm.version <= realm'.version /\ realm'.version <= latest
<1> USE DEF BaseInv
<1>1. /\ realm.version \in Versions /\ latest \in Versions /\ realm.version <= latest
      /\ \A v \in Versions : v <= v
  BY HaveRunFacts DEF Versions
<1>2. CASE callback' = callback /\ realm'.version \in {realm.version, latest}
  BY <1>1, <1>2, Typed
<1>3. CASE callback' = Packaged(HaveRun) /\ realm'.version \in {realm.version, latest}
  BY <1>1, <1>3, PackagedFacts
<1>4. ASSUME NEW ns, NEW v \in Versions, callback' = Called(ns, v)
      PROVE  callback' \in [Callbacks -> CallbackType]
  BY <1>4, CalledFacts
<1> QED BY <1>1, <1>2, <1>3, <1>4 DEF Delivered

LEMMA NotifyDelivers ==
  ASSUME BaseInv, Notify
  PROVE  /\ Delivered
         /\ \/ UNCHANGED realm
            \/ \E v \in Versions : realm' = [realm EXCEPT !.version = v]
<1>1. \/ UNCHANGED <<realm, callback>> \/ ProcessAvailable \/ AdvanceToReady
  BY DEF Notify
<1>2. CASE UNCHANGED <<realm, callback>>
  BY <1>2 DEF Delivered
<1>3. CASE ProcessAvailable
  <2>1. realm.version \in Versions /\ realm.version <= realm.version /\ realm.version <= latest
    BY HaveRunFacts DEF Versions
  <2>2. /\ callback' = Called({n \in HaveRun : notifier[n].version = realm.version}, realm.version)
        /\ realm' = realm
    BY <1>3 DEF ProcessAvailable
  <2> QED BY <2>1, <2>2 DEF Delivered
<1>4. CASE AdvanceToReady
  <2>1. \A v \in Versions : realm' = [realm EXCEPT !.version = v] => realm'.version = v
    BY Typed DEF BaseInv, RealmType
  <2>2. CASE HaveRun = {} /\ realm' = [realm EXCEPT !.version = latest] /\ UNCHANGED callback
    BY <2>1, <2>2, HaveRunFacts DEF Delivered
  <2>3. ASSUME NEW n \in HaveRun, notifier[n].version < realm.version,
               callback' = Packaged(HaveRun), UNCHANGED realm
        PROVE  Delivered
    BY <2>3, HaveRunFacts DEF Delivered
  <2>4. ASSUME NEW n \in HaveRun, ~(notifier[n].version < realm.version),
               callback' = Called(HaveRun, notifier[n].version),
               realm' = [realm EXCEPT !.version = notifier[n].version]
        PROVE  Delivered /\ notifier[n].version \in Versions
    <3>1. /\ notifier[n].version \in Versions /\ realm.version <= notifier[n].version
          /\ notifier[n].version <= latest
      BY <2>4, HaveRunFacts, NotificationsAssumption DEF Versions
    <3>2. HaveRun # {} /\ \A m \in HaveRun : notifier[m].version = notifier[n].version
      BY HaveRunFacts
    <3> QED BY <2>1, <2>4, <3>1, <3>2 DEF Delivered
  <2> QED BY <1>4, <2>2, <2>3, <2>4, HaveRunFacts DEF AdvanceToReady
<1> QED BY <1>1, <1>2, <1>3, <1>4 DEF ProcessAvailable

LEMMA StopWaitingDelivers ==
  ASSUME BaseInv, StopWaiting
  PROVE  /\ Delivered
         /\ realm' \in RealmType /\ realm'.target = 0
         /\ realm'.at = IF realm.at = "begin" THEN "write" ELSE "read"
         /\ realm'.silent = realm.silent
         /\ realm'.version >= realm.target
         /\ \A n \in HaveRun : notifier[n].have =>
              realm'.version = notifier[n].version /\ callback' = Called(HaveRun, realm'.version)
<1> DEFINE stay == IF realm.at = "begin" THEN "write" ELSE "read"
           At(v) == realm' = [realm EXCEPT !.at = stay, !.version = v, !.target = 0, !.woke = FALSE]
           Goal == /\ Delivered
                   /\ realm' \in RealmType /\ realm'.target = 0
                   /\ realm'.at = IF realm.at = "begin" THEN "write" ELSE "read"
                   /\ realm'.silent = realm.silent
                   /\ realm'.version >= realm.target
                   /\ \A n \in HaveRun : notifier[n].have =>
                        realm'.version = notifier[n].version /\ callback' = Called(HaveRun, realm'.version)
<1>1. ASSUME NEW v \in Versions, At(v)
      PROVE  /\ realm' \in RealmType /\ realm'.target = 0 /\ realm'.version = v
             /\ realm'.at = stay /\ realm'.silent = realm.silent
  <2>1. stay \in {"read", "write"} /\ 0 \in 0 .. MaxVersion /\ realm \in RealmType
    BY Typed DEF BaseInv
  <2> HIDE DEF stay
  <2> QED BY <1>1, <2>1 DEF RealmType
<1>2. \/ HaveRun = {} /\ At(latest) /\ UNCHANGED callback
      \/ \E n \in HaveRun :
           IF notifier[n].version < realm.target
           THEN callback' = Packaged(HaveRun) /\ At(latest)
           ELSE callback' = Called(HaveRun, notifier[n].version) /\ At(notifier[n].version)
  BY DEF StopWaiting
<1>3. realm.target >= realm.version
  BY DEF StopWaiting, BaseInv, VersionsExist
<1> HIDE DEF At, stay
<1>4. CASE HaveRun = {} /\ At(latest) /\ UNCHANGED callback
  BY <1>1, <1>4, HaveRunFacts DEF Delivered, stay, Versions
<1>5. ASSUME NEW n \in HaveRun, notifier[n].version < realm.target,
             callback' = Packaged(HaveRun), At(latest)
      PROVE  Goal
  <2>1. \A m \in HaveRun : notifier[m].version < realm.target
    BY <1>5, HaveRunFacts
  <2>2. ASSUME NEW m \in HaveRun
        PROVE  ~notifier[m].have
    <3>1. m \in Ours
      BY DEF HaveRun
    <3>2. notifier[m].have => notifier[m].version >= realm.target
      BY <3>1 DEF StopWaiting, Ready
    <3> QED BY <2>1, <3>2, HaveRunFacts
  <2> QED BY <1>1, <1>5, <2>2, HaveRunFacts DEF Delivered, stay, Versions
<1>6. ASSUME NEW n \in HaveRun, ~(notifier[n].version < realm.target),
             callback' = Called(HaveRun, notifier[n].version), At(notifier[n].version)
      PROVE  Goal
  <2>1. notifier[n].version >= realm.target /\ notifier[n].version <= latest
    BY <1>6, HaveRunFacts
  <2>2. notifier[n].version \in Versions
    BY <1>3, <2>1, HaveRunFacts, NotificationsAssumption DEF Versions
  <2>3. HaveRun # {} /\ \A m \in HaveRun : notifier[m].version = notifier[n].version
    BY HaveRunFacts
  <2>4. realm.version <= notifier[n].version
    BY <1>3, <2>1, HaveRunFacts DEF Versions
  <2> QED BY <1>1, <1>6, <2>1, <2>2, <2>3, <2>4 DEF Delivered, stay
<1> QED BY <1>2, <1>4, <1>5, <1>6

LEMMA BaseNotify ==
  ASSUME BaseInv, Notify
  PROVE  BaseInv'
<1>1. UNCHANGED <<latest, notifier, skipVersion, worker, wake>> /\ signal' = FALSE
  BY DEF Notify
<1>2. /\ realm' \in RealmType /\ realm'.target = realm.target /\ realm'.at = realm.at
      /\ realm.at \in {"read", "write"}
  <2>1. realm \in RealmType /\ realm.at \in {"read", "write"}
    BY Typed DEF BaseInv, Notify
  <2> QED BY <2>1, NotifyDelivers DEF RealmType
<1>3. callback' \in [Callbacks -> CallbackType] /\ realm'.version <= latest
  BY NotifyDelivers, DeliveredTyped
<1>4. realm'.silent = {}
  <2>1. realm \in RealmType /\ realm.silent = {}
    BY Typed DEF BaseInv, Notify
  <2> QED BY <2>1, NotifyDelivers DEF RealmType
<1> QED BY <1>1, <1>2, <1>3, <1>4, BaseKept, Typed DEF BaseInv, TypeOK, VersionsExist

LEMMA BaseStopWaiting ==
  ASSUME BaseInv, StopWaiting
  PROVE  BaseInv'
<1>1. UNCHANGED <<latest, notifier, skipVersion, worker, wake, signal>>
  BY DEF StopWaiting
<1>2. callback' \in [Callbacks -> CallbackType] /\ realm'.version <= latest
  BY StopWaitingDelivers, DeliveredTyped
<1>3. realm'.target <= latest /\ realm'.at \notin {"refresh", "begin"}
  BY StopWaitingDelivers, HaveRunFacts DEF Versions
<1>4. realm'.silent = {}
  <2>1. realm.at # "write"
    BY DEF StopWaiting
  <2> QED BY <2>1, StopWaitingDelivers DEF BaseInv, VersionsExist
<1> QED BY <1>1, <1>2, <1>3, <1>4, StopWaitingDelivers, BaseKept, Typed
         DEF BaseInv, TypeOK, VersionsExist

\* The other steps of the Realm's thread up to a commit.
LEMMA BaseWait ==
  ASSUME BaseInv, Refresh \/ Begin \/ WakeWorker
  PROVE  BaseInv'
<1>1. UNCHANGED <<latest, notifier, callback, skipVersion, worker, signal>>
  BY DEF Refresh, Begin, Await, WakeWorker
<1>2. wake' \in BOOLEAN /\ signal' \in BOOLEAN
  <2>1. wake' = wake \/ wake' = TRUE
    BY DEF Refresh, Begin, Await, WakeWorker
  <2> QED BY <1>1, <2>1, Zenon DEF BaseInv, TypeOK
<1>3. /\ realm' \in RealmType /\ realm'.version = realm.version
      /\ \/ realm'.target = latest
         \/ realm'.target = realm.target /\ realm'.at = realm.at
  <2>1. realm \in RealmType /\ latest \in 0 .. MaxVersion
    BY Typed DEF BaseInv, Versions
  <2>2. CASE Refresh \/ Begin
    BY <2>1, <2>2 DEF Refresh, Begin, Await, RealmType
  <2>3. CASE WakeWorker
    BY <2>1, <2>3 DEF WakeWorker, RealmType
  <2> QED BY <2>2, <2>3
<1>4. realm'.target <= latest /\ (realm'.at \in {"refresh", "begin"} => realm'.target >= realm'.version)
  BY <1>3, HaveRunFacts DEF BaseInv, VersionsExist, Versions
<1>5. realm'.version <= latest /\ callback' \in [Callbacks -> CallbackType]
  BY <1>1, <1>3, HaveRunFacts, Typed DEF BaseInv
<1>6. realm'.silent = {}
  <2>1. realm.at # "write" /\ realm \in RealmType
    BY Typed DEF BaseInv, Refresh, Begin, Await, WakeWorker
  <2>2. realm.silent = {}
    BY <2>1 DEF BaseInv, VersionsExist
  <2> QED BY <2>1, <2>2 DEF Refresh, Begin, Await, WakeWorker, RealmType
<1> QED BY <1>1, <1>2, <1>3, <1>4, <1>5, <1>6, BaseKept, Typed DEF BaseInv

LEMMA BaseSuppress ==
  ASSUME BaseInv, NEW cs \in SUBSET Callbacks, Suppress(cs)
  PROVE  BaseInv'
<1>1. UNCHANGED <<latest, notifier, skipVersion, worker, wake, signal>>
  BY DEF Suppress
<1>2. /\ realm' \in RealmType /\ realm'.version = realm.version
      /\ realm'.target = realm.target /\ realm'.at = realm.at
  BY Typed DEF BaseInv, Suppress, RealmType
<1>4. realm'.at = "write" /\ latest < MaxVersion
  BY <1>2 DEF Suppress
<1>3. callback' \in [Callbacks -> CallbackType]
  <2>1. ASSUME NEW c \in Callbacks
        PROVE  callback'[c] \in CallbackType
    <3>1. \/ callback'[c] = callback[c]
          \/ callback'[c] = [callback[c] EXCEPT !.skip = TRUE]
          \/ callback'[c] = [Exposed(cs)[c] EXCEPT !.skip = TRUE]
      BY DEF Suppress
    <3>2. Exposed(cs)[c] \in CallbackType
      BY ExposedFacts DEF BaseInv, Suppress
    <3> QED BY <3>1, <3>2, Typed DEF BaseInv, CallbackType
  <2>2. callback' = [c \in Callbacks |-> callback'[c]]
    BY DEF Suppress
  <2> QED BY <2>1, <2>2
<1> QED BY <1>1, <1>2, <1>3, <1>4, BaseKept, Typed DEF BaseInv, TypeOK, VersionsExist

LEMMA BaseCancel ==
  ASSUME BaseInv, Cancel
  PROVE  BaseInv'
<1>1. UNCHANGED <<latest, notifier, callback, skipVersion, worker, wake, signal>>
  BY DEF Cancel
<1>2. /\ realm' \in RealmType /\ realm'.version = realm.version
      /\ realm'.target = realm.target /\ realm'.at = "read" /\ realm'.silent = {}
  BY Typed DEF BaseInv, Cancel, RealmType
<1> QED BY <1>1, <1>2, BaseKept, Typed DEF BaseInv, TypeOK, VersionsExist

\* The file grows by a version.
LEMMA BaseGrows ==
  ASSUME BaseInv, latest < MaxVersion, latest' = latest + 1,
         UNCHANGED <<notifier, worker, signal>>, wake' = TRUE,
         callback' \in [Callbacks -> CallbackType],
         realm' \in RealmType, realm'.target = realm.target, realm'.silent = {},
         \/ realm' = realm
         \/ realm'.version = latest' /\ realm'.at = "read",
         \/ skipVersion' = skipVersion
         \/ skipVersion' = latest' /\ Main # {}
  PROVE  BaseInv'
<1>1. /\ latest \in Nat /\ latest' \in Versions
      /\ skipVersion \in 0 .. MaxVersion /\ skipVersion' \in 0 .. MaxVersion
      /\ worker.version \in Nat /\ \A n \in Notifiers : notifier[n].version \in Nat
  BY Typed, NotificationsAssumption DEF BaseInv, Versions, WorkerType, NotifierType
<1>2. TypeOK'
  <2>1. wake' \in BOOLEAN /\ signal' \in BOOLEAN
    BY Zenon DEF BaseInv, TypeOK
  <2> QED BY <1>1, <2>1, Typed
       DEF BaseInv, TypeOK, NotifierType, RealmType, CallbackType, WorkerType
<1>3. Main' = Main /\ Ran' = Ran /\ Ran \subseteq Notifiers
  BY DEF Main, Ran
<1>4. VersionsExist'
  <2>1. realm.version \in Nat /\ realm.target \in Nat
    BY HaveRunFacts DEF Versions
  <2>2. \A n \in Notifiers : notifier[n].version <= latest'
    BY <1>1 DEF BaseInv, VersionsExist
  <2>3. skipVersion' <= latest' /\ worker.version <= latest'
    BY <1>1 DEF BaseInv, VersionsExist
  <2>4. realm'.version <= latest' /\ realm'.target <= latest'
    BY <1>1, <2>1 DEF BaseInv, VersionsExist
  <2>5. realm'.at \in {"refresh", "begin"} => realm'.target >= realm'.version
    BY DEF BaseInv, VersionsExist
  <2> QED BY <2>2, <2>3, <2>4, <2>5 DEF VersionsExist
<1>5. WorkerHasTheList'
  BY <1>3 DEF BaseInv, WorkerHasTheList, Ran, Main
<1>6. SkipIsAhead'
  <2>1. worker.version <= latest' /\ \A n \in Ran : notifier[n].version <= latest'
    BY <1>1, <1>3 DEF BaseInv, VersionsExist
  <2>2. SkipFits'
    BY DEF BaseInv, SkipIsAhead, SkipFits
  <2> QED BY <1>3, <2>1, <2>2 DEF BaseInv, SkipIsAhead
<1> QED BY <1>2, <1>4, <1>5, <1>6 DEF BaseInv

LEMMA BaseCommit ==
  ASSUME BaseInv, Commit
  PROVE  BaseInv'
<1>1. /\ latest < MaxVersion /\ latest' = latest + 1
      /\ realm' = [realm EXCEPT !.at = "read", !.version = latest', !.silent = {}]
      /\ skipVersion' = IF \E n \in Ours : notifier[n].list = "main" THEN latest' ELSE skipVersion
      /\ wake' = TRUE /\ UNCHANGED <<notifier, worker, signal>>
  BY DEF Commit
<1>2. latest' \in Versions
  BY <1>1, Typed DEF BaseInv, Versions
<1>3. /\ realm' \in RealmType /\ realm'.target = realm.target
      /\ realm'.version = latest' /\ realm'.at = "read"
  BY <1>1, <1>2, Typed DEF BaseInv, RealmType
<1>6. realm'.silent = {}
  BY <1>1, Typed DEF BaseInv, RealmType
<1>4. skipVersion' = skipVersion \/ (skipVersion' = latest' /\ Main # {})
  BY <1>1 DEF Ours, Main
<1>5. callback' \in [Callbacks -> CallbackType]
  <2>1. ASSUME NEW c \in Callbacks
        PROVE  callback'[c] \in CallbackType
    <3>1. callback'[c] = IF c \in realm.silent /\ callback[c].initial
                         THEN [callback[c] EXCEPT !.told = callback[c].told \cup {latest'}]
                         ELSE callback[c]
      BY DEF Commit
    <3> QED BY <1>2, <3>1, Typed DEF BaseInv, CallbackType
  <2>2. callback' = [c \in Callbacks |-> callback'[c]]
    BY DEF Commit
  <2> QED BY <2>1, <2>2
<1> QED BY <1>1, <1>3, <1>4, <1>5, <1>6, BaseGrows

LEMMA BaseOtherCommit ==
  ASSUME BaseInv, OtherCommit
  PROVE  BaseInv'
<1>1. realm'.silent = {} /\ realm' = realm
  BY DEF BaseInv, VersionsExist, OtherCommit
<1> QED BY <1>1, BaseGrows, Typed DEF BaseInv, OtherCommit

LEMMA BaseNext == BaseInv /\ [Next]_vars => BaseInv'
<1> SUFFICES ASSUME BaseInv, [Next]_vars PROVE BaseInv'
  OBVIOUS
<1>1. CASE Worker
  BY <1>1, BaseStart, BaseRun, BaseHandOverSkip, BaseHandOverLast DEF Worker
<1>2. ASSUME NEW n \in Notifiers, Register(n) \/ Unregister(n)
      PROVE  BaseInv'
  BY <1>2, BaseRegister, BaseUnregister
<1>3. ASSUME NEW c \in Callbacks, AddCallback(c) \/ RemoveCallback(c)
      PROVE  BaseInv'
  BY <1>3, BaseAddCallback, BaseRemoveCallback
<1>4. ASSUME NEW cs \in SUBSET Callbacks, Suppress(cs)
      PROVE  BaseInv'
  BY <1>4, BaseSuppress
<1>5. CASE UNCHANGED vars
  <2> USE DEF BaseInv
  <2>1. Main' = Main /\ Ran' = Ran
    BY <1>5 DEF vars, Main, Ran
  <2> QED BY <1>5, <2>1 DEF vars, TypeOK, VersionsExist, WorkerHasTheList, SkipIsAhead, SkipFits
<1> QED BY <1>1, <1>2, <1>3, <1>4, <1>5, BaseNotify, BaseWait, BaseStopWaiting,
           BaseCommit, BaseCancel, BaseOtherCommit DEF Next

\* Whatever the Realm and the worker do, the collections of a Realm that have
\* results have them of one version, and a version to skip is there only with
\* notifiers that are not past it.
THEOREM NotificationsInvariant == Spec => []NotifierInv
<1>1. BaseInv => NotifierInv
  BY HaveRunFacts DEF BaseInv, SkipIsAhead, NotifierInv, CollectionsAgree
<1> QED BY <1>1, BaseInit, BaseNext, PTL DEF Spec

-------------------------------------------------------------------------------
\* Every step keeps FollowInv.

Inv == BaseInv /\ FollowInv

LEMMA FollowerFacts ==
  ASSUME Inv, NEW c \in Callbacks
  PROVE  /\ c[1] \in Notifiers /\ callback[c] \in CallbackType
         /\ notifier[c[1]] \in NotifierType /\ notifier[c[1]].version \in Nat
         /\ realm \in RealmType /\ realm.version \in Nat /\ latest \in Nat
         /\ Registered(c) /\ Knows(c) /\ WriterTold(c)
         /\ WriterIsAlone /\ RunsForAll
         /\ callback[c].on => notifier[c[1]].have
         /\ callback[c].initial => notifier[c[1]].run
         /\ Following(c) => c[1] \in HaveRun /\ c[1] \in Ran
         /\ ~(realm.at = "write") => realm.silent = {}
<1> USE DEF Inv
<1>1. /\ c[1] \in Notifiers /\ callback[c] \in CallbackType
      /\ notifier[c[1]] \in NotifierType /\ notifier[c[1]].version \in Nat
      /\ realm \in RealmType /\ realm.version \in Nat /\ latest \in Nat
  BY Typed DEF BaseInv, NotifierType, RealmType, Versions
<1>2. /\ Registered(c) /\ Knows(c) /\ WriterTold(c) /\ WriterIsAlone /\ RunsForAll
  BY DEF FollowInv
<1>3. callback[c].on => notifier[c[1]].have
  BY <1>2 DEF Registered
<1>4. callback[c].initial => notifier[c[1]].run
  BY <1>2 DEF Registered
<1>5. Following(c) => c[1] \in HaveRun /\ c[1] \in Ran
  BY <1>4, HaveRunFacts DEF Following, HaveRun
<1>6. ~(realm.at = "write") => realm.silent = {}
  BY DEF BaseInv, VersionsExist
<1> QED BY <1>1, <1>2, <1>3, <1>4, <1>5, <1>6

\* Steps that leave a callback and the version of its notifier alone.
LEMMA KnowsKept ==
  ASSUME NEW c \in Callbacks, Knows(c),
         Following(c)' => Following(c),
         callback'[c] = callback[c],
         notifier'[c[1]].version = notifier[c[1]].version,
         realm'.version = realm.version,
         Following(c) /\ Pending(c) => Pending(c)',
         c \in realm.silent => c \in realm'.silent
  PROVE  Knows(c)'
BY DEF Knows

LEMMA PendingKept ==
  ASSUME NEW c \in Callbacks, UNCHANGED <<worker, skipVersion>>,
         notifier'[c[1]].version = notifier[c[1]].version,
         realm'.version = realm.version,
         callback'[c].exposed = callback[c].exposed
  PROVE  Pending(c) => Pending(c)'
BY DEF Pending

LEMMA FollowInit == Init => FollowInv
<1> SUFFICES ASSUME Init PROVE FollowInv
  OBVIOUS
<1>1. /\ worker = Idle /\ latest = 1 /\ realm.silent = {} /\ realm.at = "read"
  BY DEF Init
<1>2. \A n \in Notifiers : ~notifier[n].have /\ notifier[n].changes = {}
  BY DEF Init
<1>3. \A c \in Callbacks : ~callback[c].on /\ ~callback[c].skip /\ ~callback[c].initial
  BY DEF Init
<1>4. WriterIsAlone /\ RunsForAll
  BY <1>1, <1>2 DEF WriterIsAlone, RunsForAll, Idle
<1> QED BY <1>1, <1>3, <1>4 DEF FollowInv, Registered, Knows, WriterTold, Following

LEMMA FollowWait ==
  ASSUME Inv, Refresh \/ Begin \/ WakeWorker \/ Cancel
  PROVE  FollowInv'
<1>1. UNCHANGED <<latest, notifier, callback, skipVersion, worker>>
  BY DEF Refresh, Begin, Await, WakeWorker, Cancel
<1>2. /\ realm \in RealmType /\ WriterIsAlone /\ RunsForAll
      /\ realm.silent # {} => realm.at = "write"
  BY Typed DEF Inv, BaseInv, VersionsExist, FollowInv
<1>3. /\ realm'.version = realm.version /\ realm'.silent = realm.silent
      /\ \/ realm'.at = realm.at /\ realm'.target = realm.target
         \/ realm'.at # "write" /\ realm'.target = latest /\ realm.silent = {}
         \/ realm'.at = "read" /\ realm.silent = {}
  <2>1. CASE Refresh \/ Begin
    BY <1>2, <2>1 DEF Refresh, Begin, Await, RealmType, WriterIsAlone
  <2>2. CASE WakeWorker
    BY <1>2, <2>2 DEF WakeWorker, RealmType
  <2>3. CASE Cancel
    BY <1>2, <2>3 DEF Cancel, RealmType
  <2> QED BY <2>1, <2>2, <2>3
<1>4. Ran' = Ran /\ Ours' = Ours
  BY <1>1 DEF Ran, Main, Ours
<1>5. WriterIsAlone' /\ RunsForAll'
  BY <1>1, <1>2, <1>3, <1>4 DEF WriterIsAlone, RunsForAll
<1>6. ASSUME NEW c \in Callbacks
      PROVE  Registered(c)' /\ Knows(c)' /\ WriterTold(c)'
  <2>1. Registered(c)'
    BY <1>1, <1>3, FollowerFacts DEF Registered
  <2>2. WriterTold(c)'
    BY <1>1, <1>3, <1>4, FollowerFacts DEF WriterTold
  <2>3. Pending(c) => Pending(c)'
    BY <1>1, <1>3, PendingKept
  <2>4. Following(c)' = Following(c)
    BY <1>1, <1>4 DEF Following
  <2> QED BY <1>1, <1>3, <2>1, <2>2, <2>3, <2>4, FollowerFacts, KnowsKept
<1> QED BY <1>5, <1>6 DEF FollowInv

LEMMA FollowOtherCommit ==
  ASSUME Inv, OtherCommit
  PROVE  FollowInv'
<1>1. /\ realm.at \notin {"begin", "write"}
      /\ UNCHANGED <<realm, notifier, callback, skipVersion, worker>>
  BY DEF OtherCommit
<1>2. Ran' = Ran /\ Ours' = Ours
  BY <1>1 DEF Ran, Main, Ours
<1>3. realm.silent = {} /\ WriterIsAlone /\ RunsForAll
  BY <1>1 DEF Inv, BaseInv, VersionsExist, FollowInv
<1>4. WriterIsAlone' /\ RunsForAll'
  BY <1>1, <1>2, <1>3 DEF WriterIsAlone, RunsForAll
<1>5. ASSUME NEW c \in Callbacks
      PROVE  Registered(c)' /\ Knows(c)' /\ WriterTold(c)'
  <2>1. Pending(c) => Pending(c)'
    BY <1>1, PendingKept
  <2>2. Following(c)' = Following(c)
    BY <1>1, <1>2 DEF Following
  <2>3. Knows(c)'
    BY <1>1, <2>1, <2>2, FollowerFacts, KnowsKept
  <2> QED BY <1>1, <1>3, <2>3, FollowerFacts DEF Registered, WriterTold
<1> QED BY <1>4, <1>5 DEF FollowInv

LEMMA FollowRegister ==
  ASSUME Inv, NEW k \in Notifiers, Register(k)
  PROVE  FollowInv'
<1>1. /\ realm.at = "read" /\ notifier[k].list = "none" /\ notifier[k].alive
      /\ UNCHANGED <<latest, realm, callback, skipVersion, worker>>
  BY DEF Register
<1>2. notifier \in [Notifiers -> NotifierType]
  BY Typed DEF Inv, BaseInv
<1>3. /\ notifier'[k].list = "new" /\ notifier'[k].run = notifier[k].run
      /\ notifier'[k].have = notifier[k].have
      /\ notifier'[k].changes = notifier[k].changes
      /\ \A n \in Notifiers \ {k} : notifier'[n] = notifier[n]
  BY <1>2 DEF Register, NotifierType
<1>4. ~notifier[k].run
  BY <1>1 DEF Inv, BaseInv, WorkerHasTheList
<1>5. Ran' = Ran /\ k \notin Ran /\ Ran \subseteq Notifiers
  BY <1>3, <1>4 DEF Ran, Main
<1>6. realm.silent = {} /\ WriterIsAlone /\ RunsForAll
  BY <1>1 DEF Inv, BaseInv, VersionsExist, FollowInv
<1>7. WriterIsAlone' /\ RunsForAll'
  BY <1>1, <1>3, <1>5, <1>6 DEF WriterIsAlone, RunsForAll
<1>8. ASSUME NEW c \in Callbacks
      PROVE  Registered(c)' /\ Knows(c)' /\ WriterTold(c)'
  <2>1. Registered(c)'
    BY <1>1, <1>3, FollowerFacts DEF Registered
  <2>2. WriterTold(c)'
    BY <1>1 DEF WriterTold
  <2>3. CASE c[1] = k
    BY <1>1, <1>4, <2>1, <2>2, <2>3, FollowerFacts DEF Knows, Following
  <2>4. CASE c[1] # k
    <3>1. notifier'[c[1]] = notifier[c[1]]
      BY <1>3, <2>4, FollowerFacts
    <3>2. Following(c)' = Following(c)
      BY <1>1, <3>1 DEF Following, Ours
    <3> QED BY <1>1, <2>1, <2>2, <3>1, <3>2, PendingKept, KnowsKept, FollowerFacts
  <2> QED BY <2>3, <2>4
<1> QED BY <1>7, <1>8 DEF FollowInv

LEMMA FollowUnregister ==
  ASSUME Inv, NEW k \in Notifiers, Unregister(k)
  PROVE  FollowInv'
<1>1. UNCHANGED <<latest, realm, callback, skipVersion, worker>>
  BY DEF Unregister
<1>2. notifier \in [Notifiers -> NotifierType]
  BY Typed DEF Inv, BaseInv
<1>3. /\ ~notifier'[k].alive
      /\ \A n \in Notifiers :
           /\ notifier'[n].list = notifier[n].list /\ notifier'[n].run = notifier[n].run
           /\ notifier'[n].have = notifier[n].have /\ notifier'[n].version = notifier[n].version
           /\ notifier'[n].changes = notifier[n].changes
           /\ notifier'[n].alive => notifier[n].alive
  BY <1>2 DEF Unregister, NotifierType
<1>4. Ran' = Ran /\ Ours' \subseteq Ours /\ Ran \subseteq Notifiers
  BY <1>3 DEF Ran, Main, Ours
<1>5. WriterIsAlone /\ RunsForAll
  BY DEF Inv, FollowInv
<1>6. WriterIsAlone' /\ RunsForAll'
  BY <1>1, <1>3, <1>4, <1>5 DEF WriterIsAlone, RunsForAll
<1>7. ASSUME NEW c \in Callbacks
      PROVE  Registered(c)' /\ Knows(c)' /\ WriterTold(c)'
  <2>1. Registered(c)'
    BY <1>1, <1>3, FollowerFacts DEF Registered
  <2>2. WriterTold(c)'
    BY <1>1, <1>3, <1>4, FollowerFacts DEF WriterTold
  <2>3. Following(c)' => Following(c)
    BY <1>1, <1>4 DEF Following
  <2> QED BY <1>1, <1>3, <2>1, <2>2, <2>3, PendingKept, KnowsKept, FollowerFacts
<1> QED BY <1>6, <1>7 DEF FollowInv

LEMMA FollowAddCallback ==
  ASSUME Inv, NEW d \in Callbacks, AddCallback(d)
  PROVE  FollowInv'
<1>1. /\ realm.at = "read" /\ d[1] \in Ours /\ ~callback[d].on /\ ~callback[d].initial
      /\ UNCHANGED <<latest, realm, skipVersion, worker>>
  BY DEF AddCallback
<1>2. /\ notifier \in [Notifiers -> NotifierType] /\ callback \in [Callbacks -> CallbackType]
      /\ d[1] \in Notifiers
  BY Typed DEF Inv, BaseInv
<1>3. /\ \A n \in Notifiers :
           /\ notifier'[n].list = notifier[n].list /\ notifier'[n].run = notifier[n].run
           /\ notifier'[n].version = notifier[n].version
           /\ notifier'[n].changes = notifier[n].changes
           /\ notifier'[n].alive = notifier[n].alive
      /\ \A n \in Notifiers \ {d[1]} : notifier'[n].have = notifier[n].have
      /\ notifier'[d[1]].have
  <2>1. notifier' = [notifier EXCEPT ![d[1]] = [@ EXCEPT !.have = TRUE]]
    BY DEF AddCallback
  <2>2. notifier'[d[1]] = [notifier[d[1]] EXCEPT !.have = TRUE] /\ notifier[d[1]] \in NotifierType
    BY <1>2, <2>1
  <2>3. \A n \in Notifiers \ {d[1]} : notifier'[n] = notifier[n]
    BY <1>2, <2>1
  <2> QED BY <2>2, <2>3 DEF NotifierType
<1>4. /\ \A c \in Callbacks \ {d} : callback'[c] = callback[c]
      /\ callback'[d].on /\ callback'[d].skip = callback[d].skip
      /\ callback'[d].initial = callback[d].initial
  BY <1>2 DEF AddCallback, CallbackType
<1>5. Ran' = Ran /\ Ours' = Ours /\ Ran \subseteq Notifiers /\ \A n \in Ran : notifier[n].run
  BY <1>3 DEF Ran, Main, Ours
<1>6. realm.silent = {} /\ WriterIsAlone /\ RunsForAll
  BY <1>1 DEF Inv, BaseInv, VersionsExist, FollowInv
<1>7. WriterIsAlone' /\ RunsForAll'
  <2>1. \A n \in Notifiers :
          notifier'[n].have /\ notifier'[n].alive => notifier'[n].list # "none"
    BY <1>1, <1>3, <1>6 DEF RunsForAll, Ours
  <2> QED BY <1>1, <1>3, <1>5, <1>6, <2>1 DEF WriterIsAlone, RunsForAll
<1>8. ASSUME NEW c \in Callbacks
      PROVE  Registered(c)' /\ Knows(c)' /\ WriterTold(c)'
  <2>1. /\ notifier'[c[1]].version = notifier[c[1]].version
        /\ notifier'[c[1]].run = notifier[c[1]].run
        /\ notifier[c[1]].have => notifier'[c[1]].have
    BY <1>3, FollowerFacts
  <2>2. WriterTold(c)'
    BY <1>1 DEF WriterTold
  <2>3. CASE c = d
    BY <1>1, <1>3, <1>4, <1>6, <2>1, <2>2, <2>3, FollowerFacts DEF Registered, Knows, Following
  <2>4. CASE c # d
    <3>1. Following(c)' = Following(c)
      BY <1>4, <1>5, <2>4 DEF Following
    <3>2. Registered(c)'
      BY <1>1, <1>4, <1>6, <2>1, <2>4, FollowerFacts DEF Registered
    <3> QED BY <1>1, <1>4, <2>1, <2>2, <2>4, <3>1, <3>2, PendingKept, KnowsKept, FollowerFacts
  <2> QED BY <2>3, <2>4
<1> QED BY <1>7, <1>8 DEF FollowInv

LEMMA FollowRemoveCallback ==
  ASSUME Inv, NEW d \in Callbacks, RemoveCallback(d)
  PROVE  FollowInv'
<1>1. /\ callback[d].on
      /\ UNCHANGED <<latest, realm, skipVersion, worker>>
  BY DEF RemoveCallback
<1>2. /\ notifier \in [Notifiers -> NotifierType] /\ callback \in [Callbacks -> CallbackType]
      /\ d[1] \in Notifiers
  BY Typed DEF Inv, BaseInv
<1>3. /\ \A n \in Notifiers :
           /\ notifier'[n].list = notifier[n].list /\ notifier'[n].run = notifier[n].run
           /\ notifier'[n].version = notifier[n].version
           /\ notifier'[n].changes = notifier[n].changes
           /\ notifier'[n].alive = notifier[n].alive
      /\ \A n \in Notifiers \ {d[1]} : notifier'[n].have = notifier[n].have
      /\ notifier'[d[1]].have = \E c \in CallbacksOf(d[1]) : callback'[c].on
  <2> DEFINE b == \E c \in CallbacksOf(d[1]) : callback'[c].on
  <2>1. notifier' = [notifier EXCEPT ![d[1]] = [@ EXCEPT !.have = b]]
    BY Zenon DEF RemoveCallback
  <2> HIDE DEF b
  <2>2. notifier'[d[1]] = [notifier[d[1]] EXCEPT !.have = b] /\ notifier[d[1]] \in NotifierType
    BY <1>2, <2>1
  <2>3. \A n \in Notifiers \ {d[1]} : notifier'[n] = notifier[n]
    BY <1>2, <2>1
  <2>4. notifier'[d[1]].have = b
    BY <2>2 DEF NotifierType
  <2>5. /\ notifier'[d[1]].list = notifier[d[1]].list /\ notifier'[d[1]].run = notifier[d[1]].run
        /\ notifier'[d[1]].version = notifier[d[1]].version
        /\ notifier'[d[1]].changes = notifier[d[1]].changes
        /\ notifier'[d[1]].alive = notifier[d[1]].alive
    BY <2>2 DEF NotifierType
  <2> QED BY <2>3, <2>4, <2>5 DEF b
<1>4. /\ \A c \in Callbacks \ {d} : callback'[c] = callback[c]
      /\ ~callback'[d].on /\ ~callback'[d].skip
      /\ callback'[d].initial = callback[d].initial
      /\ callback'[d].told = callback[d].told
      /\ callback'[d].late = callback[d].late
  BY <1>2 DEF RemoveCallback, CallbackType
<1>5. Ran' = Ran /\ Ours' = Ours /\ Ran \subseteq Notifiers
  BY <1>3 DEF Ran, Main, Ours
<1>6. \A n \in Notifiers : notifier'[n].have => notifier[n].have
  <2>1. notifier'[d[1]].have => notifier[d[1]].have
    BY <1>1, FollowerFacts
  <2> QED BY <1>3, <2>1
<1>7. WriterIsAlone /\ RunsForAll
  BY DEF Inv, FollowInv
<1>8. WriterIsAlone' /\ RunsForAll'
  BY <1>1, <1>3, <1>5, <1>6, <1>7 DEF WriterIsAlone, RunsForAll
<1>9. ASSUME NEW c \in Callbacks
      PROVE  Registered(c)' /\ Knows(c)' /\ WriterTold(c)'
  <2>1. /\ notifier'[c[1]].version = notifier[c[1]].version
        /\ notifier'[c[1]].run = notifier[c[1]].run
        /\ callback'[c].on /\ notifier[c[1]].have => notifier'[c[1]].have
    BY <1>3, FollowerFacts DEF CallbacksOf
  <2>2. CASE c = d
    BY <1>1, <1>4, <2>1, <2>2, FollowerFacts DEF Registered, Knows, WriterTold, Following
  <2>3. CASE c # d
    <3>1. Following(c)' = Following(c)
      BY <1>4, <1>5, <2>3 DEF Following
    <3>2. Registered(c)' /\ WriterTold(c)'
      BY <1>1, <1>4, <1>5, <2>1, <2>3, FollowerFacts DEF Registered, WriterTold
    <3> QED BY <1>1, <1>4, <2>1, <2>3, <3>1, <3>2, PendingKept, KnowsKept, FollowerFacts
  <2> QED BY <2>2, <2>3
<1> QED BY <1>8, <1>9 DEF FollowInv

LEMMA FollowSuppress ==
  ASSUME Inv, NEW cs \in SUBSET Callbacks, Suppress(cs)
  PROVE  FollowInv'
<1> DEFINE before == IF worker = Idle THEN callback ELSE Exposed(cs)
<1>1. /\ realm.at = "write" /\ realm.silent = {} /\ latest < MaxVersion
      /\ \A c \in cs : callback[c].on /\ notifier[c[1]].alive
      /\ UNCHANGED <<latest, notifier, skipVersion, worker>>
      /\ callback' = [c \in Callbacks |->
                        IF c \in cs THEN [before[c] EXCEPT !.skip = TRUE] ELSE callback[c]]
  BY DEF Suppress
<1>2. realm'.silent = cs /\ realm'.at = "write" /\ realm'.version = realm.version
  BY <1>1, Typed DEF Inv, BaseInv, Suppress, RealmType
<1>3. Ran' = Ran /\ Ours' = Ours
  BY <1>1 DEF Ran, Main, Ours
<1>4. WriterIsAlone /\ RunsForAll
  BY DEF Inv, FollowInv
<1>5. WriterIsAlone' /\ RunsForAll'
  BY <1>1, <1>2, <1>3, <1>4 DEF WriterIsAlone, RunsForAll
<1>6. ASSUME NEW c \in cs
      PROVE  /\ before[c] \in CallbackType
             /\ before[c].on = callback[c].on /\ before[c].acc = callback[c].acc
             /\ before[c].told = callback[c].told /\ before[c].late = callback[c].late
             /\ before[c].initial = callback[c].initial
             /\ worker.at # "idle" => latest + 1 \in before[c].exposed
  <2>1. callback[c] \in CallbackType /\ c \in Callbacks
    BY FollowerFacts
  <2>2. CASE worker = Idle
    BY <2>1, <2>2 DEF Idle
  <2>3. CASE worker # Idle
    <3>1. before = Exposed(cs)
      BY <2>3
    <3> HIDE DEF before
    <3> DEFINE e == Exposed(cs)[c]
    <3>2. /\ e \in CallbackType
          /\ e = [callback[c] EXCEPT !.exposed = e.exposed]
          /\ e.exposed = IF c \in cs THEN callback[c].exposed \cup {latest + 1}
                         ELSE callback[c].exposed
      <4>1. TypeOK /\ latest < MaxVersion
        BY <1>1 DEF Inv, BaseInv
      <4>2. /\ Exposed(cs) \in [Callbacks -> CallbackType]
            /\ \A d \in Callbacks :
                 /\ Exposed(cs)[d] = [callback[d] EXCEPT !.exposed = Exposed(cs)[d].exposed]
                 /\ Exposed(cs)[d].exposed =
                      IF d \in cs THEN callback[d].exposed \cup {latest + 1}
                      ELSE callback[d].exposed
        BY <4>1, ExposedFacts
      <4> QED BY <2>1, <4>2
    <3>3. before[c] = e
      BY <3>1
    <3> HIDE DEF e
    <3> QED BY <2>1, <3>2, <3>3 DEF CallbackType
  <2> QED BY <2>2, <2>3
<1> HIDE DEF before
<1>7. ASSUME NEW c \in Callbacks
      PROVE  Registered(c)' /\ Knows(c)' /\ WriterTold(c)'
  <2>1. CASE c \in cs
    <3>1. /\ callback'[c].on = callback[c].on /\ callback'[c].skip
          /\ callback'[c].acc = callback[c].acc /\ callback'[c].told = callback[c].told
          /\ callback'[c].late = callback[c].late
          /\ callback'[c].initial = callback[c].initial
          /\ worker.at # "idle" => latest + 1 \in callback'[c].exposed
      BY <1>1, <1>6, <2>1 DEF CallbackType
    <3>2. c[1] \in Ours
      BY <1>1, <1>4, <2>1, FollowerFacts DEF RunsForAll, Ours
    <3>3. /\ callback[c].on /\ callback[c].initial /\ callback[c].acc = {}
          /\ callback[c].told \subseteq 1 .. latest
          /\ 1 .. latest \subseteq callback[c].told \cup callback[c].late
          /\ notifier[c[1]].run /\ notifier[c[1]].version = latest
      BY <1>1, <2>1, <3>2, FollowerFacts DEF WriterTold
    <3>4. Registered(c)' /\ WriterTold(c)'
      BY <1>1, <1>2, <3>1, <3>3, FollowerFacts DEF Registered, WriterTold
    <3>5. Following(c)
      BY <3>2, <3>3 DEF Following
    <3>6. latest + 1 \notin callback[c].told /\ realm.version <= latest + 1
      BY <3>3, <3>5, FollowerFacts DEF Knows
    <3>7. Knows(c)'
      BY <1>1, <1>2, <2>1, <3>1, <3>3, <3>5, <3>6, FollowerFacts DEF Knows
    <3> QED BY <3>4, <3>7
  <2>2. CASE c \notin cs
    <3>1. callback'[c] = callback[c]
      BY <1>1, <2>2
    <3>2. Following(c)' = Following(c)
      BY <1>3, <3>1 DEF Following
    <3>3. Registered(c)' /\ WriterTold(c)'
      BY <1>1, <1>2, <1>3, <2>2, <3>1, FollowerFacts DEF Registered, WriterTold
    <3>4. c \notin realm.silent
      BY <1>1
    <3> QED BY <1>1, <1>2, <2>2, <3>1, <3>2, <3>3, <3>4, PendingKept, KnowsKept, FollowerFacts
  <2> QED BY <2>1, <2>2
<1> QED BY <1>5, <1>7 DEF FollowInv

\* What a commit makes of callbacks that follow.
LEMMA CommitTells ==
  ASSUME Inv, Commit, NEW c \in Callbacks
  PROVE  /\ callback'[c].on = callback[c].on /\ callback'[c].skip = callback[c].skip
         /\ callback'[c].acc = callback[c].acc /\ callback'[c].initial = callback[c].initial
         /\ callback'[c].late = callback[c].late /\ callback'[c].exposed = callback[c].exposed
         /\ c \in realm.silent /\ callback[c].initial =>
              callback'[c].told = callback[c].told \cup {latest'}
         /\ ~(c \in realm.silent /\ callback[c].initial) => callback'[c] = callback[c]
BY FollowerFacts DEF Commit, CallbackType

LEMMA FollowCommit ==
  ASSUME Inv, Commit
  PROVE  FollowInv'
<1>1. /\ realm.at = "write" /\ latest' = latest + 1
      /\ UNCHANGED <<notifier, worker>>
      /\ skipVersion' = IF \E n \in Ours : notifier[n].list = "main" THEN latest' ELSE skipVersion
  BY DEF Commit
<1>2. realm'.silent = {} /\ realm'.at = "read" /\ realm'.version = latest'
  BY Typed DEF Inv, BaseInv, Commit, RealmType
<1>3. Ran' = Ran /\ Ours' = Ours
  BY <1>1 DEF Ran, Main, Ours
<1>4. WriterIsAlone /\ RunsForAll
  BY DEF Inv, FollowInv
<1>5. WriterIsAlone' /\ RunsForAll'
  BY <1>1, <1>2, <1>3, <1>4 DEF WriterIsAlone, RunsForAll
<1>6. ASSUME NEW c \in Callbacks
      PROVE  Registered(c)' /\ Knows(c)' /\ WriterTold(c)'
  <2>1. Registered(c)' /\ WriterTold(c)'
    BY <1>1, <1>2, CommitTells, FollowerFacts DEF Registered, WriterTold
  <2>2. ASSUME Following(c)
        PROVE  Knows(c)'
    <3>1. /\ callback[c].acc = {} /\ callback[c].told \subseteq 1 .. latest
          /\ 1 .. latest \subseteq callback[c].told \cup callback[c].late
          /\ notifier[c[1]].version = latest /\ callback[c].initial /\ callback[c].on
      BY <1>1, <2>2, FollowerFacts DEF WriterTold, Following
    <3>2. CASE c \in realm.silent
      <4>1. /\ callback'[c].told = callback[c].told \cup {latest + 1} /\ callback'[c].acc = {}
            /\ callback'[c].late = callback[c].late
        BY <1>1, <3>1, <3>2, CommitTells
      <4>2. /\ latest \in Nat
            /\ callback'[c].told \subseteq 1 .. latest + 1
            /\ 1 .. latest \subseteq callback'[c].told \cup callback'[c].late
        BY <3>1, <4>1, FollowerFacts
      <4>3. \/ latest + 1 \in callback'[c].exposed
            \/ callback'[c].skip /\ worker.at = "idle"
        BY <3>1, <3>2, CommitTells, FollowerFacts DEF Registered
      <4>4. skipVersion' = latest + 1
        <5>1. c[1] \in Ours /\ notifier[c[1]].list = "main"
          BY <2>2, FollowerFacts DEF Following, Ran, Main
        <5> QED BY <1>1, <5>1
      <4>5. worker.version \in Nat /\ worker.version <= latest
        BY Typed DEF Inv, BaseInv, VersionsExist, WorkerType
      <4>6. Pending(c)'
        <5>1. /\ notifier'[c[1]].version + 1 = latest + 1 /\ realm'.version = latest + 1
              /\ worker'.at = worker.at /\ worker'.version < latest + 1
          BY <1>1, <1>2, <3>1, <4>2, <4>5
        <5>2. CASE worker.at = "idle"
          BY <4>2, <4>4, <5>1, <5>2 DEF Pending
        <5>3. CASE worker.at # "idle"
          BY <4>2, <4>3, <4>4, <5>1, <5>3 DEF Pending
        <5> QED BY <5>2, <5>3
      <4> QED BY <1>1, <1>2, <3>1, <4>1, <4>2, <4>3, <4>6 DEF Knows
    <3>3. CASE c \notin realm.silent
      <4>1. callback'[c] = callback[c]
        BY <3>3, CommitTells
      <4>2. ~callback[c].skip
        BY <2>2, <3>1, <3>3, FollowerFacts DEF Knows
      <4> QED BY <1>1, <1>2, <3>1, <4>1, <4>2, FollowerFacts DEF Knows
    <3> QED BY <3>2, <3>3
  <2>3. Following(c)' = Following(c)
    BY <1>3, CommitTells DEF Following
  <2>4. ~Following(c)' => Knows(c)'
    BY DEF Knows
  <2> QED BY <2>1, <2>2, <2>3, <2>4
<1> QED BY <1>5, <1>6 DEF FollowInv

\* The start of a run keeps what it starts from, and takes the version to skip.
LEMMA StartFacts ==
  ASSUME BaseInv, Start
  PROVE  /\ worker = Idle /\ UNCHANGED <<latest, realm>>
         /\ \A n \in Notifiers :
              /\ notifier'[n].version = notifier[n].version
              /\ notifier'[n].run = notifier[n].run
              /\ notifier'[n].alive = notifier[n].alive
              /\ notifier'[n].have = notifier[n].have
              /\ notifier'[n].changes = notifier[n].changes
              /\ notifier'[n].list # "none" <=> notifier[n].list # "none" /\ notifier[n].alive
         /\ \/ worker' = worker /\ callback' = callback
            \/ worker'.at \in {"skip", "last"} /\ callback' = Exposed(realm.silent)
         /\ worker'.at # "idle" => worker'.version = latest
         /\ \A n \in Notifiers : notifier[n].list = "main" /\ notifier[n].alive /\ skipVersion # 0 =>
              worker'.at = "skip" /\ worker'.skip = skipVersion
<1> USE DEF BaseInv
<1> DEFINE ns == Cleaned(notifier)
           main == Listed(ns, "main")
           new == Listed(ns, "new")
           s == SkipAfter(notifier)
<1>1. worker = Idle /\ UNCHANGED <<latest, realm>>
  BY DEF Start
<1>2. \/ main \cup new = {} /\ notifier' = ns /\ worker' = worker /\ callback' = callback
      \/ /\ notifier' = [n \in Notifiers |->
                           IF n \in new THEN [ns[n] EXCEPT !.list = "main"] ELSE ns[n]]
         /\ worker' = [at |-> IF s = 0 THEN "last" ELSE "skip", version |-> latest,
                       skip |-> s, old |-> main, new |-> new, out |-> {}]
         /\ callback' = Exposed(realm.silent)
  BY Zenon DEF Start
<1>3. \A n \in Notifiers :
        /\ ns[n].list = IF notifier[n].alive THEN notifier[n].list ELSE "none"
        /\ ns[n].version = notifier[n].version /\ ns[n].run = notifier[n].run
        /\ ns[n].alive = notifier[n].alive /\ ns[n].have = notifier[n].have
        /\ ns[n].changes = notifier[n].changes
        /\ ns[n] \in NotifierType
  BY Typed, CleanedFacts
<1>4. main = {n \in Notifiers : notifier[n].list = "main" /\ notifier[n].alive}
  BY <1>3 DEF Listed
<1>5. main # {} => s = skipVersion
  BY DEF SkipAfter
<1>6. \A n \in new : n \in Notifiers /\ ns[n].list = "new"
  BY DEF Listed
<1> HIDE DEF ns, main, new, s
<1>7. ASSUME NEW n \in Notifiers
      PROVE  /\ notifier'[n].version = notifier[n].version
             /\ notifier'[n].run = notifier[n].run
             /\ notifier'[n].alive = notifier[n].alive
             /\ notifier'[n].have = notifier[n].have
             /\ notifier'[n].changes = notifier[n].changes
             /\ notifier'[n].list # "none" <=> notifier[n].list # "none" /\ notifier[n].alive
  <2>1. CASE notifier'[n] = ns[n]
    BY <1>3, <2>1
  <2>2. CASE n \in new /\ notifier'[n] = [ns[n] EXCEPT !.list = "main"]
    BY <1>3, <1>6, <2>2 DEF NotifierType
  <2> QED BY <1>2, <2>1, <2>2
<1>8. /\ \/ worker' = worker /\ callback' = callback
         \/ worker'.at \in {"skip", "last"} /\ callback' = Exposed(realm.silent)
      /\ worker'.at # "idle" => worker'.version = latest
  BY <1>1, <1>2 DEF Idle
<1>9. ASSUME NEW n \in Notifiers, notifier[n].list = "main", notifier[n].alive, skipVersion # 0
      PROVE  worker'.at = "skip" /\ worker'.skip = skipVersion
  <2>1. main # {}
    BY <1>4, <1>9
  <2> QED BY <1>2, <1>5, <1>9, <2>1
<1> QED BY <1>1, <1>7, <1>8, <1>9

LEMMA FollowStart ==
  ASSUME Inv, Start
  PROVE  FollowInv'
<1>1. /\ worker = Idle /\ worker.at = "idle" /\ UNCHANGED <<latest, realm>>
      /\ \A n \in Notifiers :
           /\ notifier'[n].version = notifier[n].version
           /\ notifier'[n].run = notifier[n].run
           /\ notifier'[n].alive = notifier[n].alive
           /\ notifier'[n].have = notifier[n].have
           /\ notifier'[n].changes = notifier[n].changes
           /\ notifier'[n].list # "none" <=> notifier[n].list # "none" /\ notifier[n].alive
      /\ \/ worker' = worker /\ callback' = callback
         \/ worker'.at \in {"skip", "last"} /\ callback' = Exposed(realm.silent)
      /\ worker'.at # "idle" => worker'.version = latest
      /\ \A n \in Notifiers : notifier[n].list = "main" /\ notifier[n].alive /\ skipVersion # 0 =>
           worker'.at = "skip" /\ worker'.skip = skipVersion
  BY StartFacts DEF Inv, Idle
<1>2. ASSUME NEW c \in Callbacks
      PROVE  /\ callback'[c].on = callback[c].on /\ callback'[c].skip = callback[c].skip
             /\ callback'[c].acc = callback[c].acc /\ callback'[c].told = callback[c].told
             /\ callback'[c].initial = callback[c].initial
             /\ callback'[c].late = callback[c].late
             /\ callback[c].exposed \subseteq callback'[c].exposed
             /\ c \in realm.silent => latest + 1 \in callback'[c].exposed \/ worker' = worker
  <2> DEFINE e == Exposed(realm.silent)[c]
  <2>1. /\ e = [callback[c] EXCEPT !.exposed = e.exposed]
        /\ e.exposed = IF c \in realm.silent THEN callback[c].exposed \cup {latest + 1}
                       ELSE callback[c].exposed
    <3>1. TypeOK /\ (latest < MaxVersion \/ realm.silent = {})
      BY DEF Inv, BaseInv, VersionsExist
    <3> HIDE DEF e
    <3> QED BY <3>1, ExposedFacts DEF e
  <2>2. (callback'[c] = callback[c] /\ worker' = worker) \/ callback'[c] = e
    BY <1>1
  <2>3. callback[c] \in CallbackType
    BY FollowerFacts
  <2> HIDE DEF e
  <2> QED BY <2>1, <2>2, <2>3 DEF CallbackType
<1>3. Ours' = Ours /\ Ran' \subseteq Notifiers
  BY <1>1 DEF Ours, Ran, Main
<1>4. WriterIsAlone' /\ RunsForAll'
  <2>1. WriterIsAlone /\ RunsForAll
    BY DEF Inv, FollowInv
  <2>2. \A n \in Notifiers : notifier[n].version <= latest
    BY DEF Inv, BaseInv, VersionsExist
  <2>3. \A n \in Notifiers : notifier'[n].changes = {}
    BY <1>1, <2>1 DEF RunsForAll
  <2>4. worker'.at \notin {"skipped", "ran"}
    BY <1>1
  <2> QED BY <1>1, <1>3, <2>1, <2>2, <2>3, <2>4 DEF WriterIsAlone, RunsForAll
<1>5. ASSUME NEW c \in Callbacks
      PROVE  Registered(c)' /\ Knows(c)' /\ WriterTold(c)'
  <2>1. /\ notifier'[c[1]].version = notifier[c[1]].version
        /\ notifier'[c[1]].run = notifier[c[1]].run
        /\ notifier'[c[1]].have = notifier[c[1]].have
    BY <1>1, FollowerFacts
  <2>2. Registered(c)'
    BY <1>1, <1>2, <2>1, FollowerFacts DEF Registered
  <2>3. WriterTold(c)'
    BY <1>1, <1>2, <1>3, <2>1, FollowerFacts DEF WriterTold
  <2>4. Following(c)' = Following(c)
    BY <1>2, <1>3 DEF Following
  <2>5. ASSUME Following(c), Pending(c)
        PROVE  Pending(c)'
    <3>1. /\ c[1] \in Notifiers /\ notifier[c[1]].list = "main" /\ notifier[c[1]].alive
          /\ notifier[c[1]].version \in Nat
      BY <2>5, FollowerFacts DEF Following, Ours, Ran, Main
    <3>2. skipVersion = notifier[c[1]].version + 1 /\ notifier[c[1]].version + 1 <= realm.version
      BY <1>1, <2>5 DEF Pending
    <3>3. worker'.at = "skip" /\ worker'.skip = skipVersion
      BY <1>1, <3>1, <3>2
    <3> QED BY <1>1, <2>1, <3>2, <3>3 DEF Pending
  <2>6. ASSUME Following(c)
        PROVE  Knows(c)'
    BY <1>1, <1>2, <2>1, <2>5, <2>6, FollowerFacts DEF Knows
  <2> QED BY <2>2, <2>3, <2>4, <2>6 DEF Knows
<1> QED BY <1>4, <1>5 DEF FollowInv

LEMMA FollowRun ==
  ASSUME Inv, Ask \/ RunToSkip \/ RunToLast
  PROVE  FollowInv'
<1> DEFINE Kept == /\ UNCHANGED <<latest, realm, callback, skipVersion>>
                   /\ \A n \in Notifiers :
                        /\ notifier'[n].list = notifier[n].list
                        /\ notifier'[n].version = notifier[n].version
                        /\ notifier'[n].alive = notifier[n].alive
                        /\ notifier'[n].run = notifier[n].run
                        /\ notifier'[n].have = notifier[n].have
                   /\ worker'.version = worker.version /\ worker'.skip = worker.skip
           Goes == /\ worker.at \notin {"idle", "skipped", "ran"} /\ worker'.at # "idle"
                   /\ worker.at \in {"skip", "toSkip", "skipped"} <=>
                        worker'.at \in {"skip", "toSkip", "skipped"}
           Calculated(v) ==
             \A n \in Notifiers :
               /\ n \in Ran \ worker'.out /\ notifier[n].alive =>
                    notifier'[n].changes = notifier[n].version + 1 .. v
               /\ notifier'[n].changes # {} => n \in Ran \ worker'.out
<1>1. ASSUME Kept, Goes,
             \/ /\ worker'.at \notin {"skipped", "ran"}
                /\ \A n \in Notifiers : notifier'[n].changes = {}
             \/ worker'.at = "skipped" /\ Calculated(worker.skip)
             \/ worker'.at = "ran" /\ Calculated(worker.version)
      PROVE  FollowInv'
  <2>1. /\ UNCHANGED <<latest, realm, callback, skipVersion>>
        /\ \A n \in Notifiers :
             /\ notifier'[n].list = notifier[n].list
             /\ notifier'[n].version = notifier[n].version
             /\ notifier'[n].alive = notifier[n].alive
             /\ notifier'[n].run = notifier[n].run
             /\ notifier'[n].have = notifier[n].have
        /\ worker'.version = worker.version /\ worker'.skip = worker.skip
    BY <1>1
  <2>2. Ran' = Ran /\ Ours' = Ours /\ Ran \subseteq Notifiers
    BY <2>1 DEF Ran, Main, Ours
  <2>3. WriterIsAlone /\ RunsForAll
    BY DEF Inv, FollowInv
  <2>4. WriterIsAlone'
    BY <2>1, <2>3 DEF WriterIsAlone
  <2>5. RunsForAll'
    <3>1. \A n \in Ran : notifier'[n].version <= worker'.version
      BY <1>1, <2>1, <2>2, <2>3 DEF RunsForAll
    <3>2. \A n \in Notifiers :
            notifier'[n].have /\ notifier'[n].alive => notifier'[n].list # "none"
      BY <2>1, <2>3 DEF RunsForAll
    <3>3. CASE /\ worker'.at \notin {"skipped", "ran"}
               /\ \A n \in Notifiers : notifier'[n].changes = {}
      BY <2>2, <3>1, <3>2, <3>3 DEF RunsForAll
    <3>4. CASE worker'.at = "skipped" /\ Calculated(worker.skip)
      BY <2>1, <2>2, <3>1, <3>2, <3>4 DEF RunsForAll
    <3>5. CASE worker'.at = "ran" /\ Calculated(worker.version)
      BY <2>1, <2>2, <3>1, <3>2, <3>5 DEF RunsForAll
    <3> QED BY <1>1, <3>3, <3>4, <3>5
  <2>6. ASSUME NEW c \in Callbacks
        PROVE  Registered(c)' /\ Knows(c)' /\ WriterTold(c)'
    <3>1. /\ notifier'[c[1]].version = notifier[c[1]].version
          /\ notifier'[c[1]].run = notifier[c[1]].run
          /\ notifier'[c[1]].have = notifier[c[1]].have
      BY <2>1, FollowerFacts
    <3>2. Registered(c)' /\ WriterTold(c)'
      BY <1>1, <2>1, <2>2, <3>1, FollowerFacts DEF Registered, WriterTold
    <3>3. Following(c)' = Following(c)
      BY <2>1, <2>2 DEF Following
    <3>4. Pending(c) => Pending(c)'
      BY <1>1, <2>1, <3>1 DEF Pending
    <3> QED BY <2>1, <3>1, <3>2, <3>3, <3>4, KnowsKept, FollowerFacts
  <2> QED BY <2>4, <2>5, <2>6 DEF FollowInv
<1>2. /\ TypeOK /\ worker.skip \in 0 .. MaxVersion /\ worker.version \in 0 .. MaxVersion
      /\ worker \in WorkerType
  BY Typed DEF Inv, BaseInv, WorkerType
<1>3. /\ worker.at # "idle" => worker.old = Ran
      /\ worker.at \notin {"skipped", "ran"} => \A n \in Notifiers : notifier[n].changes = {}
      /\ \A n \in Notifiers : notifier[n].run /\ notifier[n].alive => n \in Ran
  BY DEF Inv, BaseInv, FollowInv, WorkerHasTheList, RunsForAll, Ran, Main
<1>4. ASSUME NEW ns, NEW v \in 0 .. MaxVersion, NEW at \in {"skipped", "ran"}, Run(ns, v, at),
             worker.at \notin {"skipped", "ran"}, Ran \subseteq ns
      PROVE  Kept /\ worker'.at = at /\ Calculated(v)
  <2>1. /\ Kept /\ worker'.at = at
        /\ \A n \in Notifiers :
             /\ n \in ns \ worker'.out /\ notifier[n].alive /\ notifier[n].run =>
                  notifier'[n].changes = notifier[n].version + 1 .. v
             /\ ~(n \in ns \ worker'.out /\ notifier[n].alive /\ notifier[n].run) =>
                  notifier'[n] = notifier[n]
    BY <1>2, <1>4, RunFacts
  <2>2. \A n \in Ran : notifier[n].run
    BY DEF Ran
  <2>3. Calculated(v)
    BY <1>3, <1>4, <2>1, <2>2
  <2> QED BY <2>1, <2>3
<1>5. CASE Ask
  <2>1. /\ worker.at \in {"skip", "last"}
        /\ worker' = [worker EXCEPT !.at = IF worker.at = "skip" THEN "toSkip" ELSE "toLast",
                                   !.out = worker.old \cap Silent]
        /\ UNCHANGED <<latest, realm, notifier, callback, skipVersion>>
    BY <1>5 DEF Ask
  <2>2. worker.old \cap Silent \in SUBSET Notifiers
    BY DEF Silent
  <2>3. CASE worker.at = "skip"
    <3>1. /\ worker'.at = "toSkip" /\ worker'.version = worker.version
          /\ worker'.skip = worker.skip
      BY <1>2, <2>1, <2>2, <2>3, WorkerFacts
    <3> QED BY <1>1, <1>3, <2>1, <2>3, <3>1
  <2>4. CASE worker.at = "last"
    <3>1. /\ worker'.at = "toLast" /\ worker'.version = worker.version
          /\ worker'.skip = worker.skip
      BY <1>2, <2>1, <2>2, <2>4, WorkerFacts
    <3> QED BY <1>1, <1>3, <2>1, <2>4, <3>1
  <2> QED BY <2>1, <2>3, <2>4
<1>6. CASE RunToSkip
  <2>1. worker.at = "toSkip" /\ Run(worker.old, worker.skip, "skipped")
    BY <1>6 DEF RunToSkip
  <2>2. Kept /\ worker'.at = "skipped" /\ Calculated(worker.skip)
    BY <1>2, <1>3, <1>4, <2>1
  <2> HIDE DEF Kept, Calculated
  <2> QED BY <1>1, <2>1, <2>2
<1>7. CASE RunToLast
  <2>1. worker.at = "toLast" /\ Run(worker.old \cup worker.new, worker.version, "ran")
    BY <1>7 DEF RunToLast
  <2>2. Kept /\ worker'.at = "ran" /\ Calculated(worker.version)
    BY <1>2, <1>3, <1>4, <2>1
  <2> HIDE DEF Kept, Calculated
  <2> QED BY <1>1, <2>1, <2>2
<1> QED BY <1>5, <1>6, <1>7

\* A handover to a callback that follows: the changes from its notifier's version
\* to the new one are waiting or missed, or it has skipped those it was to skip;
\* or the version stays, and the next handover skips in its place.
LEMMA HandOverKnows ==
  ASSUME Inv, NEW c \in Callbacks, Following(c),
         NEW w \in Nat, notifier[c[1]].version <= w,
         NEW missed, notifier[c[1]].changes \cup missed = notifier[c[1]].version + 1 .. w,
         notifier[c[1]].version + 1 \in callback[c].told =>
           \/ w = notifier[c[1]].version + 1
           \/ /\ w = notifier[c[1]].version
              /\ w + 1 \in callback[c].exposed /\ Pending(c)',
         c \in realm.silent => w = notifier[c[1]].version,
         callback'[c].told = callback[c].told, ~callback'[c].skip,
         callback'[c].exposed = callback[c].exposed,
         callback[c].skip => /\ callback'[c].acc = callback[c].acc
                             /\ callback'[c].late = callback[c].late,
         ~callback[c].skip => /\ callback'[c].acc = callback[c].acc \cup notifier[c[1]].changes
                              /\ callback'[c].late = callback[c].late \cup missed,
         notifier'[c[1]].version = w, UNCHANGED realm
  PROVE  Knows(c)'
<1> DEFINE v == notifier[c[1]].version
           told == callback[c].told
           acc == callback[c].acc
           late == callback[c].late
           exposed == callback[c].exposed
           changes == notifier[c[1]].changes
<1>1. /\ v \in Nat /\ realm.version \in Nat /\ v <= w
      /\ told \subseteq Versions /\ acc \subseteq Versions
  BY FollowerFacts DEF CallbackType
<1>2. /\ told \subseteq 1 .. v + 1 /\ 1 .. v \subseteq told \cup acc \cup late
      /\ acc \subseteq 1 .. v /\ told \cap acc \subseteq exposed
      /\ realm.version <= v + 1 /\ (v < realm.version => acc = {})
      /\ v + 1 \in told => callback[c].skip \/ v + 1 \in exposed
      /\ callback[c].skip => c \in realm.silent \/ v + 1 \in told
  BY <1>1, FollowerFacts DEF Knows
<1>3. CASE w = v + 1 /\ v + 1 \in told
  <2>1. /\ callback'[c].acc \subseteq acc \cup {v + 1}
        /\ late \subseteq callback'[c].late
        /\ v + 1 \in callback'[c].acc => v + 1 \in exposed
    <3>1. changes \subseteq {v + 1}
      BY <1>1, <1>3
    <3>2. v + 1 \notin acc
      BY <1>1, <1>2
    <3> QED BY <1>2, <1>3, <3>1, <3>2
  <2> HIDE DEF v, told, acc, late, exposed, changes
  <2>2. /\ told \subseteq 1 .. w + 1 /\ 1 .. w \subseteq told \cup acc \cup late
        /\ acc \cup {v + 1} \subseteq 1 .. w /\ w + 1 \notin told
        /\ realm.version <= w + 1 /\ ~(w < realm.version)
    <3>1. 1 .. w = (1 .. v) \cup {v + 1} /\ w = v + 1 /\ v + 1 \in told
      BY <1>1, <1>3
    <3>2. told \subseteq 1 .. w + 1
      BY <1>1, <1>2, <3>1
    <3>3. 1 .. w \subseteq told \cup acc \cup late /\ acc \cup {v + 1} \subseteq 1 .. w
      BY <1>2, <3>1
    <3>4. w + 1 \notin told
      BY <1>1, <1>2, <3>1
    <3>5. realm.version <= w + 1 /\ ~(w < realm.version)
      BY <1>1, <1>2, <3>1
    <3> QED BY <3>2, <3>3, <3>4, <3>5
  <2>3. acc \subseteq callback'[c].acc
    BY DEF acc
  <2>4. told \cap callback'[c].acc \subseteq exposed
    BY <1>2, <2>1
  <2>5. callback'[c].told = told /\ callback'[c].exposed = exposed
    BY DEF told, exposed
  <2> QED BY <2>1, <2>2, <2>3, <2>4, <2>5 DEF Knows
<1>4. CASE w = v
  <2>1. /\ callback'[c].acc = acc /\ late \subseteq callback'[c].late
        /\ w + 1 \in told => w + 1 \in exposed /\ Pending(c)'
    <3>1. changes = {}
      BY <1>1, <1>4
    <3>2. w # v + 1
      BY <1>1, <1>4
    <3> QED BY <1>4, <3>1, <3>2
  <2>2. callback'[c].told = told /\ callback'[c].exposed = exposed
    OBVIOUS
  <2> HIDE DEF v, told, acc, late, exposed, changes
  <2>3. v = w
    BY <1>4
  <2> QED BY <1>2, <2>1, <2>2, <2>3 DEF Knows
<1>5. CASE w # v /\ v + 1 \notin told
  <2>1. ~callback[c].skip /\ callback'[c].acc = acc \cup changes
        /\ callback'[c].late = late \cup missed
    BY <1>2, <1>5
  <2>2. /\ callback'[c].told = told /\ callback'[c].exposed = exposed
        /\ changes \cup missed = v + 1 .. w
    OBVIOUS
  <2> HIDE DEF v, told, acc, late, exposed, changes
  <2>3. told \subseteq 1 .. v /\ v + 1 <= w
    BY <1>1, <1>2, <1>5
  <2>4. /\ told \subseteq 1 .. w + 1
        /\ 1 .. w \subseteq told \cup (acc \cup changes) \cup (late \cup missed)
        /\ acc \cup changes \subseteq 1 .. w /\ w + 1 \notin told
        /\ told \cap changes = {}
        /\ realm.version <= w + 1 /\ ~(w < realm.version)
    <3>1. 1 .. w = (1 .. v) \cup (v + 1 .. w)
      BY <1>1, <2>3
    <3>2. changes \subseteq v + 1 .. w
      BY <2>2
    <3> QED BY <1>1, <1>2, <2>2, <2>3, <3>1, <3>2
  <2> QED BY <1>2, <2>1, <2>2, <2>4 DEF Knows
<1> QED BY <1>3, <1>4, <1>5

\* Within a transaction the worker has no newer version to bring.
LEMMA HandOverTold ==
  ASSUME Inv, NEW c \in Callbacks, realm.at = "write",
         callback[c].on, c[1] \in Ours,
         NEW w \in Nat, notifier[c[1]].version <= w, w <= latest,
         notifier[c[1]].changes \subseteq notifier[c[1]].version + 1 .. w,
         callback'[c].told = callback[c].told, callback'[c].initial = callback[c].initial,
         callback[c].late \subseteq callback'[c].late,
         callback'[c].acc \subseteq callback[c].acc \cup notifier[c[1]].changes,
         notifier'[c[1]].version = w, notifier'[c[1]].run, UNCHANGED latest
  PROVE  WriterTold(c)'
<1>1. /\ callback[c].initial /\ callback[c].acc = {}
      /\ callback[c].told \subseteq 1 .. latest
      /\ 1 .. latest \subseteq callback[c].told \cup callback[c].late
      /\ notifier[c[1]].version = latest /\ latest \in Nat
  BY FollowerFacts DEF WriterTold
<1>2. w = latest /\ notifier[c[1]].changes = {}
  BY <1>1
<1> QED BY <1>1, <1>2 DEF WriterTold

\* What a run that ends at w hands over, and what it does not have.
LEMMA RunHas ==
  ASSUME Inv, NEW c \in Callbacks, Following(c), NEW w,
         \/ worker.at = "skipped" /\ w = worker.skip
         \/ worker.at = "ran" /\ w = worker.version
  PROVE  notifier[c[1]].changes \cup Late(c, w) = notifier[c[1]].version + 1 .. w
<1>1. /\ c[1] \in Notifiers /\ c[1] \in Ran /\ notifier[c[1]].alive /\ callback[c].initial
      /\ RunsForAll
  BY FollowerFacts DEF Following, Ours
<1>2. CASE c[1] \in worker.out
  <2>1. Late(c, w) = notifier[c[1]].version + 1 .. w /\ notifier[c[1]].changes = {}
    BY <1>1, <1>2 DEF Late, RunsForAll
  <2> QED BY <2>1
<1>3. CASE c[1] \notin worker.out
  <2>1. Late(c, w) = {} /\ notifier[c[1]].changes = notifier[c[1]].version + 1 .. w
    BY <1>1, <1>3 DEF Late, RunsForAll
  <2> QED BY <2>1
<1> QED BY <1>2, <1>3

LEMMA FollowHandOverSkip ==
  ASSUME Inv, HandOverSkip
  PROVE  FollowInv'
<1>1. /\ worker.at = "skipped" /\ worker' = [worker EXCEPT !.at = "last", !.out = {}]
      /\ notifier' = HandedOver(worker.old, worker.skip)
      /\ callback' = Given(worker.old, worker.skip)
      /\ UNCHANGED <<latest, realm, skipVersion>>
  BY DEF HandOverSkip
<1>2. /\ worker'.version = worker.version /\ worker'.at = "last"
      /\ worker.skip \in 0 .. MaxVersion /\ worker.version \in Nat /\ worker.skip \in Nat
  BY <1>1, Typed DEF Inv, BaseInv, WorkerType
<1>3. worker.old = Ran /\ Ran \subseteq Notifiers
  BY <1>1, HaveRunFacts DEF Inv, BaseInv, WorkerHasTheList
<1>4. \A n \in Notifiers :
        /\ notifier'[n].list = notifier[n].list /\ notifier'[n].alive = notifier[n].alive
        /\ notifier'[n].have = notifier[n].have
        /\ n \in Ran => /\ notifier'[n].version = worker.skip /\ notifier'[n].run
                        /\ notifier'[n].changes = {}
        /\ n \notin Ran => notifier'[n] = notifier[n]
  BY <1>1, <1>2, <1>3, HandedOverFacts DEF Inv, BaseInv
<1>5. /\ \A c \in Callbacks :
           /\ callback'[c].on = callback[c].on
           /\ callback'[c].initial = callback[c].initial
           /\ callback'[c].told = callback[c].told
           /\ callback'[c].exposed = callback[c].exposed
           /\ c[1] \notin Ran \/ ~callback[c].on => callback'[c] = callback[c]
           /\ c[1] \in Ran /\ callback[c].on =>
                /\ ~callback'[c].skip
                /\ callback[c].skip => /\ callback'[c].acc = callback[c].acc
                                     /\ callback'[c].late = callback[c].late
                /\ ~callback[c].skip =>
                     /\ callback'[c].acc = callback[c].acc \cup notifier[c[1]].changes
                     /\ callback'[c].late = callback[c].late \cup Late(c, worker.skip)
  BY <1>1, <1>2, <1>3, GivenFacts DEF Inv, BaseInv
<1>6. Ran' = Ran /\ Ours' = Ours
  BY <1>4 DEF Ran, Main, Ours
<1>7. /\ worker.skip <= worker.version /\ worker.version <= latest /\ worker.skip <= latest
      /\ \A n \in Ran : notifier[n].version <= worker.skip
  <2>1. /\ worker.skip <= worker.version /\ worker.version <= latest
        /\ \A n \in Ran : notifier[n].version <= worker.skip
    BY <1>1, <1>3 DEF Inv, BaseInv, SkipIsAhead, SkipFits, VersionsExist
  <2> QED BY <1>2, <2>1, HaveRunFacts DEF Inv, Versions
<1>8. WriterIsAlone /\ RunsForAll /\ worker.at # "idle"
  BY <1>1 DEF Inv, FollowInv
<1>9. WriterIsAlone' /\ RunsForAll'
  <2>1. \A n \in Ran : notifier'[n].version <= worker'.version
    BY <1>2, <1>3, <1>4, <1>7
  <2>2. \A n \in Notifiers :
          /\ notifier'[n].have /\ notifier'[n].alive => notifier'[n].list # "none"
          /\ notifier'[n].changes = {}
    BY <1>4, <1>8 DEF RunsForAll
  <2> QED BY <1>1, <1>2, <1>6, <1>8, <2>1, <2>2 DEF WriterIsAlone, RunsForAll
<1>10. ASSUME NEW c \in Callbacks
       PROVE  Registered(c)' /\ Knows(c)' /\ WriterTold(c)'
  <2>1. /\ notifier'[c[1]].have = notifier[c[1]].have
        /\ notifier[c[1]].run => notifier'[c[1]].run
    BY <1>4, FollowerFacts
  <2>2. /\ callback'[c].skip => callback[c].skip
        /\ callback[c].late \subseteq callback'[c].late
    BY <1>5
  <2>3. Registered(c)'
    BY <1>1, <1>5, <1>8, <2>1, <2>2, FollowerFacts DEF Registered
  <2>4. WriterTold(c)'
    <3>1. ASSUME realm.at = "write", callback[c].on, c[1] \in Ours
          PROVE  WriterTold(c)'
      <4>1. Following(c)
        BY <3>1, FollowerFacts DEF WriterTold, Following
      <4>2. c[1] \in Ran
        BY <4>1, FollowerFacts
      <4>3. notifier[c[1]].changes \subseteq notifier[c[1]].version + 1 .. worker.skip
        BY <1>1, <4>1, RunHas
      <4>4. callback'[c].acc \subseteq callback[c].acc \cup notifier[c[1]].changes
        BY <1>5, <3>1, <4>2
      <4> QED BY <1>1, <1>2, <1>4, <1>5, <1>7, <2>2, <3>1, <4>2, <4>3, <4>4,
                 FollowerFacts, HandOverTold
    <3> QED BY <1>1, <1>5, <1>6, <3>1 DEF WriterTold
  <2>5. ASSUME Following(c)
        PROVE  Knows(c)'
    <3>1. c[1] \in Ran /\ c[1] \in Ours /\ callback[c].on /\ c[1] \in Notifiers
      BY <2>5, FollowerFacts DEF Following
    <3>2. ASSUME notifier[c[1]].version + 1 \in callback[c].told
          PROVE  \/ worker.skip = notifier[c[1]].version + 1
                 \/ /\ worker.skip = notifier[c[1]].version
                    /\ worker.skip + 1 \in callback[c].exposed /\ Pending(c)'
      <4>1. Pending(c)
        BY <2>5, <3>2, FollowerFacts DEF Knows
      <4>2. CASE worker.skip = notifier[c[1]].version + 1
        BY <4>2
      <4>3. CASE /\ skipVersion = notifier[c[1]].version + 1
                 /\ worker.version < notifier[c[1]].version + 1
                 /\ notifier[c[1]].version + 1 \in callback[c].exposed
        <5>1. worker.skip = notifier[c[1]].version
          BY <1>2, <1>7, <3>1, <4>3, FollowerFacts
        <5>2. notifier'[c[1]].version = notifier[c[1]].version
          BY <1>4, <3>1, <5>1
        <5>3. notifier[c[1]].version + 1 <= realm'.version
          BY <1>1, <4>1 DEF Pending
        <5>4. Pending(c)'
          BY <1>1, <1>2, <1>5, <4>3, <5>2, <5>3 DEF Pending
        <5> QED BY <4>3, <5>1, <5>4
      <4> QED BY <1>1, <4>1, <4>2, <4>3 DEF Pending
    <3>3. c \in realm.silent => worker.skip = notifier[c[1]].version
      <4>1. ASSUME c \in realm.silent
            PROVE  notifier[c[1]].version = latest
        BY <3>1, <4>1, FollowerFacts DEF WriterTold
      <4> QED BY <1>2, <1>7, <3>1, <4>1, FollowerFacts
    <3>4. /\ notifier[c[1]].changes \cup Late(c, worker.skip) =
               notifier[c[1]].version + 1 .. worker.skip
          /\ notifier[c[1]].version <= worker.skip /\ worker.skip \in Nat
          /\ notifier'[c[1]].version = worker.skip /\ realm' = realm
      BY <1>1, <1>2, <1>4, <1>7, <2>5, <3>1, RunHas
    <3>5. /\ callback'[c].told = callback[c].told /\ ~callback'[c].skip
          /\ callback'[c].exposed = callback[c].exposed
          /\ callback[c].skip => /\ callback'[c].acc = callback[c].acc
                               /\ callback'[c].late = callback[c].late
          /\ ~callback[c].skip =>
               /\ callback'[c].acc = callback[c].acc \cup notifier[c[1]].changes
               /\ callback'[c].late = callback[c].late \cup Late(c, worker.skip)
      BY <1>5, <3>1
    <3> QED BY <2>5, <3>2, <3>3, <3>4, <3>5, HandOverKnows
  <2>6. Following(c)' => Following(c)
    BY <1>5, <1>6 DEF Following
  <2> QED BY <2>3, <2>4, <2>5, <2>6 DEF Knows
<1> QED BY <1>9, <1>10 DEF FollowInv

LEMMA FollowHandOverLast ==
  ASSUME Inv, HandOverLast
  PROVE  FollowInv'
<1> DEFINE v == worker.version
           hs == HandedOver(worker.old \cup worker.new, v)
<1>1. /\ worker.at = "ran" /\ worker' = Idle /\ worker'.at = "idle"
      /\ notifier' = Cleaned(hs)
      /\ callback' = Given(worker.old \cup worker.new, v)
      /\ skipVersion' = SkipAfter(notifier)
      /\ UNCHANGED <<latest, realm>>
  BY DEF HandOverLast, Idle
<1>2. worker.old \cup worker.new = Main /\ Ran \subseteq Main /\ Main \subseteq Notifiers
  BY <1>1 DEF Inv, BaseInv, WorkerHasTheList, Ran, Main
<1>3. v \in 0 .. MaxVersion /\ v \in Nat /\ v <= latest
  BY Typed DEF Inv, BaseInv, WorkerType, VersionsExist
<1>4. /\ hs \in [Notifiers -> NotifierType]
      /\ \A n \in Notifiers :
           /\ hs[n].list = notifier[n].list /\ hs[n].alive = notifier[n].alive
           /\ hs[n].have = notifier[n].have
           /\ n \in Main => hs[n].version = v /\ hs[n].run /\ hs[n].changes = {}
           /\ n \notin Main => hs[n] = notifier[n]
  BY <1>2, <1>3, HandedOverFacts DEF Inv, BaseInv
<1> HIDE DEF hs
<1>5. \A n \in Notifiers :
        /\ notifier'[n].list = IF notifier[n].alive THEN notifier[n].list ELSE "none"
        /\ notifier'[n].alive = notifier[n].alive
        /\ notifier'[n].have = notifier[n].have
        /\ n \in Main => /\ notifier'[n].version = v /\ notifier'[n].run
                         /\ notifier'[n].changes = {}
        /\ n \notin Main => /\ notifier'[n].run = notifier[n].run
                            /\ notifier'[n].changes = notifier[n].changes
  BY <1>1, <1>4, CleanedFacts
<1>6. \A c \in Callbacks :
        /\ callback'[c].on = callback[c].on
        /\ callback'[c].initial = callback[c].initial
        /\ callback'[c].told = callback[c].told
        /\ callback'[c].exposed = callback[c].exposed
        /\ c[1] \notin Main \/ ~callback[c].on => callback'[c] = callback[c]
        /\ c[1] \in Main /\ callback[c].on =>
             /\ ~callback'[c].skip
             /\ callback[c].skip => /\ callback'[c].acc = callback[c].acc
                                  /\ callback'[c].late = callback[c].late
             /\ ~callback[c].skip =>
                  /\ callback'[c].acc = callback[c].acc \cup notifier[c[1]].changes
                  /\ callback'[c].late = callback[c].late \cup Late(c, v)
  BY <1>1, <1>2, <1>3, GivenFacts DEF Inv, BaseInv
<1>7. Ours' = Ours
  BY <1>5 DEF Ours
<1>8. WriterIsAlone /\ RunsForAll /\ worker.at # "idle"
  BY <1>1 DEF Inv, FollowInv
<1>9. WriterIsAlone' /\ RunsForAll'
  <2>1. \A n \in Notifiers :
          /\ notifier'[n].have /\ notifier'[n].alive => notifier'[n].list # "none"
          /\ notifier'[n].changes = {}
    BY <1>2, <1>5, <1>8 DEF RunsForAll
  <2> QED BY <1>1, <1>8, <2>1 DEF WriterIsAlone, RunsForAll
<1>10. ASSUME NEW c \in Callbacks
       PROVE  Registered(c)' /\ Knows(c)' /\ WriterTold(c)'
  <2>1. /\ notifier'[c[1]].have = notifier[c[1]].have
        /\ notifier[c[1]].run => notifier'[c[1]].run
    BY <1>5, FollowerFacts
  <2>2. /\ callback'[c].skip => callback[c].skip
        /\ callback[c].late \subseteq callback'[c].late
    BY <1>6
  <2>3. Registered(c)'
    BY <1>1, <1>6, <1>8, <2>1, <2>2, FollowerFacts DEF Registered
  <2>4. ASSUME Following(c)
        PROVE  /\ notifier[c[1]].changes \cup Late(c, v) = notifier[c[1]].version + 1 .. v
               /\ notifier[c[1]].version <= v /\ notifier'[c[1]].version = v
               /\ notifier'[c[1]].run
               /\ c[1] \in Main /\ c[1] \in Ran /\ callback[c].on
    <3>1. c[1] \in Ran /\ c[1] \in Main /\ callback[c].on /\ c[1] \in Notifiers
      BY <1>2, <2>4, FollowerFacts DEF Following
    <3>2. notifier[c[1]].version <= v
      BY <1>8, <3>1 DEF RunsForAll
    <3> QED BY <1>1, <1>5, <2>4, <3>1, <3>2, RunHas
  <2>5. WriterTold(c)'
    <3>1. ASSUME realm.at = "write", callback[c].on, c[1] \in Ours
          PROVE  WriterTold(c)'
      <4>1. Following(c)
        BY <3>1, FollowerFacts DEF WriterTold, Following
      <4>2. notifier[c[1]].changes \subseteq notifier[c[1]].version + 1 .. v
        BY <2>4, <4>1
      <4>3. callback'[c].acc \subseteq callback[c].acc \cup notifier[c[1]].changes
        BY <1>6, <2>4, <4>1
      <4> QED BY <1>1, <1>3, <1>6, <2>2, <2>4, <3>1, <4>1, <4>2, <4>3, HandOverTold
    <3> QED BY <1>1, <1>6, <1>7, <3>1 DEF WriterTold
  <2>6. ASSUME Following(c)
        PROVE  Knows(c)'
    <3>1. ASSUME notifier[c[1]].version + 1 \in callback[c].told
          PROVE  /\ v = notifier[c[1]].version
                 /\ v + 1 \in callback[c].exposed /\ Pending(c)'
      <4>1. Pending(c)
        BY <2>6, <3>1, FollowerFacts DEF Knows
      <4>2. /\ skipVersion = notifier[c[1]].version + 1
            /\ v < notifier[c[1]].version + 1
            /\ notifier[c[1]].version + 1 \in callback[c].exposed
            /\ notifier[c[1]].version + 1 <= realm.version
        BY <1>1, <4>1 DEF Pending
      <4>3. v = notifier[c[1]].version
        BY <1>3, <2>4, <2>6, <4>2, FollowerFacts
      <4>4. skipVersion' = skipVersion
        <5>1. c[1] \in Listed(Cleaned(notifier), "main")
          <6>1. /\ notifier \in [Notifiers -> NotifierType] /\ c[1] \in Notifiers
                /\ notifier[c[1]].alive /\ notifier[c[1]].list = "main"
            BY <2>4, <2>6, Typed DEF Inv, BaseInv, Following, Ours, Main
          <6> QED BY <6>1, CleanedFacts DEF Listed
        <5> QED BY <1>1, <5>1 DEF SkipAfter
      <4>5. Pending(c)'
        BY <1>1, <2>4, <2>6, <4>2, <4>3, <4>4 DEF Pending
      <4> QED BY <4>2, <4>3, <4>5
    <3>2. c \in realm.silent => v = notifier[c[1]].version
      <4>1. ASSUME c \in realm.silent
            PROVE  notifier[c[1]].version = latest
        BY <2>6, <4>1, FollowerFacts DEF WriterTold, Following
      <4> QED BY <1>3, <2>4, <2>6, <4>1, FollowerFacts
    <3>3. /\ callback'[c].told = callback[c].told /\ ~callback'[c].skip
          /\ callback'[c].exposed = callback[c].exposed
          /\ callback[c].skip => /\ callback'[c].acc = callback[c].acc
                               /\ callback'[c].late = callback[c].late
          /\ ~callback[c].skip =>
               /\ callback'[c].acc = callback[c].acc \cup notifier[c[1]].changes
               /\ callback'[c].late = callback[c].late \cup Late(c, v)
      BY <1>6, <2>4, <2>6
    <3>4. realm' = realm
      BY <1>1
    <3> QED BY <1>3, <2>4, <2>6, <3>1, <3>2, <3>3, <3>4, HandOverKnows
  <2>7. Following(c)' => Following(c)
    BY <1>6, <1>7 DEF Following
  <2> QED BY <2>3, <2>5, <2>6, <2>7 DEF Knows
<1> QED BY <1>9, <1>10 DEF FollowInv

\* A delivery registers nobody.
LEMMA DeliveredKeepsOn ==
  ASSUME Inv, Delivered, NEW c \in Callbacks
  PROVE  callback'[c].on = callback[c].on
<1>1. ASSUME NEW ns, callback' = Packaged(ns)
      PROVE  callback'[c].on = callback[c].on
  BY <1>1, PackagedFacts DEF Inv, BaseInv
<1>2. ASSUME NEW ns, NEW v \in Versions, callback' = Called(ns, v)
      PROVE  callback'[c].on = callback[c].on
  BY <1>2, CalledFacts DEF Inv, BaseInv
<1>3. realm.version \in Versions
  BY HaveRunFacts DEF Inv
<1> QED BY <1>1, <1>2, <1>3 DEF Delivered

\* A delivery without a transaction: whoever is called knows all it should, and
\* what nobody is called for is not needed.
LEMMA FollowDelivered ==
  ASSUME Inv, Delivered, realm.silent = {}, realm'.silent = {},
         UNCHANGED <<latest, notifier, skipVersion, worker>>,
         NEW c \in Callbacks
  PROVE  Registered(c)' /\ Knows(c)'
<1> DEFINE known == notifier[c[1]].version
<1>1. /\ callback'[c] \in CallbackType
      /\ realm'.version \in Nat /\ realm.version <= realm'.version
      /\ HaveRun \subseteq Ours /\ \A n \in HaveRun : notifier[n].run
      /\ Ours' = Ours
  BY HaveRunFacts, DeliveredTyped DEF Inv, HaveRun, Ours, Versions
<1>2. /\ Registered(c) /\ Knows(c) /\ known \in Nat /\ realm.version \in Nat
      /\ callback[c] \in CallbackType
      /\ callback[c].on => notifier[c[1]].have
      /\ callback[c].initial => notifier[c[1]].run
      /\ Following(c) => c[1] \in HaveRun
  BY FollowerFacts
<1>3. ASSUME callback'[c] = callback[c], realm'.version = realm.version
      PROVE  Registered(c)' /\ Knows(c)'
  <2>1. Following(c)' = Following(c)
    BY <1>1, <1>3 DEF Following
  <2>2. Registered(c)'
    BY <1>2, <1>3 DEF Registered
  <2> QED BY <1>2, <1>3, <2>1, <2>2, PendingKept, KnowsKept
<1>4. ASSUME ~(callback[c].on /\ c[1] \in HaveRun),
             callback'[c].on = callback[c].on, callback'[c].skip = callback[c].skip,
             callback'[c].initial = callback[c].initial, callback'[c].told = callback[c].told
      PROVE  Registered(c)' /\ Knows(c)'
  <2>1. Registered(c)'
    BY <1>2, <1>4 DEF Registered
  <2>2. ~Following(c)'
    <3>1. Following(c)' => Following(c)
      BY <1>1, <1>4 DEF Following
    <3> QED BY <1>2, <1>4, <3>1 DEF Following
  <2> QED BY <2>1, <2>2 DEF Knows
<1>5. ASSUME NEW ns, NEW v \in Versions, ns \subseteq HaveRun, callback' = Called(ns, v),
             c[1] \in ns, callback[c].on, known = v, realm'.version = v
      PROVE  Registered(c)' /\ Knows(c)'
  <2>1. /\ callback'[c].on = callback[c].on /\ callback'[c].skip = callback[c].skip
        /\ callback'[c].acc = {} /\ callback'[c].initial
        /\ callback'[c].late = callback[c].late
        /\ callback[c].initial => callback'[c].told = callback[c].told \cup callback[c].acc
        /\ ~callback[c].initial => callback'[c].told = 1 .. v
    <3>1. TypeOK
      BY DEF Inv, BaseInv
    <3>2. /\ callback'[c] = Called(ns, v)[c] /\ c[1] \in ns /\ callback[c].on
          /\ v \in Versions
      BY <1>5
    <3>3. \A d \in Callbacks : /\ Called(ns, v)[d].on = callback[d].on
                              /\ Called(ns, v)[d].skip = callback[d].skip
      BY <3>1, <3>2, CalledFacts
    <3>4. /\ callback'[c].acc = {} /\ callback'[c].initial
          /\ callback'[c].late = callback[c].late
      BY <3>1, <3>2, CalledFacts
    <3>5. /\ callback[c].initial => callback'[c].told = callback[c].told \cup callback[c].acc
          /\ ~callback[c].initial => callback'[c].told = 1 .. v
      BY <3>1, <3>2, CalledFacts
    <3> QED BY <3>2, <3>3, <3>4, <3>5
  <2>2. v \in Nat /\ v >= 1 /\ c[1] \in Ours /\ notifier[c[1]].run
    BY <1>1, <1>5 DEF Versions
  <2>3. CASE callback[c].initial
    <3>1. Following(c)
      BY <1>5, <2>2, <2>3 DEF Following
    <3>2. /\ callback[c].told \subseteq 1 .. v + 1
          /\ 1 .. v \subseteq callback[c].told \cup callback[c].acc \cup callback[c].late
          /\ callback[c].acc \subseteq 1 .. v
          /\ v + 1 \in callback[c].told => v + 1 <= realm.version
          /\ callback[c].skip => v + 1 \in callback[c].told
      BY <1>2, <1>5, <3>1 DEF Knows, Pending
    <3>3. v + 1 \notin callback[c].told
      BY <1>1, <1>2, <1>5, <2>2, <3>2
    <3>4. callback'[c].told \subseteq 1 .. v
      BY <2>1, <2>2, <2>3, <3>2, <3>3
    <3>5. 1 .. v \subseteq callback'[c].told \cup callback'[c].late
      BY <2>1, <2>3, <3>2
    <3>6. Knows(c)'
      BY <1>5, <2>1, <2>2, <3>2, <3>3, <3>4, <3>5 DEF Knows
    <3>7. Registered(c)'
      BY <1>2, <1>5, <2>1, <2>2 DEF Registered
    <3> QED BY <3>6, <3>7
  <2>4. CASE ~callback[c].initial
    <3>1. ~callback[c].skip /\ callback'[c].told = 1 .. v
      BY <1>2, <2>1, <2>4 DEF Registered
    <3>2. Knows(c)'
      BY <1>5, <2>1, <2>2, <3>1 DEF Knows
    <3>3. Registered(c)'
      BY <1>2, <1>5, <2>1, <2>2, <3>1 DEF Registered
    <3> QED BY <3>2, <3>3
  <2> QED BY <2>3, <2>4
<1>6. ASSUME NEW ns, callback' = Packaged(ns)
      PROVE  /\ callback'[c].on = callback[c].on /\ callback'[c].skip = callback[c].skip
             /\ callback'[c].initial = callback[c].initial
             /\ callback'[c].told = callback[c].told
             /\ callback'[c].late = callback[c].late
             /\ c[1] \in ns => /\ callback'[c].acc = {}
                               /\ callback'[c].exposed = callback[c].exposed \ callback[c].acc
             /\ c[1] \notin ns => callback'[c] = callback[c]
  BY <1>6, PackagedFacts DEF Inv, BaseInv
<1>7. CASE callback' = callback /\ realm'.version = realm.version
  BY <1>3, <1>7
<1>8. CASE callback' = callback /\ realm'.version = latest /\ HaveRun = {}
  BY <1>4, <1>8
<1>9. CASE /\ callback' = Packaged(HaveRun) /\ realm'.version = latest
           /\ \A n \in HaveRun : ~notifier[n].have
  BY <1>2, <1>4, <1>6, <1>9
<1>10. CASE /\ callback' = Packaged(HaveRun) /\ realm'.version = realm.version
            /\ \A n \in HaveRun : notifier[n].version < realm.version
  <2>1. /\ callback'[c].on = callback[c].on /\ callback'[c].skip = callback[c].skip
        /\ callback'[c].initial = callback[c].initial
        /\ callback'[c].told = callback[c].told
        /\ callback'[c].late = callback[c].late
        /\ c[1] \in HaveRun => /\ callback'[c].acc = {}
                               /\ callback'[c].exposed = callback[c].exposed \ callback[c].acc
    BY <1>6, <1>10
  <2>2. Registered(c)'
    BY <1>2, <2>1 DEF Registered
  <2>3. Following(c)' = Following(c)
    BY <1>1, <2>1 DEF Following
  <2>4. ASSUME Following(c)
        PROVE  Knows(c)'
    <3>1. /\ callback[c].acc = {} /\ callback'[c].acc = {}
          /\ callback'[c].exposed = callback[c].exposed
      BY <1>2, <1>10, <2>1, <2>4 DEF Knows
    <3> QED BY <1>2, <1>10, <2>1, <2>4, <3>1, PendingKept DEF Knows
  <2> QED BY <2>2, <2>3, <2>4 DEF Knows
<1>11. ASSUME NEW ns, NEW v \in Versions, callback' = Called(ns, v),
              ~(c[1] \in ns /\ callback[c].on)
       PROVE  /\ callback'[c].on = callback[c].on /\ callback'[c].skip = callback[c].skip
              /\ callback'[c].initial = callback[c].initial
              /\ callback'[c].told = callback[c].told
              /\ c[1] \notin ns => callback'[c] = callback[c]
  BY <1>11, CalledFacts DEF Inv, BaseInv
<1>12. ASSUME callback' = Called({n \in HaveRun : notifier[n].version = realm.version}, realm.version),
              realm'.version = realm.version
       PROVE  Registered(c)' /\ Knows(c)'
  <2> DEFINE ns == {n \in HaveRun : notifier[n].version = realm.version}
  <2>1. realm.version \in Versions /\ ns \subseteq HaveRun
    BY HaveRunFacts DEF Inv
  <2>2. c[1] \in ns => known = realm.version
    OBVIOUS
  <2> HIDE DEF ns
  <2>3. callback' = Called(ns, realm.version)
    BY <1>12 DEF ns
  <2>4. CASE c[1] \in ns /\ callback[c].on
    BY <1>5, <1>12, <2>1, <2>2, <2>3, <2>4
  <2>5. CASE c[1] \notin ns
    BY <1>3, <1>11, <1>12, <2>1, <2>3, <2>5
  <2>6. CASE ~callback[c].on
    BY <1>4, <1>11, <2>1, <2>3, <2>6
  <2> QED BY <2>4, <2>5, <2>6
<1>13. ASSUME NEW v \in Versions, realm'.version = v,
              \A n \in HaveRun : notifier[n].version = v,
              callback' = Called(HaveRun, v)
       PROVE  Registered(c)' /\ Knows(c)'
  <2>1. CASE c[1] \in HaveRun /\ callback[c].on
    BY <1>5, <1>13, <2>1
  <2>2. CASE ~(c[1] \in HaveRun /\ callback[c].on)
    BY <1>4, <1>11, <1>13, <2>2
  <2> QED BY <2>1, <2>2
<1> QED BY <1>7, <1>8, <1>9, <1>10, <1>12, <1>13 DEF Delivered

LEMMA FollowNotify ==
  ASSUME Inv, Notify
  PROVE  FollowInv'
<1>1. /\ realm.at \in {"read", "write"} /\ realm.silent = {}
      /\ realm.at = "write" => UNCHANGED <<realm, callback>>
      /\ UNCHANGED <<latest, notifier, skipVersion, worker>>
  BY DEF Notify
<1>2. /\ Delivered /\ realm'.silent = {} /\ realm'.at = realm.at /\ realm'.target = realm.target
  <2>1. realm \in RealmType
    BY Typed DEF Inv, BaseInv
  <2> QED BY <1>1, <2>1, NotifyDelivers DEF Inv, RealmType
<1>3. Ran' = Ran /\ Ours' = Ours
  BY <1>1 DEF Ran, Main, Ours
<1>4. WriterIsAlone' /\ RunsForAll'
  <2>1. WriterIsAlone /\ RunsForAll
    BY DEF Inv, FollowInv
  <2> QED BY <1>1, <1>2, <1>3, <2>1 DEF WriterIsAlone, RunsForAll
<1>5. ASSUME NEW c \in Callbacks
      PROVE  Registered(c)' /\ Knows(c)' /\ WriterTold(c)'
  <2>1. WriterTold(c)'
    BY <1>1, <1>2, <1>3, FollowerFacts DEF WriterTold
  <2> QED BY <1>1, <1>2, <2>1, FollowDelivered
<1> QED BY <1>4, <1>5 DEF FollowInv

LEMMA FollowStopWaiting ==
  ASSUME Inv, StopWaiting
  PROVE  FollowInv'
<1>1. /\ realm.at \in {"refresh", "begin"} /\ Ready
      /\ UNCHANGED <<latest, notifier, skipVersion, worker>>
  BY DEF StopWaiting
<1>2. /\ Delivered /\ realm'.silent = realm.silent
      /\ realm'.at = IF realm.at = "begin" THEN "write" ELSE "read"
      /\ realm'.version >= realm.target /\ realm'.version <= latest
      /\ realm'.version \in Nat /\ latest \in Nat
      /\ \A n \in HaveRun : notifier[n].have =>
           realm'.version = notifier[n].version /\ callback' = Called(HaveRun, realm'.version)
  BY StopWaitingDelivers, DeliveredTyped, HaveRunFacts DEF Inv, Versions
<1>3. Ran' = Ran /\ Ours' = Ours
  BY <1>1 DEF Ran, Main, Ours
<1>4. WriterIsAlone /\ RunsForAll /\ realm.silent = {}
  BY <1>1 DEF Inv, BaseInv, VersionsExist, FollowInv
<1>5. realm.at = "begin" => realm'.version = latest
  BY <1>2, <1>4 DEF WriterIsAlone
<1>6. WriterIsAlone' /\ RunsForAll'
  BY <1>1, <1>2, <1>3, <1>4, <1>5 DEF WriterIsAlone, RunsForAll
<1>7. ASSUME NEW c \in Callbacks
      PROVE  Registered(c)' /\ Knows(c)' /\ WriterTold(c)'
  <2>1. Registered(c)' /\ Knows(c)'
    BY <1>1, <1>2, <1>4, FollowDelivered
  <2>2. ASSUME realm.at = "begin", callback'[c].on, c[1] \in Ours
        PROVE  WriterTold(c)'
    <3>1. callback[c].on
      BY <1>2, <2>2, DeliveredKeepsOn
    <3>2. notifier[c[1]].have /\ notifier[c[1]].run /\ c[1] \in HaveRun
      BY <1>1, <2>2, <3>1, FollowerFacts DEF Ready, HaveRun
    <3>3. notifier[c[1]].version = latest /\ callback' = Called(HaveRun, latest)
      BY <1>2, <1>5, <2>2, <3>2
    <3>4. latest \in Versions
      BY HaveRunFacts DEF Inv
    <3>5. callback'[c].initial /\ callback'[c].acc = {}
      BY <3>1, <3>2, <3>3, <3>4, CalledFacts DEF Inv, BaseInv
    <3>6. Following(c)'
      BY <1>3, <2>2, <3>5 DEF Following
    <3>7. latest + 1 \notin callback'[c].told
      <4>1. ~(latest + 1 <= realm'.version)
        BY <1>2
      <4> QED BY <1>1, <2>1, <3>3, <3>6, <4>1 DEF Knows, Pending
    <3>8. /\ callback'[c].told \subseteq 1 .. latest
          /\ 1 .. latest \subseteq callback'[c].told \cup callback'[c].late
      <4>1. /\ callback'[c].told \subseteq 1 .. latest + 1
            /\ 1 .. latest \subseteq callback'[c].told \cup callback'[c].late
        BY <1>1, <2>1, <3>3, <3>5, <3>6 DEF Knows
      <4>2. 1 .. latest + 1 = (1 .. latest) \cup {latest + 1}
        BY <1>2
      <4> QED BY <3>7, <4>1, <4>2
    <3> QED BY <1>1, <3>2, <3>3, <3>5, <3>8 DEF WriterTold
  <2>3. WriterTold(c)'
    BY <1>1, <1>2, <1>3, <2>2 DEF WriterTold
  <2> QED BY <2>1, <2>3
<1> QED BY <1>6, <1>7 DEF FollowInv

LEMMA FollowNext == Inv /\ [Next]_vars => FollowInv'
<1> SUFFICES ASSUME Inv, [Next]_vars PROVE FollowInv'
  OBVIOUS
<1>1. CASE Worker
  BY <1>1, FollowStart, FollowRun, FollowHandOverSkip, FollowHandOverLast DEF Worker
<1>2. ASSUME NEW n \in Notifiers, Register(n) \/ Unregister(n)
      PROVE  FollowInv'
  BY <1>2, FollowRegister, FollowUnregister
<1>3. ASSUME NEW c \in Callbacks, AddCallback(c) \/ RemoveCallback(c)
      PROVE  FollowInv'
  BY <1>3, FollowAddCallback, FollowRemoveCallback
<1>4. ASSUME NEW cs \in SUBSET Callbacks, Suppress(cs)
      PROVE  FollowInv'
  BY <1>4, FollowSuppress
<1>5. CASE UNCHANGED vars
  <2>1. Main' = Main /\ Ran' = Ran /\ Ours' = Ours
    BY <1>5 DEF vars, Main, Ran, Ours
  <2>2. WriterIsAlone /\ RunsForAll
    BY DEF Inv, FollowInv
  <2>3. WriterIsAlone' /\ RunsForAll'
    BY <1>5, <2>1, <2>2 DEF vars, WriterIsAlone, RunsForAll
  <2>4. ASSUME NEW c \in Callbacks
        PROVE  Registered(c)' /\ Knows(c)' /\ WriterTold(c)'
    BY <1>5, <2>1, PendingKept, KnowsKept, FollowerFacts
    DEF vars, Registered, WriterTold, Following
  <2> QED BY <2>3, <2>4 DEF FollowInv
<1> QED BY <1>1, <1>2, <1>3, <1>4, <1>5, FollowNotify, FollowWait, FollowStopWaiting,
           FollowCommit, FollowOtherCommit DEF Next

LEMMA FollowAlways == Spec => []Inv
<1>1. Init => Inv
  BY BaseInit, FollowInit DEF Inv
<1>2. Inv /\ [Next]_vars => Inv'
  BY BaseNext, FollowNext DEF Inv
<1> QED BY <1>1, <1>2, PTL DEF Spec

\* However runs of the worker, refreshes and transactions mix, a callback that has
\* been called once knows, or has waiting, every change up to the version its
\* collection is at, but for those of a run that was under way when the callback
\* was added, and that had left its notifier out.
THEOREM NothingIsMissed == Spec => []NoChangeIsMissed
<1>1. Inv => NoChangeIsMissed
  BY DEF Inv, FollowInv, Knows, NoChangeIsMissed
<1> QED BY <1>1, FollowAlways, PTL

\* Nor does any change wait for a callback that knows it already, but that of a
\* transaction that suppressed the callback and was overlapped by a run.
THEOREM NothingIsToldTwice == Spec => []NoChangeIsToldTwice
<1>1. Inv => NoChangeIsToldTwice
  BY DEF Inv, FollowInv, Knows, NoChangeIsToldTwice
<1> QED BY <1>1, FollowAlways, PTL

\* A delivery tells a callback what makes it know its collection as it is.
LEMMA DeliveryMatches ==
  ASSUME Inv, Delivered, NEW c \in Callbacks, callback'[c].told # callback[c].told
  PROVE  /\ callback'[c].told \subseteq 1 .. realm'.version
         /\ 1 .. realm'.version \subseteq callback'[c].told \cup callback'[c].late
<1> DEFINE Goal == /\ callback'[c].told \subseteq 1 .. realm'.version
                   /\ 1 .. realm'.version \subseteq callback'[c].told \cup callback'[c].late
<1>1. realm.version \in Versions /\ TypeOK
  BY HaveRunFacts DEF Inv, BaseInv
<1>2. ASSUME NEW ns, callback' = Packaged(ns)
      PROVE  FALSE
  BY <1>1, <1>2, PackagedFacts
<1>3. ASSUME NEW ns, NEW v \in Versions, callback' = Called(ns, v), ns \subseteq HaveRun,
             \A n \in ns : notifier[n].version = v, realm'.version = v, realm.version <= v
      PROVE  Goal
  <2>1. callback'[c] = Called(ns, v)[c]
    BY <1>3
  <2>2. /\ c[1] \notin ns => callback'[c] = callback[c]
        /\ ~callback[c].on => callback'[c].told = callback[c].told
        /\ callback'[c].late = callback[c].late
        /\ c[1] \in ns /\ callback[c].on =>
             /\ callback[c].initial => callback'[c].told = callback[c].told \cup callback[c].acc
             /\ ~callback[c].initial => callback'[c].told = 1 .. v
    BY <1>1, <2>1, CalledFacts
  <2>3. c[1] \in ns /\ callback[c].on
    BY <2>2
  <2>4. CASE callback[c].initial
    <3>1. Following(c) /\ notifier[c[1]].version = v /\ v \in Nat
      BY <1>3, <2>3, <2>4 DEF Following, HaveRun, Versions
    <3>2. /\ callback[c].told \subseteq 1 .. v + 1
          /\ 1 .. v \subseteq callback[c].told \cup callback[c].acc \cup callback[c].late
          /\ callback[c].acc \subseteq 1 .. v
          /\ v + 1 \in callback[c].told => v + 1 <= realm.version
      BY <3>1, FollowerFacts DEF Knows, Pending
    <3>3. v + 1 \notin callback[c].told
      BY <1>3, <3>1, <3>2, FollowerFacts
    <3>4. 1 .. v + 1 = (1 .. v) \cup {v + 1}
      BY <3>1
    <3> QED BY <1>3, <2>2, <2>3, <2>4, <3>2, <3>3, <3>4
  <2>5. CASE ~callback[c].initial
    BY <1>3, <2>2, <2>3, <2>5
  <2> QED BY <2>4, <2>5
<1>4. ASSUME callback' = Called({n \in HaveRun : notifier[n].version = realm.version}, realm.version),
             realm'.version = realm.version
      PROVE  Goal
  <2> DEFINE ns == {n \in HaveRun : notifier[n].version = realm.version}
  <2>1. ns \subseteq HaveRun /\ \A n \in ns : notifier[n].version = realm.version
    OBVIOUS
  <2>2. callback' = Called(ns, realm.version) /\ realm.version <= realm.version
    BY <1>1, <1>4 DEF Versions
  <2> HIDE DEF ns, Goal
  <2> QED BY <1>1, <1>3, <1>4, <2>1, <2>2
<1>5. ASSUME NEW v \in Versions, callback' = Called(HaveRun, v),
             \A n \in HaveRun : notifier[n].version = v, realm'.version = v, realm.version <= v
      PROVE  Goal
  <2> HIDE DEF Goal
  <2> QED BY <1>3, <1>5
<1>6. callback' # callback
  OBVIOUS
<1> HIDE DEF Goal
<1>7. Goal
  BY <1>2, <1>4, <1>5, <1>6 DEF Delivered
<1> QED BY <1>7 DEF Goal

LEMMA StepMatches ==
  ASSUME Inv, [Next]_vars, NEW c \in Callbacks, callback'[c].told # callback[c].told
  PROVE  /\ callback'[c].told \subseteq 1 .. realm'.version
         /\ 1 .. realm'.version \subseteq callback'[c].told \cup callback'[c].late
<1>0. \A cs : latest < MaxVersion \/ cs = {} => Exposed(cs)[c].told = callback[c].told
  <2> SUFFICES ASSUME NEW cs, latest < MaxVersion \/ cs = {}
               PROVE  Exposed(cs)[c].told = callback[c].told
    OBVIOUS
  <2>0. latest < MaxVersion \/ cs = {}
    OBVIOUS
  <2> DEFINE e == Exposed(cs)[c]
  <2>1. e = [callback[c] EXCEPT !.exposed = e.exposed]
    <3>1. TypeOK
      BY DEF Inv, BaseInv
    <3>2. \A d \in Callbacks :
            Exposed(cs)[d] = [callback[d] EXCEPT !.exposed = Exposed(cs)[d].exposed]
      BY ONLY <2>0, <3>1, ExposedFacts
    <3> QED BY <3>2
  <2>2. callback[c] \in CallbackType
    BY FollowerFacts
  <2> HIDE DEF e
  <2>3. e.told = callback[c].told
    BY <2>1, <2>2 DEF CallbackType
  <2> QED BY <2>3 DEF e
<1>1. ASSUME Worker PROVE FALSE
  <2>1. /\ \A ns : \A v \in 0 .. MaxVersion : Given(ns, v)[c].told = callback[c].told
        /\ worker.skip \in 0 .. MaxVersion /\ worker.version \in 0 .. MaxVersion
    BY GivenFacts, Typed DEF Inv, BaseInv, WorkerType
  <2>2. CASE Start
    <3>1. callback' = callback \/ callback' = Exposed(realm.silent)
      BY <2>2, StartFacts DEF Inv
    <3>2. latest < MaxVersion \/ realm.silent = {}
      BY DEF Inv, BaseInv, VersionsExist
    <3> QED BY <1>0, <3>1, <3>2
  <2>3. CASE Ask \/ RunToSkip \/ RunToLast
    BY <2>3 DEF Ask, RunToSkip, RunToLast, Run
  <2>4. CASE HandOverSkip
    BY <2>1, <2>4 DEF HandOverSkip
  <2>5. CASE HandOverLast
    BY <2>1, <2>5 DEF HandOverLast
  <2> QED BY <1>1, <2>2, <2>3, <2>4, <2>5 DEF Worker
<1>2. ASSUME NEW n \in Notifiers, Register(n) \/ Unregister(n) PROVE FALSE
  BY <1>2 DEF Register, Unregister
<1>3. ASSUME NEW d \in Callbacks, AddCallback(d) \/ RemoveCallback(d) PROVE FALSE
  <2>1. callback \in [Callbacks -> CallbackType]
    BY Typed DEF Inv, BaseInv
  <2> QED BY <1>3, <2>1 DEF AddCallback, RemoveCallback, CallbackType
<1>4. ASSUME NEW cs \in SUBSET Callbacks, Suppress(cs) PROVE FALSE
  <2> DEFINE b == (IF worker = Idle THEN callback ELSE Exposed(cs))[c]
  <2>1. callback'[c] = IF c \in cs THEN [b EXCEPT !.skip = TRUE] ELSE callback[c]
    BY <1>4 DEF Suppress
  <2>2. b \in CallbackType /\ b.told = callback[c].told
    <3>1. latest < MaxVersion /\ TypeOK
      BY <1>4 DEF Suppress, Inv, BaseInv
    <3>2. Exposed(cs) \in [Callbacks -> CallbackType]
      BY <3>1, ExposedFacts
    <3>3. CASE worker = Idle
      BY <3>3, FollowerFacts
    <3>4. CASE worker # Idle
      BY <1>0, <3>1, <3>2, <3>4
    <3> QED BY <3>3, <3>4
  <2> HIDE DEF b
  <2>3. callback'[c].told = callback[c].told
    BY <2>1, <2>2 DEF CallbackType
  <2> QED BY <2>3
<1>5. CASE Notify \/ StopWaiting
  BY <1>5, NotifyDelivers, StopWaitingDelivers, DeliveryMatches DEF Inv
<1>6. CASE Commit
  <2>1. /\ c \in realm.silent /\ callback[c].initial
        /\ callback'[c].told = callback[c].told \cup {latest'}
        /\ callback'[c].late = callback[c].late
    BY <1>6, CommitTells
  <2>2. /\ callback[c].told \subseteq 1 .. latest /\ latest \in Nat
        /\ 1 .. latest \subseteq callback[c].told \cup callback[c].late
    BY <2>1, FollowerFacts DEF Registered
  <2>3. realm'.version = latest + 1 /\ latest' = latest + 1
    BY <1>6, FollowerFacts DEF Commit, RealmType
  <2>4. (1 .. latest) \cup {latest + 1} = 1 .. latest + 1
    BY <2>2
  <2> QED BY <2>1, <2>2, <2>3, <2>4
<1>7. ASSUME Refresh \/ Begin \/ WakeWorker \/ Cancel \/ OtherCommit \/ UNCHANGED vars PROVE FALSE
  BY <1>7 DEF Refresh, Begin, Await, WakeWorker, Cancel, OtherCommit, vars
<1> QED BY <1>1, <1>2, <1>3, <1>4, <1>5, <1>6, <1>7 DEF Next

\* Whenever a callback is told something it then knows exactly what the Realm
\* shows at that moment, less what it missed.
THEOREM CallsMatch == Spec => CallsMatchTheRealm
<1>1. Inv /\ [Next]_vars =>
        [\A c \in Callbacks :
           callback'[c].told # callback[c].told =>
             /\ callback'[c].told \subseteq 1 .. realm'.version
             /\ 1 .. realm'.version \subseteq callback'[c].told \cup callback'[c].late]_vars
  BY StepMatches
<1> QED BY <1>1, FollowAlways, PTL DEF Spec, CallsMatchTheRealm
================================================================================
