-------------------------- MODULE StandaloneProofs --------------------------
(***************************************************************************)
(* Proofs about the parts that neither use nor are used by another one.    *)
(*                                                                         *)
(* PosterCell: for any posters and however often the cell is used, its     *)
(* invariant is inductive as it stands.                                    *)
(*                                                                         *)
(* SyncProgressNotifier: totals cover what was committed at registration,  *)
(* and the end is told once, for any bounds.                               *)
(*                                                                         *)
(* WorkQueue: it keeps its invariant and implements SerialTasks, for any   *)
(* number of tasks.                                                        *)
(***************************************************************************)
EXTENDS PosterCell, SyncProgressNotifier, WorkQueue,
        FiniteSetTheorems, SequenceTheorems, TLAPS

-------------------------------------------------------------------------------
\* The poster cell.

Steps == {"none", "lookUp", "assign", "resume", "ended"}
Downloads == {"none", "suspended", "running", "cancelled", "arrived", "stored", "ended"}

\* What every step needs to know of the state.
LEMMA Ranges ==
  ASSUME PosterTypeOK
  PROVE  /\ loads \in Nat /\ MaxLoads \in Nat /\ loads <= MaxLoads
         /\ \A l \in Loads : l \in Nat /\ l > 0
         /\ \A l \in Loads : block[l] # "none" \/ download[l] # "none" => l \in 1 .. loads
         /\ \A i \in DOMAIN mainQueue : mainQueue[i] \in 1 .. loads
<1>1. loads \in Nat /\ MaxLoads \in Nat /\ loads <= MaxLoads
  BY PosterAssumption DEF PosterTypeOK, loads
<1>2. \A l \in Loads : l \in Nat /\ l > 0
  BY <1>1 DEF Loads
<1>3. \A l \in Loads : block[l] # "none" \/ download[l] # "none" => l \in 1 .. loads
  <2>1. \A l \in Loads : block[l] # "none" \/ download[l] # "none" => ~ (l > loads)
    BY DEF PosterTypeOK
  <2> QED BY <1>1, <1>2, <2>1
<1>4. \A i \in DOMAIN mainQueue : mainQueue[i] \in 1 .. loads
  <2>1. mainQueue \in Seq(1 .. loads)
    BY DEF PosterTypeOK
  <2> QED BY <2>1, ElementOfSeq, LenProperties
<1> QED BY <1>1, <1>2, <1>3, <1>4

\* An entry at the end of the queue.
LEMMA Appended ==
  ASSUME NEW S, NEW q \in Seq(S), NEW e \in S
  PROVE  \A i \in DOMAIN Append(q, e) :
           Append(q, e)[i] = e \/ \E j \in DOMAIN q : Append(q, e)[i] = q[j]
<1> SUFFICES ASSUME NEW i \in DOMAIN Append(q, e), Append(q, e)[i] # e
             PROVE  \E j \in DOMAIN q : Append(q, e)[i] = q[j]
  OBVIOUS
<1>1. i \in DOMAIN q /\ Append(q, e)[i] = q[i]
  OBVIOUS
<1> QED BY <1>1

\* The first entry, and the others.
LEMMA Taken ==
  ASSUME NEW S, NEW q \in Seq(S), q # <<>>
  PROVE  /\ Head(q) \in S /\ Tail(q) \in Seq(S)
         /\ \E j \in DOMAIN q : Head(q) = q[j]
         /\ \A i \in DOMAIN Tail(q) : \E j \in DOMAIN q : Tail(q)[i] = q[j]
<1>1. Head(q) \in S /\ Tail(q) \in Seq(S)
  OBVIOUS
<1>2. 1 \in DOMAIN q /\ Head(q) = q[1]
  OBVIOUS
<1>3. \A i \in DOMAIN Tail(q) : i + 1 \in DOMAIN q /\ Tail(q)[i] = q[i + 1]
  OBVIOUS
<1> QED BY <1>1, <1>2, <1>3

\* A cell that was never used.
LEMMA InitSound == PosterInit => PosterInv
<1> SUFFICES ASSUME PosterInit PROVE PosterInv
  OBVIOUS
<1>1. /\ poster \in Seq(Posters \cup {NoPoster}) /\ loads = 0
      /\ mainQueue \in Seq(1 .. loads) /\ DOMAIN mainQueue = {}
  BY EmptySeq DEF PosterInit, loads
<1>2. PosterTypeOK
  <2>1. task \in 0 .. loads /\ image \in 0 .. loads /\ loads <= MaxLoads
    BY <1>1, PosterAssumption DEF PosterInit, NoLoad
  <2>2. /\ block \in [Loads -> Steps] /\ download \in [Loads -> Downloads]
        /\ \A l \in Loads : block[l] = "none" /\ download[l] = "none"
    BY DEF PosterInit, Steps, Downloads
  <2>3. /\ cached \subseteq Posters \cup {NoPoster} /\ failed \subseteq Loads
        /\ outOfReach \subseteq Loads /\ crashed \in BOOLEAN
    BY DEF PosterInit
  <2> QED BY <1>1, <2>1, <2>2, <2>3 DEF PosterTypeOK, Steps, Downloads
<1>3. OldPostersWereOutOfReach
  BY <1>1 DEF PosterInit, OldPostersWereOutOfReach, Escapes, InBlock, InHandler, NoLoad
<1> QED BY <1>2, <1>3 DEF PosterInv

-------------------------------------------------------------------------------
\* Type correctness, action by action.

LEMMA ReuseTyped ==
  ASSUME PosterTypeOK, NEW p \in Posters \cup {NoPoster}, Reuse(p)
  PROVE  PosterTypeOK' /\ loads' = loads + 1
<1>1. /\ loads \in Nat /\ loads + 1 \in Loads
      /\ poster' \in Seq(Posters \cup {NoPoster}) /\ loads' = loads + 1 /\ loads' <= MaxLoads
  BY Ranges DEF Reuse, PosterTypeOK, loads, Loads
<1>2. mainQueue' \in Seq(1 .. loads')
  <2>1. mainQueue \in Seq(1 .. loads) /\ 1 .. loads \subseteq 1 .. loads + 1
    BY <1>1 DEF PosterTypeOK
  <2> QED BY <1>1, <2>1, SeqMonotonic DEF Reuse
<1>3. task' \in 0 .. loads' /\ image' \in 0 .. loads'
  BY <1>1 DEF Reuse, PosterTypeOK, NoLoad
<1>4. block' \in [Loads -> Steps] /\ download' \in [Loads -> Downloads]
  BY DEF Reuse, PosterTypeOK, Steps, Downloads
<1>5. \A l \in Loads : l > loads' => block'[l] = "none" /\ download'[l] = "none"
  <2> SUFFICES ASSUME NEW l \in Loads, l > loads'
               PROVE  block'[l] = "none" /\ download'[l] = "none"
    OBVIOUS
  <2>1. l > loads /\ l # loads + 1
    BY <1>1, Ranges
  <2>2. block[l] = "none" /\ download[l] = "none"
    BY <2>1 DEF PosterTypeOK
  <2> QED BY <2>1, <2>2 DEF Reuse, PosterTypeOK
<1>6. outOfReach' \subseteq Loads /\ UNCHANGED <<cached, failed, crashed>>
  BY DEF Reuse, PosterTypeOK
<1> QED BY <1>1, <1>2, <1>3, <1>4, <1>5, <1>6 DEF PosterTypeOK, Steps, Downloads

LEMMA StepsTyped ==
  ASSUME PosterTypeOK, NEW l \in Loads, Block(l) \/ Race(l) \/ Download(l)
  PROVE  PosterTypeOK'
<1> USE DEF PosterTypeOK, Downloads
<1>1. UNCHANGED poster /\ loads' = loads /\ loads \in Nat
  BY Ranges DEF Block, LookUp, Assign, Resume, Race, Download, Arrive, StoreResponse,
                PostImage, loads
<1>2. l \in 1 .. loads
  BY Ranges DEF Block, LookUp, Assign, Resume, Race, Download, Arrive, StoreResponse,
                PostImage
<1>3. CASE LookUp(l)
  <2>1. mainQueue' \in Seq(1 .. loads)
    <3>1. Append(mainQueue, l) \in Seq(1 .. loads)
      BY <1>2
    <3> QED BY <1>3, <3>1 DEF LookUp
  <2>2. /\ block' \in [Loads -> {"none", "lookUp", "assign", "resume", "ended"}]
        /\ \A k \in Loads : k # l => block'[k] = block[k]
    BY <1>3 DEF LookUp
  <2>3. \A k \in Loads : k > loads => k # l
    BY <1>1, <1>2
  <2> QED BY <1>1, <1>3, <2>1, <2>2, <2>3 DEF LookUp
<1>4. CASE Assign(l)
  <2>1. \A k \in Loads : k > loads => k # l
    BY <1>1, <1>2
  <2>2. /\ block' \in [Loads -> {"none", "lookUp", "assign", "resume", "ended"}]
        /\ download' \in [Loads -> Downloads]
        /\ \A k \in Loads : k # l => block'[k] = block[k] /\ download'[k] = download[k]
    BY <1>4 DEF Assign
  <2>3. task' \in 0 .. loads
    BY <1>1, <1>2, <1>4 DEF Assign
  <2> QED BY <1>1, <1>4, <2>1, <2>2, <2>3 DEF Assign
<1>5. CASE Resume(l)
  <2>1. \A k \in Loads : k > loads => k # l
    BY <1>1, <1>2
  <2>2. /\ block' \in [Loads -> {"none", "lookUp", "assign", "resume", "ended"}]
        /\ \A k \in Loads : k # l => block'[k] = block[k]
    BY <1>5 DEF Resume
  <2>3. /\ download' \in [Loads -> Downloads]
        /\ \A k \in Loads : download[k] = "none" => download'[k] = "none"
    BY <1>5 DEF Resume
  <2> QED BY <1>1, <1>5, <2>1, <2>2, <2>3 DEF Resume
<1>6. CASE Race(l)
  BY <1>1, <1>6 DEF Race
<1>7. CASE Download(l)
  <2>1. \A k \in Loads : k > loads => k # l
    BY <1>1, <1>2
  <2>2. /\ download' \in [Loads -> Downloads]
        /\ \A k \in Loads : k # l => download'[k] = download[k]
    BY <1>7 DEF Download, Arrive, StoreResponse, PostImage
  <2>3. mainQueue' \in Seq(1 .. loads)
    <3>1. Append(mainQueue, l) \in Seq(1 .. loads)
      BY <1>2
    <3> QED BY <1>7, <3>1 DEF Download, Arrive, StoreResponse, PostImage
  <2>4. cached' \subseteq Posters \cup {NoPoster}
    <3>1. poster[l] \in Posters \cup {NoPoster}
      BY <1>2 DEF loads
    <3> QED BY <1>7, <3>1 DEF Download, Arrive, StoreResponse, PostImage
  <2>5. failed' \subseteq Loads /\ UNCHANGED <<block, task, image, outOfReach, crashed>>
    BY <1>7 DEF Download, Arrive, StoreResponse, PostImage
  <2> QED BY <1>1, <2>1, <2>2, <2>3, <2>4, <2>5
<1> QED BY <1>3, <1>4, <1>5, <1>6, <1>7 DEF Block

LEMMA OthersTyped ==
  ASSUME PosterTypeOK, SetImage \/ \E p \in Posters : Evict(p)
  PROVE  PosterTypeOK'
<1>1. UNCHANGED poster /\ loads' = loads
  BY DEF SetImage, Evict, loads
<1>2. CASE SetImage
  <2>1. Head(mainQueue) \in 1 .. loads /\ Tail(mainQueue) \in Seq(1 .. loads)
    BY <1>2, Taken DEF SetImage, PosterTypeOK
  <2>2. image' \in 0 .. loads /\ mainQueue' \in Seq(1 .. loads)
    BY <1>2, <2>1, Ranges DEF SetImage
  <2> QED BY <1>1, <1>2, <2>2 DEF SetImage, PosterTypeOK
<1>3. CASE \E p \in Posters : Evict(p)
  BY <1>1, <1>3 DEF Evict, PosterTypeOK
<1> QED BY <1>2, <1>3

-------------------------------------------------------------------------------
\* What may bring an old poster to the cell was out of reach.

LEMMA ReuseKeeps ==
  ASSUME PosterInv, NEW p \in Posters \cup {NoPoster}, Reuse(p)
  PROVE  OldPostersWereOutOfReach'
<1> USE DEF PosterInv
<1>1. loads \in Nat /\ loads' = loads + 1
  BY ReuseTyped, Ranges
<1>2. image' = NoLoad
  BY DEF Reuse
<1>3. ASSUME NEW l \in Loads, l # loads', Escapes(l)'
      PROVE  l \in outOfReach'
  <2>1. InBlock(l)' => InBlock(l)
    BY <1>1, <1>3 DEF Reuse, InBlock, PosterTypeOK
  <2>2. /\ download'[l] = "running" => download[l] = "running" /\ l # task
        /\ InHandler(l)' => InHandler(l)
    BY DEF Reuse, PosterTypeOK, InHandler
  <2>3. Escapes(l)
    BY <1>3, <2>1, <2>2 DEF Escapes, Reuse
  <2> QED BY <2>3 DEF Reuse
<1>4. task' \notin {NoLoad, loads'} => download'[task'] \notin {"suspended", "running"}
  <2>1. task' = task /\ task \in 0 .. loads
    BY DEF Reuse, PosterTypeOK
  <2>2. task # NoLoad => task \in Loads
    BY <1>1, <2>1, Ranges DEF NoLoad, Loads
  <2> QED BY <2>1, <2>2 DEF Reuse, PosterTypeOK
<1> QED BY <1>2, <1>3, <1>4 DEF OldPostersWereOutOfReach

LEMMA StepsKeep ==
  ASSUME PosterInv, NEW l \in Loads, Block(l) \/ Race(l) \/ Download(l)
  PROVE  OldPostersWereOutOfReach'
<1> USE DEF PosterInv
<1>1. UNCHANGED <<image, outOfReach>> /\ loads' = loads
  BY DEF Block, LookUp, Assign, Resume, Race, Download, Arrive, StoreResponse, PostImage,
         loads
<1>2. task \in 0 .. loads /\ loads \in Nat
  BY Ranges DEF PosterTypeOK
<1>3. CASE LookUp(l) \/ Race(l)
  <2>1. l # loads => l \in outOfReach
    BY <1>3 DEF OldPostersWereOutOfReach, Escapes, InBlock, LookUp, Race
  <2>2. ASSUME NEW k \in Loads, k # l, Escapes(k)' PROVE Escapes(k)
    <3>1. InBlock(k)' => InBlock(k)
      BY <1>3, <2>2 DEF InBlock, LookUp, Race, PosterTypeOK
    <3>2. \A i \in DOMAIN mainQueue' :
            mainQueue'[i] = k => \E j \in DOMAIN mainQueue : mainQueue[j] = k
      <4>1. mainQueue \in Seq(1 .. loads) /\ l \in 1 .. loads
        BY <1>3, Ranges DEF PosterTypeOK, LookUp, Race
      <4>2. CASE mainQueue' = Append(mainQueue, l)
        BY <2>2, <4>1, <4>2, Appended
      <4> QED BY <1>3, <4>2 DEF LookUp, Race
    <3> QED BY <1>3, <2>2, <3>1, <3>2 DEF Escapes, InHandler, LookUp, Race
  <2>3. UNCHANGED <<task, download>>
    BY <1>3 DEF LookUp, Race
  <2> QED BY <1>1, <2>1, <2>2, <2>3 DEF OldPostersWereOutOfReach
<1>4. CASE Assign(l)
  <2>1. l # loads => l \in outOfReach
    BY <1>4 DEF OldPostersWereOutOfReach, Escapes, InBlock, Assign
  <2>2. task' = l /\ UNCHANGED mainQueue
    BY <1>4 DEF Assign
  <2>3. ASSUME NEW k \in Loads, k # l, Escapes(k)'
        PROVE  Escapes(k) \/ (k = task /\ download[k] = "running")
    <3>1. InBlock(k)' => InBlock(k)
      BY <1>4, <2>3 DEF InBlock, Assign, PosterTypeOK
    <3>2. download'[k] = download[k]
      BY <1>4, <2>3 DEF Assign, PosterTypeOK
    <3>3. mainQueue' = mainQueue
      BY <2>2
    <3>4. CASE \E i \in DOMAIN mainQueue : mainQueue[i] = k
      BY <3>4 DEF Escapes
    <3>5. CASE ~ \E i \in DOMAIN mainQueue : mainQueue[i] = k
      <4>1. InBlock(k)' \/ download'[k] = "running" \/ InHandler(k)'
        BY <2>3, <3>3, <3>5 DEF Escapes
      <4> QED BY <3>1, <3>2, <4>1 DEF Escapes, InHandler
    <3> QED BY <3>4, <3>5
  <2>4. \A k \in Loads : k = task => task # NoLoad
    BY Ranges DEF NoLoad
  <2> QED BY <1>1, <2>1, <2>2, <2>3, <2>4 DEF OldPostersWereOutOfReach
<1>5. CASE Resume(l)
  <2>1. /\ UNCHANGED <<task, mainQueue>>
        /\ \A k \in Loads : /\ InBlock(k)' => InBlock(k)
                            /\ k # task => download'[k] = download[k]
                            /\ InHandler(k)' => InHandler(k)
                            /\ download'[k] \in {"suspended", "running"} =>
                                 download[k] \in {"suspended", "running"}
    BY <1>5 DEF Resume, InBlock, InHandler, PosterTypeOK
  <2>2. task # NoLoad => task \in Loads
    BY <1>2, Ranges DEF NoLoad, Loads
  <2>3. \A k \in Loads : Escapes(k)' => Escapes(k)
    BY <2>1 DEF Escapes
  <2> QED BY <1>1, <2>1, <2>2, <2>3 DEF OldPostersWereOutOfReach
<1>6. CASE Download(l)
  <2>1. l # loads => l \in outOfReach
    <3>1. l # NoLoad /\ (download[l] = "running" \/ InHandler(l))
      BY <1>6, Ranges DEF Download, Arrive, StoreResponse, PostImage, InHandler, NoLoad
    <3> QED BY <3>1 DEF OldPostersWereOutOfReach, Escapes
  <2>2. /\ UNCHANGED <<block, task>>
        /\ \A k \in Loads : k # l => download'[k] = download[k]
        /\ mainQueue' \in {mainQueue, Append(mainQueue, l)}
    BY <1>6 DEF Download, Arrive, StoreResponse, PostImage, PosterTypeOK
  <2>3. ASSUME NEW k \in Loads, k # l, Escapes(k)' PROVE Escapes(k)
    <3>1. \A i \in DOMAIN mainQueue' :
            mainQueue'[i] = k => \E j \in DOMAIN mainQueue : mainQueue[j] = k
      <4>1. mainQueue \in Seq(1 .. loads) /\ l \in 1 .. loads
        BY <1>6, Ranges DEF PosterTypeOK, Download, Arrive, StoreResponse, PostImage
      <4>2. CASE mainQueue' = Append(mainQueue, l)
        BY <2>3, <4>1, <4>2, Appended
      <4> QED BY <2>2, <4>2
    <3> QED BY <2>2, <2>3, <3>1 DEF Escapes, InBlock, InHandler
  <2>4. /\ task # NoLoad => task \in Loads
        /\ task = l => download'[l] \notin {"suspended", "running"}
    BY <1>2, <1>6, Ranges
    DEF Download, Arrive, StoreResponse, PostImage, PosterTypeOK, NoLoad, Loads
  <2> QED BY <1>1, <2>1, <2>2, <2>3, <2>4 DEF OldPostersWereOutOfReach
<1> QED BY <1>3, <1>4, <1>5, <1>6 DEF Block

LEMMA OthersKeep ==
  ASSUME PosterInv, SetImage \/ \E p \in Posters : Evict(p)
  PROVE  OldPostersWereOutOfReach'
<1> USE DEF PosterInv
<1>1. UNCHANGED <<task, download, block, outOfReach>> /\ loads' = loads
  BY DEF SetImage, Evict, loads
<1>2. CASE SetImage
  <2>1. /\ mainQueue \in Seq(1 .. loads) /\ mainQueue # <<>>
        /\ image' = Head(mainQueue) /\ mainQueue' = Tail(mainQueue)
    BY <1>2 DEF SetImage, PosterTypeOK
  <2>2. /\ image' \in 1 .. loads /\ \E j \in DOMAIN mainQueue : image' = mainQueue[j]
        /\ \A i \in DOMAIN mainQueue' : \E j \in DOMAIN mainQueue : mainQueue'[i] = mainQueue[j]
    <3>1. /\ Head(mainQueue) \in 1 .. loads
          /\ \E j \in DOMAIN mainQueue : Head(mainQueue) = mainQueue[j]
          /\ \A i \in DOMAIN Tail(mainQueue) :
               \E j \in DOMAIN mainQueue : Tail(mainQueue)[i] = mainQueue[j]
      BY ONLY <2>1, Taken
    <3> QED BY ONLY <2>1, <3>1
  <2>3. \A k \in Loads : Escapes(k)' => Escapes(k)
    BY <1>1, <2>2 DEF Escapes, InBlock, InHandler
  <2>4. image' \in Loads /\ Escapes(image')
    BY <2>2, Ranges DEF Loads, Escapes
  <2> QED BY <1>1, <2>3, <2>4 DEF OldPostersWereOutOfReach
<1>3. CASE \E p \in Posters : Evict(p)
  <2>1. UNCHANGED <<image, mainQueue>>
    BY <1>3 DEF Evict
  <2> QED BY <1>1, <2>1 DEF OldPostersWereOutOfReach, Escapes, InBlock, InHandler
<1> QED BY <1>2, <1>3

-------------------------------------------------------------------------------
\* TVShowTableViewCell.swift:38: an old poster comes to the cell only if the
\* cancellation did not reach it, however often the cell is used and in
\* whatever order the queues run.
THEOREM PosterInvariant == PosterSpec => []PosterInv
<1>1. PosterInit => PosterInv
  BY InitSound
<1>2. PosterInv /\ [PosterNext]_posterVars => PosterInv'
  <2> SUFFICES ASSUME PosterInv, [PosterNext]_posterVars PROVE PosterInv'
    OBVIOUS
  <2>1. ASSUME NEW p \in Posters \cup {NoPoster}, Reuse(p) PROVE PosterInv'
    BY <2>1, ReuseTyped, ReuseKeeps DEF PosterInv
  <2>2. ASSUME NEW l \in Loads, Block(l) \/ Race(l) \/ Download(l) PROVE PosterInv'
    BY <2>2, StepsTyped, StepsKeep DEF PosterInv
  <2>3. CASE SetImage \/ \E p \in Posters : Evict(p)
    BY <2>3, OthersTyped, OthersKeep DEF PosterInv
  <2>4. CASE UNCHANGED posterVars
    BY <2>4 DEF posterVars, PosterInv, PosterTypeOK, OldPostersWereOutOfReach, Escapes, InBlock,
               InHandler, loads
  <2> QED BY <2>1, <2>2, <2>3, <2>4 DEF PosterNext
<1> QED BY <1>1, <1>2, PTL DEF PosterSpec

-------------------------------------------------------------------------------
\* The progress notifiers.

Package == [token : Tokens, captured : None .. MaxVersion + MaxDownload,
            snapshot : 0 .. MaxVersion, streaming : BOOLEAN,
            direction : Directions]

\* What the client, or an update, knows: all of the versions up to a snapshot.
Numbers ==
  {n \in [upload : [done : Nat, all : Nat], download : [done : Nat, all : Nat],
          snapshot : Nat] :
     /\ n.upload.all = n.snapshot /\ n.snapshot <= MaxVersion
     /\ n.download.all <= MaxDownload}

CallType == [token : Tokens, done : Nat, all : Nat, final : BOOLEAN,
             by : {"register", "update"}]

\* A stronger typing, with what the client's numbers have to do with versions.
Typed ==
  /\ packages \subseteq Package
  /\ nextToken \in 1 .. MaxTokens + 1
  /\ local \in 0 .. MaxVersion
  /\ client \in Numbers /\ client.snapshot <= local
  /\ progress \subseteq Numbers /\ \A m, n \in progress : m = n
  /\ calls \subseteq CallType
  /\ finals \in [Tokens -> Nat]

\* The end of notifier k is still ahead: it was not told and nobody is about to.
Ahead(k) == finals[k] = 0 /\ \A c \in calls : c.token = k => ~c.final

\* A token is that of one package; while there is one, and before, its end is
\* ahead; afterwards there is at most one call that tells it, or it was told.
Ends ==
  /\ \A p, q \in packages : p.token = q.token => p = q
  /\ \A p \in packages : p.token < nextToken /\ Ahead(p.token)
  /\ \A k \in Tokens : k >= nextToken => Ahead(k)
  /\ \A k \in Tokens : finals[k] <= 1
  /\ \A c \in calls : c.final => finals[c.token] = 0
  /\ \A c, d \in calls : c.final /\ d.final /\ c.token = d.token => c = d

\* The inductive invariant.
ProgressIInv == Typed /\ CapturesAllCommitted /\ Ends

-------------------------------------------------------------------------------
\* The operators that packages are told by.

\* What a package is told of is at most all there is.
LEMMA AllType ==
  ASSUME NEW p \in Package, NEW current \in Numbers
  PROVE  /\ current[p.direction].all \in 0 .. MaxVersion + MaxDownload
         /\ current[p.direction].done \in Nat
         /\ p.direction = "upload" => current[p.direction].all = current.snapshot
<1>1. p.direction = "upload" \/ p.direction = "download"
  BY DEF Package, Directions
<1>2. CASE p.direction = "upload"
  BY <1>2, ProgressAssumption DEF Numbers
<1>3. CASE p.direction = "download"
  BY <1>3, ProgressAssumption DEF Numbers
<1> QED BY <1>1, <1>2, <1>3

\* The total of a package is a number that covers what it waits for.
LEMMA TransferrableType ==
  ASSUME NEW p \in Package, NEW current \in Numbers
  PROVE  /\ Transferrable(p, current) \in None .. MaxVersion + MaxDownload
         /\ Transferrable(p, current) = None \/ Transferrable(p, current) \in Nat
         /\ ~p.streaming /\ p.captured = None /\ p.direction = "upload"
              /\ Transferrable(p, current) # None => Transferrable(p, current) >= p.snapshot
<1>1. /\ p.captured \in None .. MaxVersion + MaxDownload
      /\ p.snapshot \in Nat /\ current.snapshot \in Nat
  BY ProgressAssumption DEF Package, Numbers
<1>2. None = -1 /\ MaxVersion + MaxDownload \in Nat
  BY ProgressAssumption DEF None
<1> QED BY <1>1, <1>2, AllType DEF Transferrable

\* The package afterwards is one, with the same token, and its total covers what
\* was committed before.
LEMMA CapturedType ==
  ASSUME NEW p \in Package, NEW current \in Numbers,
         p.direction = "upload" /\ p.captured # None => p.captured >= p.snapshot
  PROVE  /\ Captured(p, current) \in Package
         /\ Captured(p, current).token = p.token
         /\ Captured(p, current).direction = "upload" /\ Captured(p, current).captured # None
              => Captured(p, current).captured >= Captured(p, current).snapshot
<1> DEFINE c == IF p.streaming THEN None ELSE Transferrable(p, current)
<1>1. c \in None .. MaxVersion + MaxDownload
  BY TransferrableType, ProgressAssumption DEF None
<1>2. Captured(p, current) = [p EXCEPT !.captured = c]
  BY Zenon DEF Captured
<1>3. p.direction = "upload" /\ c # None => c >= p.snapshot
  <2> SUFFICES ASSUME p.direction = "upload", c # None PROVE c >= p.snapshot
    OBVIOUS
  <2>1. ~p.streaming /\ c = Transferrable(p, current)
    OBVIOUS
  <2>2. CASE p.captured = None
    BY <2>1, <2>2, TransferrableType
  <2>3. CASE p.captured # None
    BY <2>1, <2>3 DEF Transferrable
  <2> QED BY <2>2, <2>3
<1> HIDE DEF c
<1> QED BY <1>1, <1>2, <1>3 DEF Package

\* A call of a package with a total is one.
LEMMA CallTyped ==
  ASSUME NEW p \in Package, NEW current \in Numbers, NEW by \in {"register", "update"},
         Transferrable(p, current) # None
  PROVE  /\ Call(p, current, by) \in CallType
         /\ Call(p, current, by).token = p.token
         /\ Call(p, current, by).final = Expired(p, current)
<1>1. Transferrable(p, current) \in Nat /\ current[p.direction].done \in Nat
  BY TransferrableType, AllType
<1>2. Expired(p, current) \in BOOLEAN
  BY Zenon DEF Expired
<1>3. p.token \in Tokens
  BY DEF Package
<1> DEFINE all == Transferrable(p, current)
           done == current[p.direction].done
           e == Expired(p, current)
           c == [token |-> p.token, done |-> done, all |-> all, final |-> e, by |-> by]
<1>4. Call(p, current, by) = c
  BY Zenon DEF Call
<1> HIDE DEF all, done, e
<1>5. c \in CallType
  <2>1. all \in Nat /\ done \in Nat /\ e \in BOOLEAN
    BY <1>1, <1>2 DEF all, done, e
  <2> QED BY <2>1, <1>3, Zenon DEF CallType
<1>6. c.token = p.token /\ c.final = e
  BY Zenon
<1> QED BY <1>4, <1>5, <1>6, Zenon DEF e

-------------------------------------------------------------------------------
\* Every step keeps the inductive invariant.

LEMMA ProgressInit == Init => ProgressIInv
<1> SUFFICES ASSUME Init PROVE ProgressIInv
  OBVIOUS
<1>1. client \in Numbers /\ client.snapshot <= local
  BY ProgressAssumption DEF Init, NoProgress, Numbers
<1>2. Typed
  BY <1>1, ProgressAssumption DEF Init, Typed, Tokens
<1>3. CapturesAllCommitted
  BY DEF Init, CapturesAllCommitted
<1>4. Ends
  BY DEF Init, Ends, Ahead
<1> QED BY <1>2, <1>3, <1>4 DEF ProgressIInv

LEMMA ClientStep ==
  ASSUME ProgressIInv, NEW step \in {"process", "upload", "learn", "download"}, Client(step)
  PROVE  ProgressIInv'
<1>1. client' \in Numbers /\ client'.snapshot <= local
  <2> USE ProgressAssumption DEF ProgressIInv, Typed, Numbers
  <2>1. CASE step = "process"
    <3> DEFINE looked == [client EXCEPT !.snapshot = local]
    <3>1. /\ looked \in [upload : [done : Nat, all : Nat], download : [done : Nat, all : Nat],
                          snapshot : Nat]
          /\ looked.snapshot = local /\ looked.download = client.download
      OBVIOUS
    <3>2. client' = [looked EXCEPT !.upload.all = local]
      BY <2>1 DEF Client
    <3> HIDE DEF looked
    <3> QED BY <3>1, <3>2 DEF Client
  <2>2. CASE step = "upload"
    BY <2>2 DEF Client
  <2>3. CASE step = "learn"
    BY <2>3 DEF Client
  <2>4. CASE step = "download"
    BY <2>4 DEF Client
  <2> QED BY <2>1, <2>2, <2>3, <2>4
<1> QED BY <1>1 DEF ProgressIInv, Typed, CapturesAllCommitted, Ends, Ahead, Client

LEMMA LocalStep ==
  ASSUME ProgressIInv, SetLocalVersion
  PROVE  ProgressIInv'
<1>1. local' \in 0 .. MaxVersion /\ client.snapshot <= local'
  BY ProgressAssumption DEF ProgressIInv, Typed, Numbers, SetLocalVersion
<1> QED BY <1>1 DEF ProgressIInv, Typed, CapturesAllCommitted, Ends, Ahead, SetLocalVersion

LEMMA UnregisterStep ==
  ASSUME ProgressIInv, UnregisterCallback
  PROVE  ProgressIInv'
<1>1. packages' \subseteq packages
  BY DEF UnregisterCallback
<1>2. UNCHANGED <<nextToken, local, progress, client, calls, finals>>
  BY DEF UnregisterCallback
<1> QED BY <1>1, <1>2 DEF ProgressIInv, Typed, CapturesAllCommitted, Ends, Ahead

\* The call made is the only one that ends its notifier.
LEMMA InvokeStep ==
  ASSUME ProgressIInv, Invoke
  PROVE  ProgressIInv'
<1>1. PICK c \in calls :
        /\ calls' = calls \ {c}
        /\ finals' = IF c.final THEN [finals EXCEPT ![c.token] = @ + 1] ELSE finals
  BY DEF Invoke
<1>2. UNCHANGED <<packages, nextToken, local, progress, client>>
  BY DEF Invoke
<1>3. c.token \in Tokens /\ finals \in [Tokens -> Nat]
  BY DEF ProgressIInv, Typed, CallType
<1>4. Typed'
  BY <1>1, <1>2, <1>3 DEF ProgressIInv, Typed
<1>5. CapturesAllCommitted'
  BY <1>2 DEF ProgressIInv, CapturesAllCommitted
<1>6. CASE ~c.final
  BY <1>1, <1>2, <1>4, <1>5, <1>6 DEF ProgressIInv, Ends, Ahead
<1>7. CASE c.final
  <2>1. /\ finals[c.token] = 0 /\ finals'[c.token] = 1
        /\ \A k \in Tokens \ {c.token} : finals'[k] = finals[k]
    BY <1>1, <1>3, <1>7 DEF ProgressIInv, Ends
  <2>2. \A d \in calls' : d.final => d.token # c.token
    BY <1>1, <1>7 DEF ProgressIInv, Ends
  <2>3. \A d \in calls' : d \in calls /\ d.token \in Tokens
    BY <1>1 DEF ProgressIInv, Typed, CallType
  <2>4. \A p \in packages : p.token \in Tokens /\ p.token # c.token
    BY <1>7 DEF ProgressIInv, Typed, Package, Ends, Ahead
  <2>5. \A k \in Tokens : k >= nextToken => k # c.token
    BY <1>7 DEF ProgressIInv, Ends, Ahead
  <2>6. Ends'
    BY <1>2, <2>1, <2>2, <2>3, <2>4, <2>5 DEF ProgressIInv, Ends, Ahead
  <2> QED BY <1>4, <1>5, <2>6 DEF ProgressIInv
<1> QED BY <1>6, <1>7

\* The new token is nobody's: at most the one call made for it ends it, and then
\* there is no package.
LEMMA RegisterStep ==
  ASSUME ProgressIInv, NEW direction \in Directions, NEW streaming \in BOOLEAN,
         RegisterCallback(direction, streaming)
  PROVE  ProgressIInv'
<1> DEFINE p == [token |-> nextToken, captured |-> None, snapshot |-> local,
                 streaming |-> streaming, direction |-> direction]
<1>1. nextToken \in Tokens /\ nextToken' = nextToken + 1
  BY DEF RegisterCallback
<1>2. UNCHANGED <<local, progress, client, finals>>
  BY DEF RegisterCallback
<1>3. p \in Package /\ p.token = nextToken /\ p.captured = None
  <2>1. None \in None .. MaxVersion + MaxDownload /\ local \in 0 .. MaxVersion
    BY ProgressAssumption DEF ProgressIInv, Typed, None
  <2> QED BY <1>1, <2>1, Zenon DEF Package
<1>4. \/ packages' = packages \cup {p} /\ calls' = calls
      \/ \E current \in progress :
           /\ packages' = IF Expired(p, current) THEN packages
                          ELSE packages \cup {Captured(p, current)}
           /\ calls' = IF Transferrable(p, current) = None THEN calls
                       ELSE calls \cup {Call(p, current, "register")}
  BY Zenon DEF RegisterCallback
<1> HIDE DEF p
<1>5. nextToken \in 1 .. MaxTokens /\ nextToken' \in 1 .. MaxTokens + 1
  BY <1>1, ProgressAssumption DEF Tokens
<1>6. \/ packages' = packages
      \/ \E q \in Package :
           /\ packages' = packages \cup {q} /\ q.token = nextToken
           /\ q.direction = "upload" /\ q.captured # None => q.captured >= q.snapshot
           /\ \A c \in calls' : c \in calls \/ ~c.final
  <2>1. CASE packages' = packages \cup {p} /\ calls' = calls
    BY <1>3, <2>1
  <2>2. ASSUME NEW current \in progress,
               ~Expired(p, current),
               packages' = packages \cup {Captured(p, current)},
               calls' = IF Transferrable(p, current) = None THEN calls
                        ELSE calls \cup {Call(p, current, "register")}
        PROVE  \E q \in Package :
                 /\ packages' = packages \cup {q} /\ q.token = nextToken
                 /\ q.direction = "upload" /\ q.captured # None => q.captured >= q.snapshot
                 /\ \A c \in calls' : c \in calls \/ ~c.final
    <3>1. current \in Numbers
      BY DEF ProgressIInv, Typed
    <3>2. /\ Captured(p, current) \in Package /\ Captured(p, current).token = nextToken
          /\ Captured(p, current).direction = "upload" /\ Captured(p, current).captured # None
               => Captured(p, current).captured >= Captured(p, current).snapshot
      BY <1>3, <3>1, CapturedType
    <3>3. \A c \in calls' : c \in calls \/ ~c.final
      BY <1>3, <2>2, <3>1, CallTyped
    <3> QED BY <2>2, <3>2, <3>3
  <2> QED BY <1>4, <2>1, <2>2
<1>7. \/ calls' = calls
      \/ \E c \in CallType : c.token = nextToken /\ calls' = calls \cup {c}
  <2>1. \A current \in progress : current \in Numbers
    BY DEF ProgressIInv, Typed
  <2> QED BY <1>3, <1>4, <2>1, CallTyped
<1>8. Typed'
  BY <1>2, <1>5, <1>6, <1>7 DEF ProgressIInv, Typed
<1>9. CapturesAllCommitted'
  BY <1>6 DEF ProgressIInv, CapturesAllCommitted
<1>10. Ends'
  <2>1. \A k \in Tokens : k >= nextToken => Ahead(k)
    BY DEF ProgressIInv, Ends
  <2>2. \A q \in packages : q.token < nextToken /\ q.token \in Tokens /\ Ahead(q.token)
    BY DEF ProgressIInv, Ends, Typed, Package
  <2>3. \A c \in calls' : c \in calls \/ c.token = nextToken
    BY <1>7
  <2>4. \A k \in Tokens : k # nextToken /\ Ahead(k) => Ahead(k)'
    BY <1>2, <2>3 DEF Ahead
  <2>5. \A k \in Tokens : k \in Nat
    BY DEF Tokens
  <2>6. \A k \in Tokens : k >= nextToken' => Ahead(k)'
    BY <1>1, <1>5, <2>1, <2>4, <2>5
  <2>7. \A q \in packages' : q.token < nextToken' /\ Ahead(q.token)'
    <3>1. ASSUME NEW q \in packages
          PROVE  q.token < nextToken' /\ Ahead(q.token)'
      <4>1. q.token \in Nat /\ nextToken \in Nat /\ q.token < nextToken
        BY <1>1, <2>2, <2>5
      <4>2. finals[q.token] = 0 /\ \A c \in calls : c.token = q.token => ~c.final
        BY <2>2 DEF Ahead
      <4>3. \A c \in calls' : c.token = q.token => c \in calls
        BY <2>3, <4>1
      <4>4. Ahead(q.token)'
        BY <1>2, <4>2, <4>3 DEF Ahead
      <4> QED BY <1>1, <4>1, <4>4
    <3>2. ASSUME NEW q \in Package, q.token = nextToken,
                 \A c \in calls' : c \in calls \/ ~c.final
          PROVE  q.token < nextToken' /\ Ahead(q.token)'
      BY <1>1, <1>2, <1>5, <2>1, <3>2 DEF Ahead
    <3> QED BY <1>6, <3>1, <3>2
  <2>8. \A q, r \in packages' : q.token = r.token => q = r
    BY <1>5, <1>6, <2>2, <2>5 DEF ProgressIInv, Ends
  <2>9. \A c \in calls' : c.final => finals'[c.token] = 0
    BY <1>1, <1>2, <1>5, <2>1, <2>3 DEF ProgressIInv, Ends, Ahead
  <2>10. \A c, d \in calls' : c.final /\ d.final /\ c.token = d.token => c = d
    BY <1>1, <1>5, <1>7, <2>1 DEF ProgressIInv, Ends, Ahead
  <2> QED BY <1>2, <2>6, <2>7, <2>8, <2>9, <2>10 DEF ProgressIInv, Ends
<1> QED BY <1>8, <1>9, <1>10 DEF ProgressIInv

\* A notifier that is told its end is dropped with the same update, so no other
\* call can end it.
LEMMA UpdateStep ==
  ASSUME ProgressIInv, Update
  PROVE  ProgressIInv'
<1>1. UNCHANGED <<nextToken, local, client, finals>> /\ progress' = {client}
  BY DEF Update
<1>2. client \in Numbers
  BY DEF ProgressIInv, Typed
<1>3. ASSUME NEW r \in packages'
      PROVE  \E q \in packages :
               /\ ~Expired(q, client) /\ r = Captured(q, client) /\ r \in Package
               /\ r.token = q.token /\ q.token \in Tokens
               /\ r.direction = "upload" /\ r.captured # None => r.captured >= r.snapshot
  <2>1. PICK q \in packages : ~Expired(q, client) /\ r = Captured(q, client)
    BY DEF Update, Remaining
  <2>2. q \in Package /\ (q.direction = "upload" /\ q.captured # None => q.captured >= q.snapshot)
    BY DEF ProgressIInv, Typed, CapturesAllCommitted
  <2>3. q.token \in Tokens
    BY <2>2 DEF Package
  <2> QED BY <1>2, <2>1, <2>2, <2>3, CapturedType
<1>4. ASSUME NEW c \in calls', c \notin calls
      PROVE  \E p \in packages :
               /\ c = Call(p, client, "update") /\ c \in CallType
               /\ c.token = p.token /\ c.final = Expired(p, client)
  <2>1. PICK p \in packages :
          Transferrable(p, client) # None /\ c = Call(p, client, "update")
    BY <1>4 DEF Update
  <2>2. p \in Package
    BY DEF ProgressIInv, Typed
  <2> QED BY <1>2, <2>1, <2>2, CallTyped
<1>5. Typed'
  <2>1. packages' \subseteq Package
    BY <1>3
  <2>2. calls' \subseteq CallType
    BY <1>4 DEF ProgressIInv, Typed
  <2> QED BY <1>1, <1>2, <2>1, <2>2 DEF ProgressIInv, Typed
<1>6. CapturesAllCommitted'
  BY <1>3 DEF CapturesAllCommitted
<1>7. Ends'
  <2>1. /\ \A p, q \in packages : p.token = q.token => p = q
        /\ \A p \in packages : p.token < nextToken /\ Ahead(p.token) /\ p.token \in Tokens
        /\ \A k \in Tokens : k >= nextToken => Ahead(k)
        /\ \A c, d \in calls : c.final /\ d.final /\ c.token = d.token => c = d
        /\ \A c \in calls : c.final => finals[c.token] = 0
        /\ nextToken \in Int
    BY DEF ProgressIInv, Ends, Typed, Package
  <2>2. \A k \in Tokens : k >= nextToken => Ahead(k)'
    <3> SUFFICES ASSUME NEW k \in Tokens, k >= nextToken,
                        NEW c \in calls', c.token = k, c.final
                 PROVE  FALSE
      BY <1>1, <2>1 DEF Ahead
    <3>1. CASE c \in calls
      BY <2>1, <3>1 DEF Ahead
    <3>2. CASE c \notin calls
      BY <1>4, <2>1, <3>2 DEF Tokens
    <3> QED BY <3>1, <3>2
  <2>3. \A r \in packages' : r.token < nextToken' /\ Ahead(r.token)'
    <3> TAKE r \in packages'
    <3>1. PICK q \in packages : ~Expired(q, client) /\ r.token = q.token
      BY <1>3
    <3>2. \A c \in calls' : c.token = r.token => ~c.final
      <4> SUFFICES ASSUME NEW c \in calls', c.token = r.token, c.final
                   PROVE  FALSE
        OBVIOUS
      <4>1. CASE c \in calls
        BY <2>1, <3>1, <4>1 DEF Ahead
      <4>2. CASE c \notin calls
        <5>1. PICK p \in packages : c.token = p.token /\ c.final = Expired(p, client)
          BY <1>4, <4>2
        <5>2. p = q
          BY <2>1, <3>1, <5>1
        <5> QED BY <3>1, <5>1, <5>2
      <4> QED BY <4>1, <4>2
    <3> QED BY <1>1, <2>1, <3>1, <3>2 DEF Ahead
  <2>4. \A r, s \in packages' : r.token = s.token => r = s
    BY <1>3, <2>1
  <2>5. \A c \in calls' : c.final => finals'[c.token] = 0
    BY <1>1, <1>4, <2>1 DEF Ahead
  <2>6. \A c, d \in calls' : c.final /\ d.final /\ c.token = d.token => c = d
    <3> SUFFICES ASSUME NEW c \in calls', NEW d \in calls',
                        c.final, d.final, c.token = d.token
                 PROVE  c = d
      OBVIOUS
    <3>1. CASE c \in calls /\ d \in calls
      BY <2>1, <3>1
    <3>2. CASE c \notin calls /\ d \notin calls
      BY <1>4, <2>1, <3>2
    <3>3. CASE c \in calls /\ d \notin calls
      BY <1>4, <2>1, <3>3 DEF Ahead
    <3>4. CASE c \notin calls /\ d \in calls
      BY <1>4, <2>1, <3>4 DEF Ahead
    <3> QED BY <3>1, <3>2, <3>3, <3>4
  <2> QED BY <1>1, <2>2, <2>3, <2>4, <2>5, <2>6 DEF ProgressIInv, Ends
<1> QED BY <1>5, <1>6, <1>7 DEF ProgressIInv

LEMMA ProgressNext == ProgressIInv /\ [Next]_vars => ProgressIInv'
<1> SUFFICES ASSUME ProgressIInv, [Next]_vars PROVE ProgressIInv'
  OBVIOUS
<1>1. ASSUME NEW d \in Directions, NEW s \in BOOLEAN, RegisterCallback(d, s)
      PROVE  ProgressIInv'
  BY <1>1, RegisterStep
<1>2. ASSUME NEW step \in {"process", "upload", "learn", "download"}, Client(step)
      PROVE  ProgressIInv'
  BY <1>2, ClientStep
<1>3. CASE UNCHANGED vars
  BY <1>3 DEF vars, ProgressIInv, Typed, CapturesAllCommitted, Ends, Ahead
<1> QED BY <1>1, <1>2, <1>3, UnregisterStep, UpdateStep, InvokeStep, LocalStep DEF Next

\* The inductive invariant says what the state of the notifiers is to be.
LEMMA ProgressSound == ProgressIInv => ProgressInv
<1> SUFFICES ASSUME ProgressIInv PROVE ProgressInv
  OBVIOUS
<1>1. Cardinality(progress) <= 1
  <2>1. CASE progress = {}
    BY <2>1, FS_EmptySet
  <2>2. CASE progress # {}
    <3>1. PICK n \in progress : TRUE
      BY <2>2
    <3>2. progress = {n}
      BY <3>1 DEF ProgressIInv, Typed
    <3> QED BY <3>2, FS_Singleton
  <2> QED BY <2>1, <2>2
<1>2. \A c \in calls : c.token \in Tokens /\ c.all >= 0 /\ c.done >= 0
  BY DEF ProgressIInv, Typed, CallType
<1>3. TypeOK
  BY <1>1, <1>2 DEF ProgressIInv, Typed, Ends, Package, TypeOK
<1>4. EndsOnce
  BY DEF ProgressIInv, Ends, EndsOnce
<1> QED BY <1>3, <1>4 DEF ProgressIInv, ProgressInv

\* However registrations, updates and calls interleave, a notifier of uploads
\* waits for all that was committed when it was registered, and a notifier that is
\* not streaming is told its end once at most.
THEOREM SyncProgressInvariant == Spec => []ProgressInv
<1>1. Spec => []ProgressIInv
  BY ProgressInit, ProgressNext, PTL DEF Spec
<1> QED BY <1>1, ProgressSound, PTL

-------------------------------------------------------------------------------
\* The work queue.

\* The initial queue is sound.
LEMMA InitWorkInv == QueueInit => WorkInv
<1> SUFFICES ASSUME QueueInit PROVE WorkInv
  OBVIOUS
<1>1. <<>> \in Seq(Nat) /\ Len(<<>>) = 0 /\ DOMAIN <<>> = {}
  OBVIOUS
<1>2. QueueTypeOK
  BY <1>1 DEF QueueInit, QueueTypeOK, Workers
<1>3. StoppedMeansNoThread /\ NoTaskLeftBehind
  BY Zenon DEF QueueInit, StoppedMeansNoThread, NoTaskLeftBehind
<1>4. RunsInOrder
  BY <1>1 DEF QueueInit, RunsInOrder, Follows
<1> QED BY <1>2, <1>3, <1>4 DEF WorkInv

\* A task appended to a sequence that follows n carries the next number.
LEMMA AppendFollows ==
  ASSUME NEW s \in Seq(Nat), NEW n \in Nat, Follows(s, n)
  PROVE  /\ Append(s, n + Len(s) + 1) \in Seq(Nat)
         /\ Len(Append(s, n + Len(s) + 1)) = Len(s) + 1
         /\ Follows(Append(s, n + Len(s) + 1), n)
<1> DEFINE k == n + Len(s) + 1
<1>1. k \in Nat /\ Len(s) \in Nat
  OBVIOUS
<1>2. Append(s, k) \in Seq(Nat) /\ Len(Append(s, k)) = Len(s) + 1
  BY <1>1
<1>3. ASSUME NEW i \in DOMAIN Append(s, k) PROVE Append(s, k)[i] = n + i
  <2>1. i \in 1 .. Len(s) + 1
    BY <1>2, <1>1
  <2>2. CASE i = Len(s) + 1
    BY <2>2, <1>1
  <2>3. CASE i # Len(s) + 1
    BY <2>1, <2>3, <1>1 DEF Follows
  <2> QED BY <2>2, <2>3
<1> QED BY <1>2, <1>3 DEF Follows

\* Without its first task, a sequence that follows n follows n + 1.
LEMMA TailFollows ==
  ASSUME NEW s \in Seq(Nat), NEW n \in Nat, Follows(s, n), s # <<>>
  PROVE  /\ Tail(s) \in Seq(Nat) /\ Len(Tail(s)) = Len(s) - 1 /\ Len(s) > 0
         /\ s[1] = n + 1 /\ Follows(Tail(s), n + 1)
<1>1. Len(s) \in Nat /\ Len(s) > 0 /\ DOMAIN s = 1 .. Len(s)
  OBVIOUS
<1>2. Tail(s) \in Seq(Nat) /\ Len(Tail(s)) = Len(s) - 1
  BY <1>1
<1>3. s[1] = n + 1
  BY <1>1 DEF Follows
<1>4. ASSUME NEW i \in DOMAIN Tail(s) PROVE Tail(s)[i] = n + 1 + i
  <2>1. i \in 1 .. Len(s) - 1 /\ i + 1 \in DOMAIN s
    BY <1>1, <1>2
  <2>2. Tail(s)[i] = s[i + 1]
    BY <1>1, <2>1
  <2> QED BY <2>1, <2>2 DEF Follows
<1> QED BY <1>1, <1>2, <1>3, <1>4 DEF Follows

\* enqueue appends the next number, and leaves a thread that will take it.
LEMMA EnqueueKeepsWorkInv == WorkInv /\ Enqueue => WorkInv'
<1> SUFFICES ASSUME WorkInv, Enqueue PROVE WorkInv'
  OBVIOUS
<1>1. Len(executed) \in Nat /\ Len(batch) \in Nat /\ Len(queue) \in Nat
  BY DEF WorkInv, QueueTypeOK
<1>2. /\ enqueued' = (Len(executed) + Len(batch)) + Len(queue) + 1
      /\ queue' = Append(queue, (Len(executed) + Len(batch)) + Len(queue) + 1)
      /\ batch' = batch /\ executed' = executed /\ stopping' = stopping
  BY <1>1 DEF WorkInv, RunsInOrder, Enqueue
<1>3. /\ queue' \in Seq(Nat) /\ Len(queue') = Len(queue) + 1
      /\ Follows(queue', Len(executed) + Len(batch))
  BY <1>1, <1>2, AppendFollows DEF WorkInv, QueueTypeOK, RunsInOrder
<1>4. QueueTypeOK'
  <2>1. worker' \in Workers /\ stopped' = FALSE
    BY Zenon DEF WorkInv, QueueTypeOK, Enqueue, Workers
  <2>2. enqueued' \in Nat
    BY <1>1, <1>2
  <2> QED BY <1>2, <1>3, <2>1, <2>2 DEF WorkInv, QueueTypeOK
<1>5. StoppedMeansNoThread' /\ NoTaskLeftBehind'
  BY DEF Enqueue, WorkInv, StoppedMeansNoThread, NoTaskLeftBehind, QueueTypeOK
<1>6. RunsInOrder'
  BY <1>1, <1>2, <1>3 DEF WorkInv, RunsInOrder
<1> QED BY <1>4, <1>5, <1>6 DEF WorkInv

\* The thread takes all tasks that wait, when it has none left.
LEMMA TakeKeepsWorkInv ==
  WorkInv /\ worker \in {"head", "waiting"} /\ Take
    /\ UNCHANGED <<stopping, enqueued, executed>> => WorkInv'
<1> SUFFICES ASSUME WorkInv, worker \in {"head", "waiting"}, Take,
                    UNCHANGED <<stopping, enqueued, executed>>
             PROVE  WorkInv'
  OBVIOUS
<1> USE DEF WorkInv, Take
<1>1. QueueTypeOK' /\ StoppedMeansNoThread' /\ NoTaskLeftBehind'
  BY DEF QueueTypeOK, Workers, StoppedMeansNoThread, NoTaskLeftBehind
<1>2. batch = <<>> /\ Len(<<>>) = 0 /\ DOMAIN <<>> = {}
  BY DEF NoTaskLeftBehind
<1>3. Len(executed) \in Nat /\ Len(queue) \in Nat
  BY DEF QueueTypeOK
<1>4. RunsInOrder'
  BY <1>2, <1>3 DEF RunsInOrder, Follows
<1> QED BY <1>1, <1>4

\* The thread ends when nothing waits, or when it is to stop.
LEMMA FinishKeepsWorkInv ==
  WorkInv /\ worker \in {"head", "waiting"} /\ (stopping \/ queue = <<>>) /\ Finish
    /\ UNCHANGED <<stopping, enqueued, executed>> => WorkInv'
  BY DEF WorkInv, Finish, QueueTypeOK, Workers, StoppedMeansNoThread,
         NoTaskLeftBehind, RunsInOrder, Follows

\* The first task of the batch is the one after the last that was run.
LEMMA RunKeepsWorkInv == WorkInv /\ Run => WorkInv'
<1> SUFFICES ASSUME WorkInv, Run PROVE WorkInv'
  OBVIOUS
<1> USE DEF WorkInv, Run
<1>1. CASE batch = <<>>
  BY <1>1 DEF QueueTypeOK, Workers, StoppedMeansNoThread, NoTaskLeftBehind,
              RunsInOrder, Follows
<1>2. CASE batch # <<>>
  <2>1. Len(executed) \in Nat /\ Len(batch) \in Nat /\ Len(queue) \in Nat
    BY DEF QueueTypeOK
  <2>2. /\ executed' = Append(executed, batch[1]) /\ batch' = Tail(batch)
        /\ UNCHANGED <<worker, queue, stopping, stopped, enqueued>>
    BY <1>2
  <2>3. /\ batch' \in Seq(Nat) /\ Len(batch') = Len(batch) - 1
        /\ batch[1] = 0 + Len(executed) + 1 /\ Follows(batch', Len(executed) + 1)
    BY <1>2, <2>1, <2>2, TailFollows DEF QueueTypeOK, RunsInOrder
  <2>4. /\ executed' \in Seq(Nat) /\ Len(executed') = Len(executed) + 1
        /\ Follows(executed', 0)
    BY <2>1, <2>2, <2>3, AppendFollows DEF QueueTypeOK, RunsInOrder
  <2>5. QueueTypeOK'
    BY <2>2, <2>3, <2>4 DEF QueueTypeOK
  <2>6. StoppedMeansNoThread' /\ NoTaskLeftBehind'
    BY <2>2 DEF StoppedMeansNoThread, NoTaskLeftBehind
  <2>7. RunsInOrder'
    <3>1. Len(executed') + Len(batch') = Len(executed) + Len(batch)
      BY <2>1, <2>3, <2>4
    <3> QED BY <2>1, <2>2, <2>3, <2>4, <3>1 DEF RunsInOrder
  <2> QED BY <2>5, <2>6, <2>7
<1> QED BY <1>1, <1>2

\* Every step keeps the invariant.
LEMMA NextKeepsWorkInv == WorkInv /\ [QueueNext]_queueVars => WorkInv'
<1> SUFFICES ASSUME WorkInv, [QueueNext]_queueVars PROVE WorkInv'
  OBVIOUS
<1>1. CASE Enqueue
  BY <1>1, EnqueueKeepsWorkInv
<1>2. CASE LoopHead
  <2>1. CASE worker' = "waiting"
    BY <1>2, <2>1 DEF LoopHead, Take, Finish, WorkInv, QueueTypeOK, Workers,
      StoppedMeansNoThread, NoTaskLeftBehind, RunsInOrder, Follows
  <2>2. CASE worker' # "waiting"
    BY <1>2, <2>2, TakeKeepsWorkInv, FinishKeepsWorkInv DEF LoopHead
  <2> QED BY <2>1, <2>2
<1>3. CASE Wake
  BY <1>3, TakeKeepsWorkInv, FinishKeepsWorkInv DEF Wake
<1>4. CASE Run
  BY <1>4, RunKeepsWorkInv
<1>5. CASE Destroy
  BY <1>5 DEF Destroy, WorkInv, QueueTypeOK, Workers, StoppedMeansNoThread,
    NoTaskLeftBehind, RunsInOrder, Follows
<1>6. CASE UNCHANGED queueVars
  BY <1>6 DEF queueVars, WorkInv, QueueTypeOK, Workers, StoppedMeansNoThread,
    NoTaskLeftBehind, RunsInOrder, Follows
<1> QED BY <1>1, <1>2, <1>3, <1>4, <1>5, <1>6 DEF QueueNext

\* At all times there is a thread exactly when m_stopped says so, no task is
\* lost, and tasks are run once and in order.
THEOREM WorkQueueInvariant == QueueSpec => []WorkInv
<1>1. QueueInit => WorkInv
  BY InitWorkInv
<1>2. WorkInv /\ [QueueNext]_queueVars => WorkInv'
  BY NextKeepsWorkInv
<1> QED BY <1>1, <1>2, PTL DEF QueueSpec

-------------------------------------------------------------------------------
\* A step of the queue gives a task, does the next one, or does neither.
LEMMA StepIsSerial ==
  WorkInv /\ [QueueNext]_queueVars => [Serial!Give \/ Serial!Do]_<<enqueued, executed>>
<1> SUFFICES ASSUME WorkInv, [QueueNext]_queueVars
             PROVE  [Serial!Give \/ Serial!Do]_<<enqueued, executed>>
  OBVIOUS
<1>1. CASE Enqueue
  BY <1>1 DEF Enqueue, Serial!Give
<1>2. CASE Run
  <2>1. CASE batch = <<>>
    BY <1>2, <2>1 DEF Run
  <2>2. CASE batch # <<>>
    <3>1. Len(batch) > 0 /\ Len(executed) \in Nat /\ Len(queue) \in Nat
          /\ Len(batch) \in Nat /\ 1 \in DOMAIN batch
      BY <2>2 DEF WorkInv, QueueTypeOK
    <3>2. batch[1] = Len(executed) + 1 /\ Len(executed) < enqueued
      BY <3>1 DEF WorkInv, RunsInOrder, Follows
    <3> QED BY <1>2, <2>2, <3>2 DEF Run, Serial!Do
  <2> QED BY <2>1, <2>2
<1>3. CASE LoopHead \/ Wake \/ Destroy \/ UNCHANGED queueVars
  BY <1>3 DEF LoopHead, Wake, Destroy, queueVars
<1> QED BY <1>1, <1>2, <1>3 DEF QueueNext

\* The queue implements SerialTasks: whatever threads are made and end, its
\* users see tasks done one at a time, each once and the oldest first.
THEOREM WorkQueueIsSerial == QueueSpec => SerialSpec
<1>1. QueueInit => Serial!Init
  BY DEF QueueInit, Serial!Init
<1>2. WorkInv /\ [QueueNext]_queueVars => [Serial!Give \/ Serial!Do]_<<enqueued, executed>>
  BY StepIsSerial
<1> QED BY <1>1, <1>2, WorkQueueInvariant, PTL DEF QueueSpec, SerialSpec, Serial!Spec
===============================================================================
