------------------------------ MODULE PosterCell ------------------------------
(***************************************************************************)
(* One TVShowTableViewCell as the table reuses it: load cancels the task   *)
(* of the show before, and loadImage looks the new show's poster up in the *)
(* URL cache on the global queue or makes a download task there.  Blocks   *)
(* of the global queue run beside each other and beside the main thread,   *)
(* and all of them use the cell's variable "task" without a lock.          *)
(*                                                                         *)
(* A poster stands for its URL, its data and its image.  A download fails  *)
(* for a transport error, an HTTP status or data that is no image alike.   *)
(***************************************************************************)
EXTENDS Integers, Sequences

CONSTANTS
  Posters,   \* posters of shows
  NoPoster,  \* the show has no image, or its URL is not one
  MaxLoads   \* bounds how often the cell is used

ASSUME PosterAssumption == NoPoster \notin Posters /\ MaxLoads \in Nat

Loads == 1 .. MaxLoads
NoLoad == 0

VARIABLES
  poster,      \* poster[l]: what load l of the cell is to show
  block,       \* block[l]: where load l's block of the global queue is
  download,    \* download[l]: state of the URLSession task it made
  task,        \* the cell's "task": the load that made it, or NoLoad
  cached,      \* posters in the URL cache
  mainQueue,   \* loads whose image waits to be set on the main queue
  image,       \* the load whose poster the cell shows, or NoLoad
  failed,      \* history: loads whose download failed
  outOfReach,  \* history: loads that the cancellation of a later one missed
  crashed      \* the process ended

posterVars == <<poster, block, download, task, cached, mainQueue, image, failed,
          outOfReach, crashed>>

loads == Len(poster)

PosterInit ==
  /\ poster = <<>>
  /\ block = [l \in Loads |-> "none"]
  /\ download = [l \in Loads |-> "none"]
  /\ task = NoLoad /\ image = NoLoad
  /\ cached = {} /\ mainQueue = <<>>
  /\ failed = {} /\ outOfReach = {}
  /\ crashed = FALSE

\* A load's block will still make a task or use the cell's.
InBlock(l) == block[l] \in {"lookUp", "assign", "resume"}

\* The completion handler of load l's task has the image and is still to store
\* or post it: the task is completed, and to cancel it has no effect any more.
InHandler(l) == download[l] \in {"arrived", "stored"}

\* What may bring load l's poster to the cell although the cell's task is
\* cancelled: its block, another task than the cell's, a handler, an image on the
\* queue.
Escapes(l) ==
  \/ InBlock(l)
  \/ download[l] = "running" /\ l # task
  \/ InHandler(l)
  \/ \E i \in DOMAIN mainQueue : mainQueue[i] = l

-------------------------------------------------------------------------------
\* The main thread.

\* Faulty: the cell is given the next show, and the task goes on.
ReuseUncancelled(p) ==
  /\ loads < MaxLoads
  /\ poster' = Append(poster, p)
  /\ block' = [block EXCEPT ![loads + 1] = IF p = NoPoster THEN "ended" ELSE "lookUp"]
  /\ image' = NoLoad
  /\ outOfReach' = outOfReach \cup {l \in Loads : Escapes(l)}
  /\ UNCHANGED <<download, task, cached, mainQueue, failed, crashed>>

\* cellForRowAt: prepareForReuse or load blanks the image; load cancels the task
\* and starts a block for the show's poster. A task that was not resumed is
\* cancelled as well.
Reuse(p) ==
  /\ loads < MaxLoads
  /\ poster' = Append(poster, p)
  /\ block' = [block EXCEPT ![loads + 1] = IF p = NoPoster THEN "ended" ELSE "lookUp"]
  /\ download' = [l \in Loads |-> IF l = task /\ download[l] \in {"suspended", "running"}
                                  THEN "cancelled" ELSE download[l]]
  /\ image' = NoLoad
  /\ outOfReach' = outOfReach \cup {l \in Loads : Escapes(l)}
  /\ UNCHANGED <<task, cached, mainQueue, failed, crashed>>

\* The block that sets the image.
SetImage ==
  /\ mainQueue # <<>>
  /\ image' = Head(mainQueue)
  /\ mainQueue' = Tail(mainQueue)
  /\ UNCHANGED <<poster, block, download, task, cached, failed, outOfReach, crashed>>

-------------------------------------------------------------------------------
\* The global queue.

LookUp(l) ==
  /\ block[l] = "lookUp"
  /\ IF poster[l] \in cached
     THEN /\ block' = [block EXCEPT ![l] = "ended"]
          /\ mainQueue' = Append(mainQueue, l)
     ELSE /\ block' = [block EXCEPT ![l] = "assign"]
          /\ UNCHANGED mainQueue
  /\ UNCHANGED <<poster, download, task, cached, image, failed, outOfReach, crashed>>

\* self.task = URLSession.shared.dataTask(...)
Assign(l) ==
  /\ block[l] = "assign"
  /\ block' = [block EXCEPT ![l] = "resume"]
  /\ download' = [download EXCEPT ![l] = "suspended"]
  /\ task' = l
  /\ UNCHANGED <<poster, cached, mainQueue, image, failed, outOfReach, crashed>>

\* Faulty: the task is never resumed.
ResumeNothing(l) ==
  /\ block[l] = "resume"
  /\ block' = [block EXCEPT ![l] = "ended"]
  /\ UNCHANGED <<poster, download, task, cached, mainQueue, image, failed, outOfReach, crashed>>

\* self.task?.resume(), whichever task that is by now.
Resume(l) ==
  /\ block[l] = "resume"
  /\ block' = [block EXCEPT ![l] = "ended"]
  /\ download' = [download EXCEPT ![task] = IF @ = "suspended" THEN "running" ELSE @]
  /\ UNCHANGED <<poster, task, cached, mainQueue, image, failed, outOfReach, crashed>>

\* A block is about to replace the cell's task while another one or the main
\* thread uses it: the reference that was there may be released twice.
Race(l) ==
  /\ block[l] = "assign"
  /\ loads < MaxLoads \/ \E k \in Loads \ {l} : block[k] \in {"assign", "resume"}
  /\ crashed' = TRUE
  /\ UNCHANGED <<poster, block, download, task, cached, mainQueue, image, failed, outOfReach>>

Block(l) == LookUp(l) \/ Assign(l) \/ Resume(l)

-------------------------------------------------------------------------------
\* URLSession and the URL cache.

\* A download ends, with an image or without.
Arrive(l) ==
  /\ download[l] = "running"
  /\ \/ /\ download' = [download EXCEPT ![l] = "arrived"]
        /\ UNCHANGED failed
     \/ /\ download' = [download EXCEPT ![l] = "ended"]
        /\ failed' = failed \cup {l}
  /\ UNCHANGED <<poster, block, task, cached, mainQueue, image, outOfReach, crashed>>

\* The handlers of the shared URLSession run one at a time, on a queue of its own.
\* One puts the response into the cache, ...
StoreResponse(l) ==
  /\ download[l] = "arrived"
  /\ \A k \in Loads : download[k] # "stored"
  /\ download' = [download EXCEPT ![l] = "stored"]
  /\ cached' = cached \cup {poster[l]}
  /\ UNCHANGED <<poster, block, task, mainQueue, image, failed, outOfReach, crashed>>

\* ... and posts the block that sets the image to the main queue.
PostImage(l) ==
  /\ download[l] = "stored"
  /\ download' = [download EXCEPT ![l] = "ended"]
  /\ mainQueue' = Append(mainQueue, l)
  /\ UNCHANGED <<poster, block, task, cached, image, failed, outOfReach, crashed>>

Download(l) == Arrive(l) \/ StoreResponse(l) \/ PostImage(l)

Evict(p) ==
  /\ p \in cached
  /\ cached' = cached \ {p}
  /\ UNCHANGED <<poster, block, download, task, mainQueue, image, failed, outOfReach, crashed>>

PosterNext ==
  /\ ~crashed
  /\ \/ \E p \in Posters \cup {NoPoster} : Reuse(p)
     \/ SetImage
     \/ \E l \in Loads : Block(l) \/ Race(l) \/ Download(l)
     \/ \E p \in Posters : Evict(p)

PosterSpec == PosterInit /\ [][PosterNext]_posterVars

\* Blocks of both queues run and downloads end, by a timeout at the latest; the
\* table need not use the cell again.
PosterFairSpec ==
  /\ PosterSpec
  /\ WF_posterVars(~crashed /\ SetImage)
  /\ \A l \in Loads : WF_posterVars(~crashed /\ Block(l)) /\ WF_posterVars(~crashed /\ Download(l))

-------------------------------------------------------------------------------
\* Properties.

\* Every variable stays in its domain; blocks, tasks and images are of loads
\* that began.
PosterTypeOK ==
  /\ poster \in Seq(Posters \cup {NoPoster}) /\ loads <= MaxLoads
  /\ block \in [Loads -> {"none", "lookUp", "assign", "resume", "ended"}]
  /\ download \in [Loads -> {"none", "suspended", "running", "cancelled", "arrived",
                           "stored", "ended"}]
  /\ task \in 0 .. loads /\ image \in 0 .. loads
  /\ cached \subseteq Posters \cup {NoPoster}
  /\ mainQueue \in Seq(1 .. loads)
  /\ failed \subseteq Loads /\ outOfReach \subseteq Loads
  /\ crashed \in BOOLEAN
  /\ \A l \in Loads : l > loads => block[l] = "none" /\ download[l] = "none"

\* TVShowTableViewCell.swift:38: "Canceling the task will avoid the image from
\* continue downloading and being loaded some seconds later". It does, except for
\* posters that were out of its reach when the cell was reused: the cell shows no
\* other poster of an earlier show, and none of them is on its way.
OldPostersWereOutOfReach ==
  /\ image \notin {NoLoad, loads} => image \in outOfReach
  /\ \A l \in Loads : l # loads /\ Escapes(l) => l \in outOfReach
  /\ task \notin {NoLoad, loads} /\ download[task] \in {"suspended", "running"} =>
       task \in outOfReach

\* The state of the cell is sound.
PosterInv == PosterTypeOK /\ OldPostersWereOutOfReach

\* Nothing of load l is under way any more.
Served(l) ==
  /\ block[l] = "ended" /\ download[l] \in {"none", "ended"}
  /\ \A i \in DOMAIN mainQueue : mainQueue[i] # l

\* The block of another load put its task in the cell's variable between the two
\* uses load l's block makes of it: task l is never resumed.
NeverResumed(l) == block[l] = "ended" /\ download[l] = "suspended" /\ task # l

\* The newest show's poster is set, unless the show has none or its download
\* fails; it stays, or is covered by that of an earlier load the cancellation
\* missed. It is not even asked for in one case only: such a load's block changed
\* the cell's task before it was resumed (line 103 reads the variable again).
PosterArrives ==
  <>[](\/ crashed \/ loads = 0
       \/ poster[loads] = NoPoster \/ loads \in failed
       \/ Served(loads) /\ image \in {loads} \cup outOfReach
       \/ NeverResumed(loads) /\ task \in outOfReach)
===============================================================================
