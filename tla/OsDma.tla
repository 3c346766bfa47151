------------------------------- MODULE OsDma -------------------------------
(***************************************************************************)
(* A transfer between user memory and card memory by a DMA engine          *)
(* (SUPPORT_DMA_TRANSFER, osfunc.c:2101-2862).  The services core allocates *)
(* the data of a request, prepares its transfers one by one, and submits   *)
(* them, or gives up when one cannot be prepared.  The first transfer      *)
(* starts a thread that waits for the last callback of the engine and      *)
(* cleans up.                                                              *)
(*                                                                         *)
(* One request: requests share nothing but the channel.  A dense transfer  *)
(* pins the pages of a buffer; a sparse one has, for each valid page of the *)
(* card, two slots for the one or two pages of the buffer under it.        *)
(***************************************************************************)
EXTENDS Integers, Sequences

CONSTANTS
  NumDMA,    \* transfers of the request
  MaxPages,  \* pages of a transfer
  Retries,   \* DMA_ERROR_SYNC_RETRIES
  Faults     \* what may go wrong

FaultNames ==
  {"nomem", "pin", "sg", "map", "prep",  \* a call of a Prepare fails
   "pin_some",                           \* only some pages can be pinned
   "late",                               \* a sparse one fails after its first page
   "terminate",                          \* dmaengine_terminate_sync fails
   "thread",                             \* kthread_run fails
   "empty"}                              \* a sparse transfer without valid pages

ASSUME DmaAssumption ==
  /\ NumDMA \in Nat \ {0}
  /\ MaxPages \in Nat \ {0}
  /\ Retries \in Nat \ {0}
  /\ Faults \subseteq FaultNames

Index == 0 .. NumDMA - 1
Slots == 0 .. 2 * MaxPages - 1
Chunks == 0 .. MaxPages - 1   \* valid pages of a sparse transfer; 0 for a dense one

VARIABLES
  pc,        \* the caller's place
  asked,     \* transfers the core has asked for
  retries,   \* terminations tried
  data,      \* OS_CLEANUP_DATA: none, live or freed
  uiCount, uiRefCount, bSucceed, bAdvanceTimeline,
  pbIsSparse, uiNumValidPages, puiNumPages,
  valid_idx, \* loop variable of OSDmaPrepareTransferSparse
  pages,     \* slots that point to a page
  pins,      \* references on the page of a slot
  mapped,    \* scatter lists mapped for the device
  thread,    \* cleanup thread: none, new, succeed, wait, unpin, serve, free, tell, done
  saw_succeed, saw_sync,  \* what the thread read before it waited
  start_cleanup,          \* completions of start_cleanup
  has_sync,  \* sync_completion is in the data
  sync,      \* the caller's completion: none, waited, done
  engine,    \* transfer: idle, flying, last (its callback is to complete), done
  served     \* calls of pfnServerCleanup, as the values of bAdvanceTimeline

callerVars == <<pc, asked, retries>>
prepVars == <<pbIsSparse, uiNumValidPages, puiNumPages, valid_idx>>
pageVars == <<pages, pins, mapped>>
flagVars == <<bSucceed, bAdvanceTimeline>>
threadVars == <<thread, saw_succeed, saw_sync>>
syncVars == <<has_sync, sync>>
vars == <<callerVars, data, uiCount, uiRefCount, flagVars, prepVars, pageVars, threadVars,
          start_cleanup, syncVars, engine, served>>

Init ==
  /\ pc = "start" /\ asked = 0 /\ retries = 0
  /\ data = "none"
  /\ uiCount = 0 /\ uiRefCount = 0
  /\ bSucceed = FALSE /\ bAdvanceTimeline = FALSE
  /\ pbIsSparse = [i \in Index |-> FALSE]
  /\ uiNumValidPages = [i \in Index |-> 0]
  /\ puiNumPages = [i \in Index |-> 0]
  /\ valid_idx = 0
  /\ pages = [i \in Index |-> {}]
  /\ pins = [i \in Index |-> [s \in Slots |-> 0]]
  /\ mapped = [i \in Index |-> {}]
  /\ thread = "none" /\ saw_succeed = FALSE /\ saw_sync = FALSE
  /\ start_cleanup = 0
  /\ has_sync = FALSE /\ sync = "none"
  /\ engine = [i \in Index |-> "idle"]
  /\ served = <<>>

-----------------------------------------------------------------------------
(* OSDmaAllocData: all or nothing. *)
OSDmaAllocData ==
  /\ pc = "start"
  /\ \/ data' = "live" /\ pc' = "next"
     \/ "nomem" \in Faults /\ pc' = "over" /\ UNCHANGED data
  /\ UNCHANGED <<asked, retries, uiCount, uiRefCount, flagVars, prepVars, pageVars, threadVars,
                 start_cleanup, syncVars, engine, served>>

-----------------------------------------------------------------------------
(* Prepare *)

\* The core prepares the transfers in order; the first starts the thread.
Asking == pc = "next" /\ asked < NumDMA
bFirst == asked = 0

StartThread ==
  thread' \in IF ~bFirst THEN {thread}
              ELSE {"new"} \cup (IF "thread" \in Faults THEN {"none"} ELSE {})

Prepared ==
  /\ StartThread
  /\ uiCount' = uiCount + 1
  /\ asked' = asked + 1
  /\ pc' = "next"

\* The core gives up the request.
GiveUp == pc' = "force"

OSDmaPrepareTransfer ==
  /\ Asking
  /\ \E n \in 1 .. MaxPages :
       /\ pages' = [pages EXCEPT ![uiCount] = 0 .. n - 1]
       /\ pins' = [pins EXCEPT ![uiCount] = [s \in Slots |-> IF s < n THEN 1 ELSE 0]]
       /\ puiNumPages' = [puiNumPages EXCEPT ![uiCount] = n]
  /\ mapped' = [mapped EXCEPT ![uiCount] = {0}]
  /\ Prepared
  /\ UNCHANGED <<retries, data, uiRefCount, flagVars, pbIsSparse, uiNumValidPages, valid_idx,
                 saw_succeed, saw_sync, start_cleanup, syncVars, engine, served>>

\* The labels e1 to e5 undo what was done, except that pages pinned by a
\* get_user_pages_fast that got only some stay pinned.
PrepareFails ==
  /\ Asking
  /\ \/ Faults \cap {"nomem", "pin", "sg", "map", "prep"} # {} /\ UNCHANGED pins
     \/ /\ "pin_some" \in Faults
        /\ \E n \in 1 .. MaxPages - 1 :
             pins' = [pins EXCEPT ![uiCount] = [s \in Slots |-> IF s < n THEN 1 ELSE 0]]
  /\ GiveUp
  /\ UNCHANGED <<asked, retries, data, uiCount, uiRefCount, flagVars, prepVars, pages, mapped,
                 threadVars, start_cleanup, syncVars, engine, served>>

SparseBegin ==
  /\ Asking
  /\ \E n \in 0 .. MaxPages :
       /\ n = 0 => "empty" \in Faults
       /\ uiNumValidPages' = [uiNumValidPages EXCEPT ![uiCount] = n]
       /\ IF n = 0 THEN pc' = "next" /\ asked' = asked + 1
          ELSE \/ pc' = "sparse" /\ UNCHANGED asked
               \/ "nomem" \in Faults /\ GiveUp /\ UNCHANGED asked
  /\ pbIsSparse' = [pbIsSparse EXCEPT ![uiCount] = TRUE]
  /\ valid_idx' = 0
  /\ UNCHANGED <<retries, data, uiCount, uiRefCount, flagVars, puiNumPages, pageVars, threadVars,
                 start_cleanup, syncVars, engine, served>>

\* The slots of a valid page whose part of the buffer lies on k pages.
SlotsOf(v, k) == 2 * v .. 2 * v + k - 1

Pin(S) == [s \in Slots |-> pins[uiCount][s] + (IF s \in S THEN 1 ELSE 0)]

SparsePage ==
  /\ pc = "sparse"
  /\ \E k \in 1 .. 2 :
       /\ pages' = [pages EXCEPT ![uiCount] = @ \cup SlotsOf(valid_idx, k)]
       /\ pins' = [pins EXCEPT ![uiCount] = Pin(SlotsOf(valid_idx, k))]
  /\ mapped' = [mapped EXCEPT ![uiCount] = @ \cup {valid_idx}]
  /\ valid_idx' = valid_idx + 1
  /\ puiNumPages' = [puiNumPages EXCEPT ![uiCount] = valid_idx + 1]
  /\ IF valid_idx + 1 = uiNumValidPages[uiCount]
     THEN Prepared
     ELSE UNCHANGED <<pc, asked, thread, uiCount>>
  /\ UNCHANGED <<retries, data, uiRefCount, flagVars, pbIsSparse, uiNumValidPages,
                 saw_succeed, saw_sync, start_cleanup, syncVars, engine, served>>

\* References given back by the error path: two slots counted from valid_idx
\* (not from 2 * valid_idx) when pages of this round were pinned, then every
\* page of the rounds before, once for each of these rounds.
PutLast(P, s) == IF s = valid_idx \/ (s = valid_idx + 1 /\ s \in P) THEN 1 ELSE 0
PutRewind(P, s) == IF s \in P /\ s < 2 * puiNumPages[uiCount] THEN valid_idx ELSE 0

SparseFails ==
  /\ pc = "sparse"
  /\ valid_idx > 0 => "late" \in Faults
  /\ \/ /\ Faults \cap {"nomem", "sg", "map", "prep"} # {}
        /\ \E k \in 1 .. 2 :
             LET P == pages[uiCount] \cup SlotsOf(valid_idx, k)
             IN  pins' = [pins EXCEPT ![uiCount] =
                   [s \in Slots |-> Pin(SlotsOf(valid_idx, k))[s] - PutLast(P, s) - PutRewind(P, s)]]
     \/ /\ \/ "pin" \in Faults /\ pins' = [pins EXCEPT ![uiCount] =
                   [s \in Slots |-> @[s] - PutRewind(pages[uiCount], s)]]
           \/ "pin_some" \in Faults /\ pins' = [pins EXCEPT ![uiCount] =
                   [s \in Slots |-> Pin({2 * valid_idx})[s]
                                      - PutRewind(pages[uiCount] \cup {2 * valid_idx}, s)]]
  /\ pages' = [pages EXCEPT ![uiCount] = {}]
  /\ mapped' = [mapped EXCEPT ![uiCount] = {}]
  /\ GiveUp
  /\ UNCHANGED <<asked, retries, data, uiCount, uiRefCount, flagVars, prepVars, threadVars,
                 start_cleanup, syncVars, engine, served>>

-----------------------------------------------------------------------------
(* OSDmaSubmitTransfer *)

Submit ==
  /\ pc = "next" /\ asked = NumDMA
  /\ bSucceed' = TRUE /\ bAdvanceTimeline' = TRUE
  /\ pc' = "arm"
  /\ UNCHANGED <<asked, retries, data, uiCount, uiRefCount, prepVars, pageVars, threadVars,
                 start_cleanup, syncVars, engine, served>>

Arm ==
  /\ pc = "arm"
  /\ \E bSynchronous \in BOOLEAN : has_sync' = bSynchronous
  /\ sync' = IF has_sync' THEN "waited" ELSE "none"
  /\ uiRefCount' = uiCount
  /\ pc' = "issue"
  /\ UNCHANGED <<asked, retries, data, uiCount, flagVars, prepVars, pageVars, threadVars,
                 start_cleanup, engine, served>>

\* Nothing runs before dma_async_issue_pending.  The local sync_completion
\* says whether to wait.
Issue ==
  /\ pc = "issue"
  /\ engine' = [i \in Index |-> IF i < uiCount THEN "flying" ELSE engine[i]]
  /\ pc' = IF sync = "none" THEN "over" ELSE "wait"
  /\ UNCHANGED <<asked, retries, data, uiCount, uiRefCount, flagVars, prepVars, pageVars,
                 threadVars, start_cleanup, syncVars, served>>

\* wait_for_completion, and the completion is freed.
SubmitReturns ==
  /\ pc = "wait" /\ sync = "done"
  /\ sync' = "none"
  /\ pc' = "over"
  /\ UNCHANGED <<asked, retries, data, uiCount, uiRefCount, flagVars, prepVars, pageVars,
                 threadVars, start_cleanup, has_sync, engine, served>>

-----------------------------------------------------------------------------
(* dma_callback: the last descriptor of a transfer has it; the engine runs *)
(* the descriptors of a transfer in order.                                 *)

\* Mutant: the last callback but one notifies the cleanup thread, too.
CallbackAlways(i) ==
  /\ engine[i] = "flying"
  /\ uiRefCount' = uiRefCount - 1
  /\ engine' = [engine EXCEPT ![i] = IF uiRefCount' <= 1 THEN "last" ELSE "done"]
  /\ UNCHANGED <<callerVars, data, uiCount, flagVars, prepVars, pageVars, threadVars,
                 start_cleanup, syncVars, served>>

\* Mutant: the count is tested before it is decremented.
CallbackPost(i) ==
  /\ engine[i] = "flying"
  /\ uiRefCount' = uiRefCount - 1
  /\ engine' = [engine EXCEPT ![i] = IF uiRefCount = 0 THEN "last" ELSE "done"]
  /\ UNCHANGED <<callerVars, data, uiCount, flagVars, prepVars, pageVars, threadVars,
                 start_cleanup, syncVars, served>>

\* Under the spinlock.
Callback(i) ==
  /\ engine[i] = "flying"
  /\ uiRefCount' = uiRefCount - 1
  /\ engine' = [engine EXCEPT ![i] = IF uiRefCount' = 0 THEN "last" ELSE "done"]
  /\ UNCHANGED <<callerVars, data, uiCount, flagVars, prepVars, pageVars, threadVars,
                 start_cleanup, syncVars, served>>

CallbackNotifies(i) ==
  /\ engine[i] = "last"
  /\ start_cleanup' = start_cleanup + 1
  /\ engine' = [engine EXCEPT ![i] = "done"]
  /\ UNCHANGED <<callerVars, data, uiCount, uiRefCount, flagVars, prepVars, pageVars, threadVars,
                 syncVars, served>>

-----------------------------------------------------------------------------
(* OSDmaForceCleanup *)

ForceMark ==
  /\ pc = "force"
  /\ bSucceed' = FALSE /\ bAdvanceTimeline' = TRUE
  /\ pc' = "terminate"
  /\ UNCHANGED <<asked, retries, data, uiCount, uiRefCount, prepVars, pageVars, threadVars,
                 start_cleanup, syncVars, engine, served>>

Terminate ==
  /\ pc = "terminate"
  /\ \/ pc' = "wind" /\ UNCHANGED <<retries, bAdvanceTimeline>>
     \/ /\ "terminate" \in Faults
        /\ retries' = retries + 1
        /\ IF retries' = Retries
           THEN bAdvanceTimeline' = FALSE /\ pc' = "wind"
           ELSE UNCHANGED <<bAdvanceTimeline, pc>>
  /\ UNCHANGED <<asked, data, uiCount, uiRefCount, bSucceed, prepVars, pageVars, threadVars,
                 start_cleanup, syncVars, engine, served>>

\* Mutant: the caller frees the data whether or not the thread has it.
WindBoth ==
  /\ pc = "wind"
  /\ start_cleanup' = IF uiCount > 0 THEN start_cleanup + 1 ELSE start_cleanup
  /\ served' = IF uiCount > 0 THEN served ELSE Append(served, bAdvanceTimeline)
  /\ data' = "freed"
  /\ pc' = "over"
  /\ UNCHANGED <<asked, retries, uiCount, uiRefCount, flagVars, prepVars, pageVars, threadVars,
                 syncVars, engine>>

\* The thread cleans up if it was started, otherwise the caller does.
Wind ==
  /\ pc = "wind"
  /\ IF uiCount > 0
     THEN start_cleanup' = start_cleanup + 1 /\ UNCHANGED <<data, served>>
     ELSE /\ served' = Append(served, bAdvanceTimeline)
          /\ data' = "freed"
          /\ UNCHANGED start_cleanup
  /\ pc' = "over"
  /\ UNCHANGED <<asked, retries, uiCount, uiRefCount, flagVars, prepVars, pageVars, threadVars,
                 syncVars, engine>>

-----------------------------------------------------------------------------
(* cleanup_thread *)

\* The two reads come before the wait.
ThreadReadsSucceed ==
  /\ thread = "new"
  /\ saw_succeed' = bSucceed
  /\ thread' = "succeed"
  /\ UNCHANGED <<callerVars, data, uiCount, uiRefCount, flagVars, prepVars, pageVars, saw_sync,
                 start_cleanup, syncVars, engine, served>>

ThreadReadsSync ==
  /\ thread = "succeed"
  /\ saw_sync' = has_sync
  /\ thread' = "wait"
  /\ UNCHANGED <<callerVars, data, uiCount, uiRefCount, flagVars, prepVars, pageVars, saw_succeed,
                 start_cleanup, syncVars, engine, served>>

ThreadWakes ==
  /\ thread = "wait" /\ start_cleanup > 0
  /\ start_cleanup' = start_cleanup - 1
  /\ thread' = "unpin"
  /\ UNCHANGED <<callerVars, data, uiCount, uiRefCount, flagVars, prepVars, pageVars, saw_succeed,
                 saw_sync, syncVars, engine, served>>

\* Mutant: a sparse transfer has one slot for each page.
HeldOnce(i, s) == s < puiNumPages[i] /\ s \in pages[i]

\* Pages of a dense transfer are counted by puiNumPages, those of a sparse one
\* are the slots that are not NULL.
Held(i, s) ==
  IF pbIsSparse[i] THEN s \in pages[i] /\ s < 2 * puiNumPages[i] ELSE s < puiNumPages[i]

ThreadUnpins ==
  /\ thread = "unpin"
  /\ pins' = [i \in Index |-> [s \in Slots |->
                pins[i][s] - (IF i < uiCount /\ Held(i, s) THEN 1 ELSE 0)]]
  /\ mapped' = [i \in Index |-> IF i < uiCount THEN {} ELSE mapped[i]]
  /\ thread' = "serve"
  /\ UNCHANGED <<callerVars, data, uiCount, uiRefCount, flagVars, prepVars, pages, saw_succeed,
                 saw_sync, start_cleanup, syncVars, engine, served>>

ThreadServes ==
  /\ thread = "serve"
  /\ served' = Append(served, bAdvanceTimeline)
  /\ thread' = "free"
  /\ UNCHANGED <<callerVars, data, uiCount, uiRefCount, flagVars, prepVars, pageVars, saw_succeed,
                 saw_sync, start_cleanup, syncVars, engine>>

ThreadFrees ==
  /\ thread = "free"
  /\ data' = "freed"
  /\ thread' = "tell"
  /\ UNCHANGED <<callerVars, uiCount, uiRefCount, flagVars, prepVars, pageVars, saw_succeed,
                 saw_sync, start_cleanup, syncVars, engine, served>>

ThreadTells ==
  /\ thread = "tell"
  /\ sync' = IF saw_sync /\ saw_succeed THEN "done" ELSE sync
  /\ thread' = "done"
  /\ UNCHANGED <<callerVars, data, uiCount, uiRefCount, flagVars, prepVars, pageVars, saw_succeed,
                 saw_sync, start_cleanup, has_sync, engine, served>>

-----------------------------------------------------------------------------
Caller ==
  \/ OSDmaAllocData \/ OSDmaPrepareTransfer \/ PrepareFails \/ SparseBegin \/ SparsePage
  \/ SparseFails \/ Submit \/ Arm \/ Issue \/ SubmitReturns \/ ForceMark \/ Terminate \/ Wind

Engine == \E i \in Index : Callback(i) \/ CallbackNotifies(i)

CleanupThread ==
  \/ ThreadReadsSucceed \/ ThreadReadsSync \/ ThreadWakes \/ ThreadUnpins \/ ThreadServes
  \/ ThreadFrees \/ ThreadTells

Next == Caller \/ Engine \/ CleanupThread

Spec == Init /\ [][Next]_vars

\* The core goes on with a request it began, the engine with what was issued,
\* and the thread is scheduled.
FairSpec == Spec /\ WF_vars(Caller) /\ WF_vars(Engine) /\ WF_vars(CleanupThread)

-----------------------------------------------------------------------------
TypeOK ==
  /\ pc \in {"start", "next", "sparse", "arm", "issue", "wait", "force", "terminate", "wind", "over"}
  /\ asked \in 0 .. NumDMA /\ retries \in 0 .. Retries
  /\ data \in {"none", "live", "freed"}
  /\ uiCount \in 0 .. NumDMA /\ uiRefCount \in 0 .. NumDMA
  /\ bSucceed \in BOOLEAN /\ bAdvanceTimeline \in BOOLEAN
  /\ pbIsSparse \in [Index -> BOOLEAN]
  /\ uiNumValidPages \in [Index -> 0 .. MaxPages] /\ puiNumPages \in [Index -> 0 .. MaxPages]
  /\ valid_idx \in 0 .. MaxPages
  /\ pages \in [Index -> SUBSET Slots]
  /\ pins \in [Index -> [Slots -> Int]]
  /\ mapped \in [Index -> SUBSET Chunks]
  /\ thread \in {"none", "new", "succeed", "wait", "unpin", "serve", "free", "tell", "done"}
  /\ saw_succeed \in BOOLEAN /\ saw_sync \in BOOLEAN
  /\ start_cleanup \in 0 .. 1
  /\ has_sync \in BOOLEAN /\ sync \in {"none", "waited", "done"}
  /\ engine \in [Index -> {"idle", "flying", "last", "done"}]
  /\ \A i \in DOMAIN served : served[i] \in BOOLEAN

\* The pages and mappings the engine works on.
Busy(i) == engine[i] = "flying"

\* While the engine may still read or write the memory of a transfer, its
\* pages are pinned, its lists mapped, and the request has not been served
\* (cleanup_thread must not wake before the last callback, osfunc.c:2154).
BusyPagesHeld ==
  \A i \in Index : Busy(i) =>
    /\ pages[i] # {} /\ \A s \in pages[i] : pins[i][s] = 1
    /\ mapped[i] # {}
    /\ served = <<>>

\* Whoever is about to use the data finds it: the caller between its
\* allocation and the start of the engine, callbacks under way, the thread up
\* to its free (osfunc.c:2240).
DataInUse ==
  \/ pc \in {"next", "sparse", "arm", "issue", "force", "terminate", "wind"}
  \/ \E i \in Index : engine[i] \in {"flying", "last"}
  \/ thread \in {"new", "succeed", "wait", "unpin", "serve", "free"}
NothingDangles ==
  /\ DataInUse => data = "live"
  /\ thread = "tell" /\ saw_sync /\ saw_succeed => sync = "waited"

\* When a request is over the server has been told once, that the timeline may
\* advance unless the engine could not be stopped, and every page and mapping
\* has been given back once.
Over == data = "freed"
GivenBack ==
  Over => /\ served = <<retries < Retries>>
          /\ \A i \in Index : mapped[i] = {} /\ \A s \in Slots : pins[i][s] = 0

\* A request that was allocated is cleaned up in the end, and a caller that
\* waits for it returns, unless the thread looked for sync_completion before
\* the caller had stored it (osfunc.c:2140 comes before the wait): then nobody
\* completes it.
LookedEarly == thread \notin {"none", "new", "succeed"} /\ ~(saw_succeed /\ saw_sync)
RequestEnds ==
  /\ data = "live" ~> data = "freed"
  /\ pc = "wait" ~> pc = "over" \/ LookedEarly
=============================================================================
