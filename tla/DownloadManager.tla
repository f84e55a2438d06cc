-------------------------- MODULE DownloadManager --------------------------
(***************************************************************************)
(* distribution/xfer/download.go: pulls that download the layers of an     *)
(* image, on top of the transfer manager.                                  *)
(*                                                                         *)
(* All pulls work on one stack of layers, of which each wants a prefix:    *)
(* pulls of unrelated layers only share slots.  The key of a transfer is   *)
(* the position of its layer, since transferKey is the concatenation of    *)
(* the keys up to there.  A pull holds one watcher per layer, so a caller  *)
(* of the transfer manager is a pull and a position.  The actions of       *)
(* TransferManager are what pulls, downloads and the transfer manager's    *)
(* own goroutines do to its state.                                         *)
(*                                                                         *)
(* The layer store is abstract: a layer exists while somebody holds a      *)
(* reference to it or to a layer above it (LayerStore models it in full).  *)
(* Goroutines of different transfers and pulls interleave between any two  *)
(* channel operations, transfers and layer store calls.                    *)
(***************************************************************************)
EXTENDS TransferManager

CONSTANTS
    Pulls,         \* calls of Download
    Depth,         \* layers of the stack
    MaxAttempts,   \* maxDownloadAttempts
    Setups         \* the situations to look at, see Setup

Positions == 1 .. Depth

ASSUME DownloadAssumption ==
    /\ Depth \in Nat /\ MaxAttempts \in Nat \ {0}
    /\ Keys = Positions /\ Callers = Pulls \X Positions

VARIABLES
    pull,       \* per pull: control point, layers wanted, position, outcome
    setup,      \* the situation, which does not change
    topLayer,   \* per pull: the existing layer it holds, 0 for nil
    dl          \* per transfer: its downloadTransfer and goroutine

pullVars == <<pull, topLayer, setup>>
downloadVars == <<vars, pullVars, dl>>

\* len: the layers each pull wants; repeated: positions whose data is also the
\* data of position 1; faults: what may fail; unknown: descriptor.DiffID() may
\* not know the layer although it exists.
Setup == [len : [Pulls -> Positions], repeated : SUBSET (2 .. Depth),
          faults : SUBSET {"retry", "dnr", "register"}, unknown : BOOLEAN]

ASSUME SetupsOK == Setups \subseteq Setup /\ Setups # {}

Outcomes == {"none", "ok", "failed", "cancelled"}
Errors == {"none", "fetch", "register", "cancelled", "noParent"}
Steps == {"start", "skip", "fetch", "delay", "parent", "source", "register", "returned"}

NoDownload == [step |-> "returned", parent |-> NoXfer, source |-> NoXfer,
               err |-> "none", layer |-> 0, retries |-> 0]

DownloadTypeOK ==
    /\ TypeOK
    /\ pull \in [Pulls -> [pc : {"look", "transfer", "wait", "return", "holding", "ended"},
                           next : 1 .. Depth + 1, outcome : Outcomes]]
    /\ setup \in Setup
    /\ topLayer \in [Pulls -> 0 .. Depth]
    /\ dl \in [Transfers -> [step : Steps, parent : Transfers \cup {NoXfer},
                             source : Transfers \cup {NoXfer}, err : Errors,
                             layer : 0 .. Depth, retries : 0 .. MaxAttempts]]

DownloadInit ==
    /\ Init /\ keyOf = [t \in Transfers |-> 1]
    /\ setup \in Setups
    /\ pull = [p \in Pulls |-> [pc |-> "look", next |-> 1, outcome |-> "none"]]
    /\ topLayer = [p \in Pulls |-> 0]
    /\ dl = [t \in Transfers |-> NoDownload]

\* The layer store: a reference to a layer keeps the layers below it.
Held(i) == (\E p \in Pulls : topLayer[p] = i) \/ (\E t \in Transfers : dl[t].layer = i)
Exists(i) == i = 0 \/ \E j \in i .. Depth : Held(j)

\* The identity t may stand for a new object: nothing refers to the old one.
Garbage(t) ==
    /\ dl[t].layer = 0
    /\ \A u \in Transfers : t \notin {dl[u].parent, dl[u].source}

----------------------------------------------------------------------------
(* Download                                                                *)

\* The layer exists: keep it instead of the one below.
PullFound(p) ==
    LET i == pull[p].next IN
    /\ pull[p].pc = "look" /\ Exists(i)
    /\ topLayer' = [topLayer EXCEPT ![p] = i]
    /\ pull' = [pull EXCEPT ![p].next = i + 1,
                            ![p].pc = IF i = setup.len[p] THEN "holding" ELSE "look",
                            ![p].outcome = IF i = setup.len[p] THEN "ok" ELSE "none"]
    /\ UNCHANGED <<vars, setup, dl>>

\* missingLayer: from here on layers are downloaded.
PullMissing(p) ==
    LET i == pull[p].next IN
    /\ pull[p].pc = "look" /\ (Exists(i) => setup.unknown)
    /\ pull' = [pull EXCEPT ![p].pc = "transfer"]
    /\ UNCHANGED <<vars, topLayer, setup, dl>>

\* topDownload, and existingDownload of downloadsByKey; NoXfer if there is none
TopDownload(p, i) == IF i = 1 THEN NoXfer ELSE caller[<<p, i - 1>>].xfer
ExistingDownload(p, i) == IF i \in setup.repeated THEN caller[<<p, 1>>].xfer ELSE NoXfer

\* ldm.tm.Transfer with makeDownloadFunc or makeDownloadFuncFromDownload
PullTransfer(p) ==
    LET i == pull[p].next
        c == <<p, i>>
    IN  /\ pull[p].pc = "transfer"
        /\ \/ /\ TransferJoin(c, i)
              /\ UNCHANGED dl
           \/ \E t \in Transfers :
                 /\ Garbage(t)
                 /\ TransferNew(c, i, t)
                 /\ dl' = [dl EXCEPT ![t] = [NoDownload EXCEPT
                              !.step = "start", !.parent = TopDownload(p, i),
                              !.source = ExistingDownload(p, i)]]
        /\ pull' = [pull EXCEPT ![p].next = i + 1,
                                ![p].pc = IF i = setup.len[p] THEN "wait" ELSE "transfer"]
        /\ UNCHANGED <<topLayer, setup>>

\* Transfer waits for a cancelled transfer to go away.
PullTransferWaits(p) ==
    /\ pull[p].pc = "transfer"
    /\ TransferWaitCancelled(<<p, pull[p].next>>, pull[p].next)
    /\ UNCHANGED <<pullVars, dl>>

\* The select on ctx.Done() and topDownload.Done()
PullWait(p) ==
    LET top == caller[<<p, setup.len[p]>>].xfer IN
    /\ pull[p].pc = "wait"
    /\ \E o \in Outcomes :
          /\ \/ o = "cancelled"
             \/ o = "ok" /\ Done(top) /\ dl[top].err = "none"
             \/ o = "failed" /\ Done(top) /\ dl[top].err # "none"
          /\ pull' = [pull EXCEPT ![p].pc = "return", ![p].outcome = o]
    /\ UNCHANGED <<vars, topLayer, setup, dl>>

\* Mutant of KeepsTop: the deferred calls release the top layer as well.
KeepsNothing(p) == FALSE

\* On success the caller gets a function that releases topDownload.
KeepsTop(p) == pull[p].outcome = "ok"

\* The watchers that Download releases before it returns
ToRelease(p) ==
    {j \in 1 .. setup.len[p] :
        /\ caller[<<p, j>>].pc = "watching"
        /\ j = setup.len[p] => ~KeepsTop(p)}

\* Release of topDownload, unless it is kept, and the deferred calls in reverse:
\* topLayer, then the downloads below.
PullRelease(p) ==
    LET toRelease == ToRelease(p)
        top == setup.len[p] \in toRelease
    IN  /\ pull[p].pc = "return"
        /\ \/ /\ ~top /\ topLayer[p] # 0
              /\ topLayer' = [topLayer EXCEPT ![p] = 0]
              /\ UNCHANGED vars
           \/ /\ top \/ topLayer[p] = 0
              /\ \E j \in toRelease :
                    (\A i \in toRelease : i <= j) /\ Release(<<p, j>>)
              /\ UNCHANGED topLayer
        /\ UNCHANGED <<pull, setup, dl>>

\* Download returns.
PullReturn(p) ==
    /\ pull[p].pc = "return" /\ ToRelease(p) = {} /\ topLayer[p] = 0
    /\ pull' = [pull EXCEPT ![p].pc = IF KeepsTop(p) THEN "holding" ELSE "ended"]
    /\ UNCHANGED <<vars, topLayer, setup, dl>>

\* The caller of Download calls the release function it was given.
PullEnd(p) ==
    /\ pull[p].pc = "holding"
    /\ \/ caller[<<p, setup.len[p]>>].pc = "watching" /\ Release(<<p, setup.len[p]>>)
       \/ caller[<<p, setup.len[p]>>].pc # "watching" /\ UNCHANGED vars
    /\ topLayer' = [topLayer EXCEPT ![p] = 0]
    /\ pull' = [pull EXCEPT ![p].pc = "ended"]
    /\ UNCHANGED <<setup, dl>>

----------------------------------------------------------------------------
(* The goroutine of a download                                             *)

\* The goroutine of t goes on to step s.
GoOn(t, s) == dl' = [dl EXCEPT ![t].step = s]

\* The goroutine sets d.err, if e says so, and returns; the deferred call
\* closes progressChan.
Return(t, e) ==
    /\ DoReturn(t)
    /\ dl' = [dl EXCEPT ![t] = [NoDownload EXCEPT !.err = e]]

\* The download u has ended with an error.
Failed(u) == u # NoXfer /\ Done(u) /\ dl[u].err # "none"

\* <-start, and a look at parentDownload: what is left is to return its error, to
\* close inactive because the data comes from another download, or to fetch.
DownloadStart(t) ==
    /\ dl[t].step = "start"
    /\ DoStart(t)
    /\ GoOn(t, IF dl[t].source = NoXfer /\ ~Failed(dl[t].parent) THEN "fetch" ELSE "skip")
    /\ UNCHANGED pullVars

DownloadSkip(t) ==
    /\ dl[t].step = "skip"
    /\ \/ dl[t].source # NoXfer /\ DoInactive(t) /\ GoOn(t, "parent")
       \/ dl[t].source = NoXfer /\ Return(t, dl[dl[t].parent].err)
    /\ UNCHANGED pullVars

\* retries == maxDownloadAttempts, after retries++
LastAttempt(t) == dl[t].retries + 1 = MaxAttempts

\* descriptor.Download succeeds, or fails and is not tried again, or is.
DownloadFetch(t) ==
    /\ dl[t].step = "fetch"
    /\ \/ DoInactive(t) /\ GoOn(t, "parent")
       \/ t \in cancelled /\ Return(t, "cancelled")
       \/ /\ t \notin cancelled
          /\ "dnr" \in setup.faults \/ ("retry" \in setup.faults /\ LastAttempt(t))
          /\ Return(t, "fetch")
       \/ /\ t \notin cancelled /\ "retry" \in setup.faults /\ ~LastAttempt(t)
          /\ dl' = [dl EXCEPT ![t].step = "delay", ![t].retries = @ + 1]
          /\ UNCHANGED vars
    /\ UNCHANGED pullVars

\* The delay ends, or the download is cancelled.
DownloadDelay(t) ==
    /\ dl[t].step = "delay"
    /\ \/ GoOn(t, "fetch") /\ UNCHANGED vars
       \/ t \in cancelled /\ Return(t, "cancelled")
    /\ UNCHANGED pullVars

\* Mutant of AwaitErrors: the error of the other download is not looked at.
AwaitErrorsOfCancel(t, u) == IF t \in cancelled THEN {"cancelled"} ELSE {}

\* select on the context and on the Done of the download u: the errors that t may
\* return with.
AwaitErrors(t, u) ==
    (IF t \in cancelled THEN {"cancelled"} ELSE {})
        \cup (IF Failed(u) THEN {dl[u].err} ELSE {})

AwaitFails(t, u) == \E e \in AwaitErrors(t, u) : Return(t, e)

\* Wait for parentDownload, if there is one.
DownloadParent(t) ==
    LET u == dl[t].parent IN
    /\ dl[t].step = "parent"
    /\ \/ u # NoXfer /\ AwaitFails(t, u)
       \/ /\ u # NoXfer => Done(u) /\ dl[u].err = "none"
          /\ GoOn(t, IF dl[t].source = NoXfer THEN "register" ELSE "source")
          /\ UNCHANGED vars
    /\ UNCHANGED pullVars

\* Wait for sourceDownload.
DownloadSource(t) ==
    LET u == dl[t].source IN
    /\ dl[t].step = "source"
    /\ \/ AwaitFails(t, u)
       \/ Done(u) /\ dl[u].err = "none" /\ GoOn(t, "register") /\ UNCHANGED vars
    /\ UNCHANGED pullVars

\* Register: the layer below must exist; reading the data of a cancelled
\* download fails.
DownloadRegister(t) ==
    LET i == keyOf[t] IN
    /\ dl[t].step = "register"
    /\ \/ ~Exists(i - 1) /\ Return(t, "noParent")
       \/ Exists(i - 1) /\ t \in cancelled /\ dl[t].source = NoXfer /\ Return(t, "cancelled")
       \/ Exists(i - 1) /\ "register" \in setup.faults /\ Return(t, "register")
       \/ /\ Exists(i - 1)
          /\ DoReturn(t)
          /\ dl' = [dl EXCEPT ![t] = [NoDownload EXCEPT !.layer = i]]
    /\ UNCHANGED pullVars

\* Mutants of MayDrop: the layer is dropped when the download ends; never.
MayDropWhenDone(t) == Done(t)
MayDropNever(t) == FALSE

\* <-d.Transfer.Released()
MayDrop(t) == t \in released

\* The goroutine that drops the layer
DownloadDrop(t) ==
    /\ dl[t].layer # 0 /\ MayDrop(t)
    /\ dl' = [dl EXCEPT ![t].layer = 0]
    /\ UNCHANGED <<vars, pullVars>>

\* The goroutine with which the transfer manager tracks t
Manage(t) ==
    /\ MgrInactive(t) \/ MgrDone(t) \/ MgrClose(t)
    /\ UNCHANGED <<pullVars, dl>>

\* A daemon reload changes the limit.
DownloadSetConcurrency(n) ==
    /\ SetConcurrency(n)
    /\ UNCHANGED <<pullVars, dl>>

----------------------------------------------------------------------------
PullSteps(p) ==
    \/ PullFound(p) \/ PullMissing(p) \/ PullTransfer(p) \/ PullTransferWaits(p)
    \/ PullRelease(p) \/ PullReturn(p)

DownloadSteps(t) ==
    \/ DownloadStart(t) \/ DownloadSkip(t) \/ DownloadFetch(t) \/ DownloadDelay(t)
    \/ DownloadParent(t) \/ DownloadSource(t) \/ DownloadRegister(t)

DownloadNext ==
    \/ \E p \in Pulls :
          PullSteps(p) \/ PullWait(p) \/ PullEnd(p)
    \/ \E t \in Transfers : DownloadSteps(t) \/ DownloadDrop(t) \/ Manage(t)
    \/ \E n \in Limits : DownloadSetConcurrency(n)

DownloadSpec == DownloadInit /\ [][DownloadNext]_downloadVars

\* Go runs what can run, the registry answers or fails, and a pull whose download
\* has ended takes its result.  Nobody is obliged to pull, to cancel or to call
\* the release function.
DownloadFairness ==
    /\ \A p \in Pulls :
          /\ WF_downloadVars(PullSteps(p))
          /\ WF_downloadVars(PullWait(p) /\ pull'[p].outcome # "cancelled")
    /\ \A t \in Transfers :
          WF_downloadVars(DownloadSteps(t)) /\ WF_downloadVars(DownloadDrop(t)) /\ WF_downloadVars(Manage(t))

FairDownloadSpec == DownloadSpec /\ DownloadFairness
----------------------------------------------------------------------------
(* Properties                                                              *)

\* "ensures the requested layers are present": while a pull holds the result of
\* a Download that succeeded, every layer of it exists.
ResultExists == \A p \in Pulls : pull[p].pc = "holding" => Exists(setup.len[p])

\* A layer registered by a download is not kept once nobody uses the download.
LayersDropped ==
    \A t \in Transfers : (dl[t].layer # 0 /\ watchers[t] = {}) ~> dl[t].layer = 0

\* What the transfer manager assumes of a transfer function: it returns, also
\* when it waits for other downloads, and also when it was cancelled.
DownloadsReturn ==
    \A t \in Transfers : dl[t].step # "returned" ~> dl[t].step = "returned"

\* "so that a transfer won't be cancelled automatically if the client which
\* requested it is ^C'd (there could be other viewers)": a pull whose own
\* context is not cancelled does not fail unless a fetch or a registration does.
OthersUnaffected == \A p \in Pulls : pull[p].outcome # "failed"
=============================================================================
