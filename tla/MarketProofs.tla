----------------------------- MODULE MarketProofs -----------------------------
(***************************************************************************)
(* Proofs about the two workers of the market: Discovery and ImportBatches, *)
(* for any sets of runs, requests and workers, any number of postings, any *)
(* file and any size of a chunk.                                           *)
(*                                                                         *)
(* Neither worker locks a row.  What makes up for it is a unique           *)
(* constraint: no posting is analysed twice, and no row of a file imported *)
(* or normalized twice, because whoever comes second dies of it.           *)
(***************************************************************************)
EXTENDS ImportBatches, Discovery, ProcessingRunsProofs, FiniteSetTheorems,
        WellFoundedInduction

-----------------------------------------------------------------------------
(* Discovery.  The argument: what is analysed stays analysed, once; a      *)
(* worker goes through all postings before it completes a run; and the     *)
(* candidates of a completed discovery are only deleted by a worker that   *)
(* has started the same run a second time.                                 *)

IsMining(m) == m.pc \in {"load", "map", "mapped", "persist"}

AnalysedOnce == \A j \in Jobs : analysed[j] <= 1

\* What a worker's row m says of the postings and of its run.
MinerSound(m, counts, starts) ==
    /\ m.pc # "idle" => m.run \in Runs
    /\ m.pc \in {"start", "load"} => m.pos = 0
    /\ \A j \in m.known : counts[j] = 1
    /\ m.pc = "map" => \A j \in 1 .. m.pos : j \in Jobs /\ counts[j] = 1
    /\ m.pc \in {"mapped", "persist"} => \A j \in Jobs : counts[j] = 1
    /\ IsMining(m) => starts[m.run] >= 1

MinersSound == \A w \in Miners : MinerSound(miner[w], analysed, started)

\* Two workers on one run have started it twice.
StartsCounted ==
    \A w, v \in Miners :
        w # v /\ IsMining(miner[w]) /\ IsMining(miner[v]) /\ miner[w].run = miner[v].run
            => started[miner[w].run] >= 2

CompletionSound(n) ==
    discovery[n].status = "completed" =>
        /\ \A j \in Jobs : analysed[j] = 1
        /\ started[n] >= 1
        /\ started[n] <= 1 => discovery[n].found # "none"
        /\ \A w \in Miners : IsMining(miner[w]) /\ miner[w].run = n => started[n] >= 2

DiscoveryInv ==
    /\ DiscoveryTypeOK
    /\ AnalysedOnce
    /\ MinersSound
    /\ StartsCounted
    /\ \A n \in Runs : CompletionSound(n)

LEMMA DiscoveryInitially == DiscoveryInit => DiscoveryInv
BY DEF DiscoveryInit, DiscoveryInv, DiscoveryTypeOK, AnalysedOnce, MinersSound, MinerSound,
       StartsCounted, CompletionSound, IsMining, IdleMiner, Miner, DiscoveryRun, Found,
       AbsentDiscovery, DiscoveryStatus, Status

LEMMA DiscoveryStays == DiscoveryInv /\ UNCHANGED discoveryVars => DiscoveryInv'
BY DEF discoveryVars, DiscoveryInv, DiscoveryTypeOK, AnalysedOnce, MinersSound,
       StartsCounted, CompletionSound

\* What a step leaves of the postings: whatever is analysed stays analysed.
AnalysisGrows ==
    /\ analysed' \in [Jobs -> Nat]
    /\ AnalysedOnce'
    /\ \A j \in Jobs : analysed[j] = 1 => analysed'[j] = 1

LEMMA AnalyseGrows ==
    ASSUME DiscoveryInv, NEW js, ~ AlreadyAnalysed(js), Analyse(js), js \subseteq Jobs
    PROVE  AnalysisGrows /\ \A j \in js : analysed'[j] = 1
<1>1. \A j \in js : analysed[j] = 0
  BY DEF AlreadyAnalysed, DiscoveryInv, DiscoveryTypeOK
<1>2. \A j \in Jobs : analysed'[j] = IF j \in js THEN 1 ELSE analysed[j]
  BY <1>1 DEF Analyse
<1> QED
  BY <1>2 DEF Analyse, AnalysisGrows, AnalysedOnce, DiscoveryInv, DiscoveryTypeOK

LEMMA AnalysisStays == DiscoveryInv /\ UNCHANGED analysed => AnalysisGrows
BY DEF AnalysisGrows, AnalysedOnce, DiscoveryInv, DiscoveryTypeOK

\* A worker that starts nothing new writes a row of its own that is sound.
LEMMA MinerGoesOn ==
    ASSUME DiscoveryInv, AnalysisGrows, UNCHANGED started,
           NEW w \in Miners, NEW m \in Miner, Turns(w, m),
           MinerSound(m, analysed', started),
           IsMining(m) => IsMining(miner[w]) /\ m.run = miner[w].run,
           discovery' \in [Runs -> DiscoveryRun],
           \A n \in Runs : discovery'[n].status = "completed" =>
              \/ /\ discovery[n].status = "completed"
                 /\ \/ discovery'[n].found # "none" \/ discovery'[n].found = discovery[n].found
                    \/ IsMining(miner[w]) /\ miner[w].run = n
              \/ /\ IsMining(miner[w]) /\ miner[w].run = n /\ ~ IsMining(m)
                 /\ \A j \in Jobs : analysed'[j] = 1
                 /\ discovery'[n].found # "none"
    PROVE  DiscoveryInv'
<1>1. \A v \in Miners : miner'[v] = IF v = w THEN m ELSE miner[v]
  BY DEF Turns, DiscoveryInv, DiscoveryTypeOK
<1>2. DiscoveryTypeOK'
  BY DEF Turns, DiscoveryInv, DiscoveryTypeOK, AnalysisGrows
<1>3. MinersSound'
  <2>1. ASSUME NEW v \in Miners PROVE MinerSound(miner[v], analysed', started)
    <3>1. MinerSound(miner[v], analysed, started) /\ miner[v].known \subseteq Jobs
      BY DEF DiscoveryInv, MinersSound, DiscoveryTypeOK, Miner
    <3> QED
      BY <3>1 DEF MinerSound, AnalysisGrows
  <2> QED
    BY <1>1, <2>1 DEF MinersSound
<1>4. StartsCounted'
  BY <1>1 DEF DiscoveryInv, StartsCounted
<1>5. ASSUME NEW n \in Runs PROVE CompletionSound(n)'
  <2>1. CASE discovery[n].status = "completed"
    <3>1. /\ \A j \in Jobs : analysed[j] = 1
          /\ started[n] >= 1
          /\ started[n] <= 1 => discovery[n].found # "none"
          /\ \A v \in Miners : IsMining(miner[v]) /\ miner[v].run = n => started[n] >= 2
      BY <2>1 DEF DiscoveryInv, CompletionSound
    <3>2. started[n] \in Nat
      BY DEF DiscoveryInv, DiscoveryTypeOK
    <3>3. \A v \in Miners : IsMining(miner'[v]) /\ miner'[v].run = n => started[n] >= 2
      BY <1>1, <3>1
    <3>4. started[n] <= 1 => discovery'[n].found # "none" \/ discovery'[n].status # "completed"
      BY <2>1, <3>1, <3>2
    <3>5. \A j \in Jobs : analysed'[j] = 1
      BY <3>1 DEF AnalysisGrows
    <3> QED
      BY <3>1, <3>3, <3>4, <3>5 DEF CompletionSound
  <2>2. CASE discovery[n].status # "completed"
    <3> SUFFICES ASSUME discovery'[n].status = "completed" PROVE CompletionSound(n)'
      BY DEF CompletionSound
    <3>1. /\ IsMining(miner[w]) /\ miner[w].run = n /\ ~ IsMining(m)
          /\ \A j \in Jobs : analysed'[j] = 1
          /\ discovery'[n].found # "none"
      BY <2>2
    <3>2. started[n] >= 1
      BY <3>1 DEF DiscoveryInv, MinersSound, MinerSound
    <3>3. \A v \in Miners : IsMining(miner'[v]) /\ miner'[v].run = n => started[n] >= 2
      BY <1>1, <3>1 DEF DiscoveryInv, StartsCounted
    <3> QED
      BY <3>1, <3>2, <3>3 DEF CompletionSound
  <2> QED
    BY <2>1, <2>2
<1> QED
  BY <1>2, <1>3, <1>4, <1>5 DEF DiscoveryInv, AnalysisGrows

\* The worker's row says nothing of any run.
LEMMA MinerQuits ==
    ASSUME DiscoveryInv, AnalysisGrows, UNCHANGED <<started, discovery>>,
           NEW w \in Miners, Quits(w)
    PROVE  DiscoveryInv'
<1>1. IdleMiner \in Miner /\ ~ IsMining(IdleMiner)
  BY DEF IdleMiner, Miner, IsMining, Status, DiscoveryStatus
<1>2. MinerSound(IdleMiner, analysed', started)
  BY <1>1 DEF MinerSound, IdleMiner
<1>3. discovery' \in [Runs -> DiscoveryRun]
  BY DEF DiscoveryInv, DiscoveryTypeOK
<1> QED
  BY <1>1, <1>2, <1>3, MinerGoesOn DEF Quits

\* What a worker writes of its run.
LEMMA OverwrittenRow ==
    ASSUME LifeTypeOK, NEW n \in Runs, NEW loaded, NEW status \in Status
    PROVE  /\ Overwritten(n, loaded, status) \in Run
           /\ [Overwritten(n, loaded, status) EXCEPT !.silent = FALSE] \in Run
<1>1. Overwritten(n, loaded, status) \in Run
  BY WrittenRow DEF Overwritten, LifeTypeOK
<1>2. \A m \in Run : [m EXCEPT !.silent = FALSE] \in Run
  BY DEF Run
<1> QED
  BY <1>1, <1>2

LEMMA MinerWritesRun ==
    ASSUME LifeTypeOK, DiscoveryInv, NEW w \in Miners, miner[w].pc # "idle",
           NEW status \in Status, WriteMinerRun(w, status),
           UNCHANGED <<queue, request, batch, stale>>
    PROVE  LifeTypeOK'
<1>1. miner[w].run \in Runs
  BY DEF DiscoveryInv, MinersSound, MinerSound
<1>2. [Overwritten(miner[w].run, miner[w].was, status) EXCEPT !.silent = FALSE] \in Run
  BY <1>1, OverwrittenRow
<1>3. run' \in [Runs -> Run]
  BY <1>2 DEF WriteMinerRun, LifeTypeOK
<1> QED
  BY <1>3 DEF LifeTypeOK

\* What a worker writes of its discovery run.
LEMMA MinerWritesRow ==
    ASSUME DiscoveryInv, NEW w \in Miners, miner[w].pc # "idle",
           NEW status \in DiscoveryStatus, NEW found \in Found,
           WriteRow(w, status, found)
    PROVE  /\ miner[w].run \in Runs /\ discovery' \in [Runs -> DiscoveryRun]
           /\ \A n \in Runs : n # miner[w].run => discovery'[n] = discovery[n]
           /\ discovery'[miner[w].run].found = found
           /\ discovery'[miner[w].run].status \in {status, discovery[miner[w].run].status}
<1>1. miner[w].run \in Runs
  BY DEF DiscoveryInv, MinersSound, MinerSound
<1> DEFINE row == [status |-> IF miner[w].its = status THEN discovery[miner[w].run].status
                                                       ELSE status,
                   found |-> found]
<1>2. discovery' = [discovery EXCEPT ![miner[w].run] = row]
  BY DEF WriteRow, Row, OwnDiscovery
<1>3. row \in DiscoveryRun /\ row.found = found
      /\ row.status \in {status, discovery[miner[w].run].status}
  BY <1>1 DEF DiscoveryInv, DiscoveryTypeOK, DiscoveryRun
<1> HIDE DEF row
<1> QED
  BY <1>1, <1>2, <1>3 DEF DiscoveryInv, DiscoveryTypeOK

-----------------------------------------------------------------------------
(* The steps of a discovery                                                *)

LEMMA TakeKeeps ==
    ASSUME LifeTypeOK, DiscoveryInv, NEW w \in Miners, NEW n \in Runs, MinerTake(w, n)
    PROVE  LifeTypeOK' /\ DiscoveryInv'
<1>1. LifeTypeOK'
  <2>1. queue' \in [Runs -> Nat]
    BY ReceiveKeeps DEF MinerTake
  <2>2. SetStatus(n, "failed") \/ UNCHANGED run
    BY DEF MinerTake
  <2>3. "failed" \in Status \ {"absent"}
    BY DEF Status
  <2>4. run' \in [Runs -> Run]
    BY <2>2, <2>3, SetStatusKeeps DEF LifeTypeOK
  <2> QED
    BY <2>1, <2>4 DEF LifeTypeOK, MinerTake
<1>2. AnalysisGrows /\ UNCHANGED <<started, discovery>>
  BY AnalysisStays DEF MinerTake
<1>3. CASE UNCHANGED miner
  <2>1. UNCHANGED <<discovery, analysed, started, miner>>
    BY <1>2, <1>3 DEF MinerTake
  <2> QED
    BY <1>1, <2>1, DiscoveryStays DEF discoveryVars
<1>4. ASSUME NEW clone \in BOOLEAN, NEW its \in DiscoveryStatus,
             Turns(w, [IdleMiner EXCEPT !.pc = "start", !.run = n, !.was = run[n].status,
                                        !.clone = clone, !.its = its])
      PROVE  DiscoveryInv'
  <2> DEFINE m == [IdleMiner EXCEPT !.pc = "start", !.run = n, !.was = run[n].status,
                                    !.clone = clone, !.its = its]
  <2>1. Turns(w, m)
    BY <1>4
  <2>2. m \in Miner
    <3>1. run[n].status \in Status
      BY DEF LifeTypeOK, Run
    <3> QED
      BY <3>1 DEF Miner, IdleMiner
  <2>3. ~ IsMining(m) /\ MinerSound(m, analysed', started)
    BY DEF MinerSound, IsMining, IdleMiner
  <2>4. discovery' \in [Runs -> DiscoveryRun]
    BY <1>2 DEF DiscoveryInv, DiscoveryTypeOK
  <2> HIDE DEF m
  <2> QED
    BY <1>2, <2>1, <2>2, <2>3, <2>4, MinerGoesOn
<1> QED
  <2> DEFINE own   == discovery[OwnDiscovery(n)].status # "absent"
             clone == ~ own /\ run[n].retryOf # NoRun
             its   == IF clone THEN "pending" ELSE discovery[OwnDiscovery(n)].status
  <2>1. clone \in BOOLEAN
    OBVIOUS
  <2>2. its \in DiscoveryStatus
    BY DEF DiscoveryInv, DiscoveryTypeOK, DiscoveryRun, Found, DiscoveryStatus, OwnDiscovery
  <2>3. \/ UNCHANGED miner
        \/ Turns(w, [IdleMiner EXCEPT !.pc = "start", !.run = n, !.was = run[n].status,
                                      !.clone = clone, !.its = its])
    BY DEF MinerTake
  <2> HIDE DEF clone, its
  <2> QED
    BY <1>1, <1>3, <1>4, <2>1, <2>2, <2>3

\* The run a worker starts is not completed by that, and a completed one is
\* from then on started twice.
LEMMA StartKeeps ==
    ASSUME LifeTypeOK, DiscoveryInv, NEW w \in Miners, MinerStart(w)
    PROVE  LifeTypeOK' /\ DiscoveryInv'
<1> DEFINE n == miner[w].run
           refused == miner[w].clone /\ discovery[Row(w)].status # "absent"
<1>1. miner[w].pc = "start" /\ n \in Runs /\ miner[w].pos = 0
      /\ \A j \in miner[w].known : analysed[j] = 1
  BY DEF MinerStart, DiscoveryInv, MinersSound, MinerSound
<1>2. AnalysisGrows /\ UNCHANGED <<queue, request, batch, stale, analysed>>
  BY AnalysisStays DEF MinerStart
<1>3. "running" \in Status /\ "cancelled" \in Status
      /\ "running" \in DiscoveryStatus /\ "cancelled" \in DiscoveryStatus
  BY DEF Status, DiscoveryStatus
<1>4. discovery[Row(w)].found \in Found /\ Row(w) = n
  BY <1>1 DEF Row, OwnDiscovery, DiscoveryInv, DiscoveryTypeOK, DiscoveryRun
<1>5. CASE refused
  <2>1. Quits(w) /\ UNCHANGED <<run, discovery, started>>
    BY <1>5 DEF MinerStart
  <2> QED
    BY <1>2, <2>1, MinerQuits DEF LifeTypeOK
<1>6. CASE ~ refused /\ run[n].flag
  <2>1. /\ WriteMinerRun(w, "cancelled")
        /\ WriteRow(w, "cancelled", discovery[Row(w)].found)
        /\ Quits(w) /\ UNCHANGED started
    BY <1>6 DEF MinerStart
  <2>2. LifeTypeOK'
    BY <1>1, <1>2, <1>3, <2>1, MinerWritesRun
  <2>3. /\ discovery' \in [Runs -> DiscoveryRun]
        /\ \A k \in Runs : k # n => discovery'[k] = discovery[k]
        /\ discovery'[n].found = discovery[n].found
        /\ discovery'[n].status \in {"cancelled", discovery[n].status}
    BY <1>1, <1>3, <1>4, <2>1, MinerWritesRow
  <2>4. IdleMiner \in Miner /\ ~ IsMining(IdleMiner)
        /\ MinerSound(IdleMiner, analysed', started)
    BY DEF IdleMiner, Miner, IsMining, Status, DiscoveryStatus, MinerSound
  <2>5. Turns(w, IdleMiner)
    BY <2>1 DEF Quits
  <2> QED
    BY <1>1, <1>2, <2>1, <2>2, <2>3, <2>4, <2>5, MinerGoesOn
<1>7. CASE ~ refused /\ ~ run[n].flag
  <2> DEFINE m == [miner[w] EXCEPT !.pc = "load", !.was = "running", !.its = "running"]
  <2>1. /\ WriteMinerRun(w, "running")
        /\ WriteRow(w, "running", discovery[Row(w)].found)
        /\ Turns(w, m)
        /\ started' = [started EXCEPT ![n] = @ + 1]
    BY <1>7 DEF MinerStart
  <2>2. LifeTypeOK'
    BY <1>1, <1>2, <1>3, <2>1, MinerWritesRun
  <2>3. /\ discovery' \in [Runs -> DiscoveryRun]
        /\ \A k \in Runs : k # n => discovery'[k] = discovery[k]
        /\ discovery'[n].found = discovery[n].found
        /\ discovery'[n].status \in {"running", discovery[n].status}
    BY <1>1, <1>3, <1>4, <2>1, MinerWritesRow
  <2>4. /\ m \in Miner /\ m.pc = "load" /\ m.run = n /\ m.pos = 0
        /\ m.known = miner[w].known
    BY <1>1 DEF DiscoveryInv, DiscoveryTypeOK, Miner, Status, DiscoveryStatus
  <2> HIDE DEF m
  <2>5. \A v \in Miners : miner'[v] = IF v = w THEN m ELSE miner[v]
    BY <2>1 DEF Turns, DiscoveryInv, DiscoveryTypeOK
  <2>6. /\ started' \in [Runs -> Nat] /\ started'[n] = started[n] + 1
        /\ \A k \in Runs : started[k] \in Nat /\ started'[k] >= started[k]
    BY <1>1, <2>1 DEF DiscoveryInv, DiscoveryTypeOK
  <2>7. DiscoveryTypeOK'
    BY <1>2, <2>1, <2>3, <2>4, <2>6 DEF DiscoveryInv, DiscoveryTypeOK, Turns
  <2>8. MinersSound'
    <3>1. MinerSound(m, analysed, started')
      BY <1>1, <2>4, <2>6 DEF MinerSound, IsMining
    <3>2. ASSUME NEW v \in Miners PROVE MinerSound(miner[v], analysed, started')
      BY <2>6 DEF DiscoveryInv, MinersSound, MinerSound, IsMining
    <3> QED
      BY <1>2, <2>5, <3>1, <3>2 DEF MinersSound
  <2>9. StartsCounted'
    <3> SUFFICES ASSUME NEW u \in Miners, NEW v \in Miners, u # v,
                        IsMining(miner'[u]), IsMining(miner'[v]),
                        miner'[u].run = miner'[v].run
                 PROVE  started'[miner'[u].run] >= 2
      BY DEF StartsCounted
    <3>1. CASE u = w \/ v = w
      <4>1. PICK x \in {u, v} : x # w
        OBVIOUS
      <4>2. miner'[x] = miner[x] /\ miner'[u].run = n /\ miner[x].run = n
        BY <2>4, <2>5, <3>1, <4>1
      <4>3. started[n] >= 1
        BY <4>1, <4>2 DEF DiscoveryInv, MinersSound, MinerSound
      <4> QED
        BY <1>1, <2>6, <4>2, <4>3
    <3>2. CASE u # w /\ v # w
      <4>1. miner'[u] = miner[u] /\ miner'[v] = miner[v]
        BY <2>5, <3>2
      <4>2. started[miner[u].run] >= 2 /\ miner[u].run \in Runs
        BY <4>1 DEF DiscoveryInv, StartsCounted, MinersSound, MinerSound, IsMining
      <4> QED
        BY <2>6, <4>1, <4>2
    <3> QED
      BY <3>1, <3>2
  <2>10. ASSUME NEW k \in Runs PROVE CompletionSound(k)'
    <3> SUFFICES ASSUME discovery'[k].status = "completed" PROVE CompletionSound(k)'
      BY DEF CompletionSound
    <3>1. discovery[k].status = "completed" /\ discovery'[k].found = discovery[k].found
      BY <2>3
    <3>2. /\ \A j \in Jobs : analysed[j] = 1
          /\ started[k] >= 1
          /\ started[k] <= 1 => discovery[k].found # "none"
          /\ \A v \in Miners : IsMining(miner[v]) /\ miner[v].run = k => started[k] >= 2
      BY <3>1 DEF DiscoveryInv, CompletionSound
    <3>3. started'[k] >= 1 /\ (started'[k] <= 1 => started[k] <= 1)
      BY <2>6, <3>2
    <3>4. ASSUME NEW v \in Miners, IsMining(miner'[v]), miner'[v].run = k
          PROVE  started'[k] >= 2
      BY <1>1, <2>4, <2>5, <2>6, <3>2, <3>4
    <3> QED
      BY <1>2, <3>1, <3>2, <3>3, <3>4 DEF CompletionSound
  <2> QED
    BY <1>2, <2>2, <2>7, <2>8, <2>9, <2>10 DEF DiscoveryInv, AnalysisGrows
<1> QED
  BY <1>5, <1>6, <1>7

\* A worker that quits with another status than completed.
LEMMA EndingMiner ==
    ASSUME LifeTypeOK, DiscoveryInv, AnalysisGrows, NEW w \in Miners, miner[w].pc # "idle",
           NEW status \in {"failed", "cancelled"},
           WriteMinerRun(w, status), WriteRow(w, status, discovery[Row(w)].found),
           Quits(w), UNCHANGED <<queue, request, batch, stale, started>>
    PROVE  LifeTypeOK' /\ DiscoveryInv'
<1>1. status \in Status /\ status \in DiscoveryStatus /\ status # "completed"
  BY DEF Status, DiscoveryStatus
<1>2. LifeTypeOK'
  BY <1>1, MinerWritesRun
<1>3. miner[w].run \in Runs /\ Row(w) = miner[w].run
  BY DEF DiscoveryInv, MinersSound, MinerSound, Row, OwnDiscovery
<1>4. discovery[Row(w)].found \in Found
  BY <1>3 DEF DiscoveryInv, DiscoveryTypeOK, DiscoveryRun
<1>5. /\ discovery' \in [Runs -> DiscoveryRun]
      /\ \A k \in Runs : k # miner[w].run => discovery'[k] = discovery[k]
      /\ discovery'[miner[w].run].found = discovery[miner[w].run].found
      /\ discovery'[miner[w].run].status \in {status, discovery[miner[w].run].status}
  BY <1>1, <1>3, <1>4, MinerWritesRow
<1>6. IdleMiner \in Miner /\ ~ IsMining(IdleMiner)
      /\ MinerSound(IdleMiner, analysed', started)
  BY DEF IdleMiner, Miner, IsMining, Status, DiscoveryStatus, MinerSound
<1>7. Turns(w, IdleMiner)
  BY DEF Quits
<1>8. \A k \in Runs : discovery'[k].status = "completed" =>
         discovery[k].status = "completed" /\ discovery'[k].found = discovery[k].found
  BY <1>1, <1>5
<1> QED
  BY <1>2, <1>5, <1>6, <1>7, <1>8, MinerGoesOn

\* A worker that goes on with the run it is mining, writing nothing else.
LEMMA MiningMiner ==
    ASSUME LifeTypeOK, DiscoveryInv, AnalysisGrows, NEW w \in Miners, IsMining(miner[w]),
           WriteMinerRun(w, miner[w].was),
           NEW m \in Miner, m.run = miner[w].run, MinerSound(m, analysed', started), Turns(w, m),
           UNCHANGED <<queue, request, batch, stale, started, discovery>>
    PROVE  LifeTypeOK' /\ DiscoveryInv'
<1>1. miner[w].was \in Status /\ miner[w].pc # "idle"
  BY DEF IsMining, DiscoveryInv, DiscoveryTypeOK, Miner
<1>2. LifeTypeOK'
  BY <1>1, MinerWritesRun
<1>3. discovery' \in [Runs -> DiscoveryRun]
  BY DEF DiscoveryInv, DiscoveryTypeOK
<1> QED
  BY <1>2, <1>3, MinerGoesOn

LEMMA LoadKeeps ==
    ASSUME LifeTypeOK, DiscoveryInv, NEW w \in Miners, MinerLoads(w)
    PROVE  LifeTypeOK' /\ DiscoveryInv'
<1> DEFINE n == miner[w].run
           known == {j \in Jobs : analysed[j] > 0}
           m == [miner[w] EXCEPT !.pc = "map", !.known = known]
<1>1. miner[w].pc = "load" /\ n \in Runs /\ miner[w].pos = 0 /\ started[n] >= 1
  BY DEF MinerLoads, DiscoveryInv, MinersSound, MinerSound, IsMining
<1>2. LifeTypeOK'
  <2>1. run[n] \in Run
    BY <1>1 DEF LifeTypeOK
  <2>2. [run[n] EXCEPT !.total = 1, !.silent = FALSE] \in Run
    <3>1. \A q \in Run : [q EXCEPT !.total = 1] \in Run
      BY DEF Run
    <3>2. \A q \in Run : [q EXCEPT !.silent = FALSE] \in Run
      BY DEF Run
    <3> QED
      BY <2>1, <3>1, <3>2
  <2>3. run' = [run EXCEPT ![n] = [run[n] EXCEPT !.total = 1, !.silent = FALSE]]
    BY DEF MinerLoads
  <2>4. run' \in [Runs -> Run]
    BY <2>2, <2>3 DEF LifeTypeOK
  <2> QED
    BY <2>4 DEF MinerLoads, LifeTypeOK
<1>3. AnalysisGrows /\ UNCHANGED <<analysed, started>>
  BY AnalysisStays DEF MinerLoads
<1>4. \A j \in known : analysed[j] = 1
  BY DEF DiscoveryInv, DiscoveryTypeOK, AnalysedOnce
<1>5. /\ m \in Miner /\ m.pc = "map" /\ m.run = n /\ m.pos = 0 /\ m.known = known
      /\ Turns(w, m)
  BY <1>1 DEF MinerLoads, DiscoveryInv, DiscoveryTypeOK, Miner
<1> HIDE DEF m, known
<1>6. MinerSound(m, analysed', started) /\ IsMining(m) /\ IsMining(miner[w])
  BY <1>1, <1>3, <1>4, <1>5 DEF MinerSound, IsMining
<1>7. discovery' = [discovery EXCEPT ![n].found = "none"]
  BY DEF MinerLoads, Row, OwnDiscovery
<1>8. discovery' \in [Runs -> DiscoveryRun]
  <2>1. discovery[n] \in DiscoveryRun
    BY <1>1 DEF DiscoveryInv, DiscoveryTypeOK
  <2>2. [discovery[n] EXCEPT !.found = "none"] \in DiscoveryRun
    BY <2>1 DEF DiscoveryRun, Found
  <2> QED
    BY <1>7, <2>2 DEF DiscoveryInv, DiscoveryTypeOK
<1>9. \A k \in Runs : /\ discovery'[k].status = discovery[k].status
                      /\ k # n => discovery'[k].found = discovery[k].found
  BY <1>7 DEF DiscoveryInv, DiscoveryTypeOK, DiscoveryRun
<1> QED
  BY <1>1, <1>2, <1>3, <1>5, <1>6, <1>8, <1>9, MinerGoesOn

\* The postings a worker analyses next, and what it then knows to be analysed.
LEMMA UnknownJobs ==
    ASSUME DiscoveryInv, NEW w \in Miners, NEW k \in Nat, miner[w].pos + k <= JobCount
    PROVE  /\ Unknown(w, k) \subseteq Jobs
           /\ \A j \in miner[w].pos + 1 .. miner[w].pos + k :
                 j \in Unknown(w, k) \/ j \in miner[w].known
<1>1. miner[w].pos \in Nat
  BY DEF DiscoveryInv, DiscoveryTypeOK, Miner
<1> QED
  BY <1>1, DiscoveryConstants DEF Unknown, Jobs

LEMMA MapKeeps ==
    ASSUME LifeTypeOK, DiscoveryInv, NEW w \in Miners, MapChunk(w) \/ MapRest(w)
    PROVE  LifeTypeOK' /\ DiscoveryInv'
<1>1. /\ miner[w].pc = "map" /\ miner[w].pos \in Nat /\ miner[w].run \in Runs
      /\ miner[w].known \subseteq Jobs /\ started[miner[w].run] >= 1
      /\ \A j \in miner[w].known : analysed[j] = 1
      /\ \A j \in 1 .. miner[w].pos : j \in Jobs /\ analysed[j] = 1
  BY DEF MapChunk, MapRest, DiscoveryInv, DiscoveryTypeOK, Miner, MinersSound, MinerSound,
         IsMining
<1>2. miner[w].pos <= JobCount
  <2>1. CASE miner[w].pos = 0
    BY <2>1, DiscoveryConstants
  <2>2. CASE miner[w].pos # 0
    BY <1>1, <2>2, DiscoveryConstants DEF Jobs
  <2> QED
    BY <2>1, <2>2
<1>3. ASSUME NEW k \in Nat, miner[w].pos + k <= JobCount, NEW pc \in {"map", "mapped"},
             pc = "mapped" => miner[w].pos + k = JobCount,
             ~ AlreadyAnalysed(Unknown(w, k)), Analyse(Unknown(w, k)),
             WriteMinerRun(w, miner[w].was),
             Turns(w, [miner[w] EXCEPT !.pc = pc, !.pos = miner[w].pos + k]),
             UNCHANGED <<queue, request, batch, stale, started, discovery>>
      PROVE  LifeTypeOK' /\ DiscoveryInv'
  <2> DEFINE m == [miner[w] EXCEPT !.pc = pc, !.pos = miner[w].pos + k]
  <2>1. AnalysisGrows /\ \A j \in Unknown(w, k) : analysed'[j] = 1
    BY <1>3, AnalyseGrows, UnknownJobs
  <2>2. /\ m \in Miner /\ m.run = miner[w].run /\ m.known = miner[w].known
        /\ m.pos = miner[w].pos + k /\ m.pc = pc
    <3>1. \A q \in Miner, pos \in Nat :
             LET t == [q EXCEPT !.pc = pc, !.pos = pos]
             IN  t \in Miner /\ t.run = q.run /\ t.known = q.known /\ t.pos = pos /\ t.pc = pc
      BY DEF Miner
    <3>2. miner[w] \in Miner /\ miner[w].pos + k \in Nat
      BY <1>1 DEF DiscoveryInv, DiscoveryTypeOK
    <3> QED
      BY <3>1, <3>2
  <2> HIDE DEF m
  <2>3. \A j \in miner[w].known : analysed'[j] = 1
    BY <1>1, <2>1 DEF AnalysisGrows
  <2>4. \A j \in 1 .. miner[w].pos + k : j \in Jobs /\ analysed'[j] = 1
    <3> SUFFICES ASSUME NEW j \in 1 .. miner[w].pos + k PROVE j \in Jobs /\ analysed'[j] = 1
      OBVIOUS
    <3>1. CASE j <= miner[w].pos
      BY <1>1, <2>1, <3>1 DEF AnalysisGrows
    <3>2. CASE j > miner[w].pos
      <4>1. j \in miner[w].pos + 1 .. miner[w].pos + k
        BY <1>1, <3>2
      <4>2. j \in Unknown(w, k) \/ j \in miner[w].known
        BY <1>3, <4>1, UnknownJobs
      <4>3. j \in Jobs
        BY <1>1, <1>3, DiscoveryConstants DEF Jobs
      <4> QED
        BY <2>1, <2>3, <4>2, <4>3
    <3> QED
      BY <1>1, <3>1, <3>2
  <2>5. MinerSound(m, analysed', started)
    BY <1>1, <1>3, <2>2, <2>3, <2>4 DEF MinerSound, IsMining, Jobs
  <2>6. IsMining(miner[w]) /\ Turns(w, m)
    BY <1>1, <1>3 DEF IsMining, m
  <2> QED
    BY <1>3, <2>1, <2>2, <2>5, <2>6, MiningMiner
<1>4. ASSUME Quits(w), UNCHANGED <<run, analysed, queue, request, batch, stale, discovery, started>>
      PROVE  LifeTypeOK' /\ DiscoveryInv'
  BY <1>4, AnalysisStays, MinerQuits DEF LifeTypeOK
<1>5. CASE MapChunk(w)
  <2>1. DiscoveryChunk \in Nat /\ miner[w].pos + DiscoveryChunk <= JobCount
    BY <1>5, DiscoveryConstants DEF MapChunk
  <2>2. CASE AlreadyAnalysed(Unknown(w, DiscoveryChunk))
    BY <1>4, <1>5, <2>2 DEF MapChunk
  <2>3. CASE ~ AlreadyAnalysed(Unknown(w, DiscoveryChunk))
    <3>1. Turns(w, [miner[w] EXCEPT !.pc = "map", !.pos = miner[w].pos + DiscoveryChunk])
      <4>1. miner[w] = [miner[w] EXCEPT !.pc = "map"]
        BY <1>1 DEF DiscoveryInv, DiscoveryTypeOK, Miner
      <4>2. Turns(w, [miner[w] EXCEPT !.pos = miner[w].pos + DiscoveryChunk])
        BY <1>5, <2>3 DEF MapChunk
      <4>3. [miner[w] EXCEPT !.pos = miner[w].pos + DiscoveryChunk]
              = [miner[w] EXCEPT !.pc = "map", !.pos = miner[w].pos + DiscoveryChunk]
        BY <1>1 DEF DiscoveryInv, DiscoveryTypeOK, Miner
      <4> QED
        BY <4>2, <4>3
    <3>2. /\ Analyse(Unknown(w, DiscoveryChunk)) /\ WriteMinerRun(w, miner[w].was)
          /\ UNCHANGED <<queue, request, batch, stale, started, discovery>>
      BY <1>5, <2>3 DEF MapChunk
    <3> QED
      BY <1>3, <2>1, <2>3, <3>1, <3>2
  <2> QED
    BY <2>2, <2>3
<1>6. CASE MapRest(w)
  <2> DEFINE k == JobCount - miner[w].pos
  <2>1. k \in Nat /\ miner[w].pos + k = JobCount
    BY <1>1, <1>2, DiscoveryConstants
  <2>2. CASE AlreadyAnalysed(Unknown(w, k))
    BY <1>4, <1>6, <2>2 DEF MapRest
  <2>3. CASE ~ AlreadyAnalysed(Unknown(w, k))
    <3>1. /\ Analyse(Unknown(w, k)) /\ WriteMinerRun(w, miner[w].was)
          /\ Turns(w, [miner[w] EXCEPT !.pc = "mapped", !.pos = JobCount])
          /\ UNCHANGED <<queue, request, batch, stale, started, discovery>>
      BY <1>6, <2>3 DEF MapRest
    <3> HIDE DEF k
    <3>2. miner[w].pos + k <= JobCount
      BY <2>1, DiscoveryConstants
    <3> QED
      BY <1>3, <2>1, <2>3, <3>1, <3>2
  <2> QED
    BY <2>2, <2>3
<1> QED
  BY <1>5, <1>6

LEMMA CancelKeeps ==
    ASSUME LifeTypeOK, DiscoveryInv, NEW w \in Miners, NEW k \in 0 .. DiscoveryChunk - 1,
           MinerCancels(w, k)
    PROVE  LifeTypeOK' /\ DiscoveryInv'
<1>1. miner[w].pos \in Nat
  BY DEF DiscoveryInv, DiscoveryTypeOK, Miner
<1>2. k \in Nat /\ (miner[w].pos + k <= JobCount \/ k = 0)
  BY <1>1, DiscoveryConstants DEF MinerCancels
<1>3. Unknown(w, k) \subseteq Jobs
  <2>1. CASE k = 0
    BY <1>1, <2>1 DEF Unknown
  <2> QED
    BY <1>2, <2>1, UnknownJobs
<1>4. CASE AlreadyAnalysed(Unknown(w, k))
  BY <1>4, AnalysisStays, MinerQuits DEF MinerCancels, LifeTypeOK
<1>5. CASE ~ AlreadyAnalysed(Unknown(w, k))
  <2>1. Analyse(Unknown(w, k)) /\ WriteMinerRun(w, "cancelled")
        /\ WriteRow(w, "cancelled", discovery[Row(w)].found)
    BY <1>5 DEF MinerCancels
  <2>2. AnalysisGrows
    BY <1>3, <1>5, <2>1, AnalyseGrows
  <2> QED
    BY <2>1, <2>2, EndingMiner DEF MinerCancels
<1> QED
  BY <1>4, <1>5

\* Whoever completes a run leaves it with its candidates.
LEMMA EndKeeps ==
    ASSUME LifeTypeOK, DiscoveryInv, NEW w \in Miners,
           NEW mined \in {"empty", "listed"}, MinerEnds(w, mined)
    PROVE  LifeTypeOK' /\ DiscoveryInv'
<1>1. miner[w].pc = "persist" /\ Row(w) = miner[w].run
  BY DEF MinerEnds, Row, OwnDiscovery
<1>2. AnalysisGrows /\ UNCHANGED <<queue, request, batch, stale, analysed, started>>
  BY AnalysisStays DEF MinerEnds
<1>3. CASE mined = "listed" /\ HasCandidates(Row(w))
  BY <1>2, <1>3, MinerQuits DEF MinerEnds, LifeTypeOK
<1>4. CASE ~ (mined = "listed" /\ HasCandidates(Row(w)))
  <2> DEFINE found == IF HasCandidates(Row(w)) THEN discovery[Row(w)].found ELSE mined
  <2>0. found \in Found /\ found # "none"
    BY DEF Found, HasCandidates
  <2>1. WriteMinerRun(w, "completed") /\ WriteRow(w, "completed", found) /\ Quits(w)
    BY <1>4 DEF MinerEnds
  <2> HIDE DEF found
  <2>2. "completed" \in Status /\ "completed" \in DiscoveryStatus
    BY DEF Status, DiscoveryStatus
  <2>3. LifeTypeOK'
    BY <1>1, <1>2, <2>1, <2>2, MinerWritesRun
  <2>4. /\ miner[w].run \in Runs /\ discovery' \in [Runs -> DiscoveryRun]
        /\ \A k \in Runs : k # miner[w].run => discovery'[k] = discovery[k]
        /\ discovery'[miner[w].run].found = found
    BY <1>1, <2>0, <2>1, <2>2, MinerWritesRow
  <2>5. IdleMiner \in Miner /\ ~ IsMining(IdleMiner)
        /\ MinerSound(IdleMiner, analysed', started)
    BY DEF IdleMiner, Miner, IsMining, Status, DiscoveryStatus, MinerSound
  <2>6. Turns(w, IdleMiner)
    BY <2>1 DEF Quits
  <2>7. IsMining(miner[w]) /\ \A j \in Jobs : analysed'[j] = 1
    BY <1>1, <1>2 DEF IsMining, DiscoveryInv, MinersSound, MinerSound
  <2> QED
    BY <1>2, <2>0, <2>3, <2>4, <2>5, <2>6, <2>7, MinerGoesOn
<1> QED
  BY <1>3, <1>4

\* Nothing else touches the postings or a worker, and what is created or
\* proposed completes nothing.
LEMMA RowsKeep ==
    ASSUME DiscoveryInv, UNCHANGED <<analysed, started, miner>>,
           discovery' \in [Runs -> DiscoveryRun],
           \A n \in Runs : discovery'[n].status = "completed" =>
              /\ discovery[n].status = "completed"
              /\ discovery'[n].found # "none" \/ discovery'[n].found = discovery[n].found
    PROVE  DiscoveryInv'
<1>1. ASSUME NEW n \in Runs PROVE CompletionSound(n)'
  <2>1. CompletionSound(n)
    BY DEF DiscoveryInv
  <2> QED
    BY <2>1 DEF CompletionSound
<1> QED
  BY <1>1 DEF DiscoveryInv, DiscoveryTypeOK, AnalysedOnce, MinersSound, StartsCounted

LEMMA DiscoveryStepKeeps ==
    ASSUME LifeTypeOK, DiscoveryInv, DiscoveryNext
    PROVE  LifeTypeOK' /\ DiscoveryInv'
<1>1. CASE LifeNext /\ UNCHANGED discoveryVars
  BY <1>1, LifeKeeps, DiscoveryStays
<1>2. ASSUME NEW r \in Requests, NEW n \in Runs, CreateDiscovery(r, n)
      PROVE  LifeTypeOK' /\ DiscoveryInv'
  <2>1. LifeTypeOK'
    <3>1. NewRun(r, n, "discover_skill_combinations", NoRun, 0)
      BY <1>2 DEF CreateDiscovery
    <3>2. "discover_skill_combinations" \in RunType \cup {NoRun} /\ NoRun \in Runs \cup {NoRun}
          /\ 0 \in 0 .. 1
      BY DEF RunType
    <3> QED
      BY <3>1, <3>2, NewRunKeeps
  <2>2. /\ discovery' = [discovery EXCEPT ![n].status = "pending"]
        /\ UNCHANGED <<analysed, started, miner>>
    BY <1>2 DEF CreateDiscovery
  <2>3. \A d \in DiscoveryRun : [d EXCEPT !.status = "pending"] \in DiscoveryRun
                                /\ [d EXCEPT !.status = "pending"].status = "pending"
    BY DEF DiscoveryRun, DiscoveryStatus
  <2>4. discovery' \in [Runs -> DiscoveryRun]
        /\ \A k \in Runs : discovery'[k] = discovery[k] \/ discovery'[k].status = "pending"
    BY <2>2, <2>3 DEF DiscoveryInv, DiscoveryTypeOK
  <2> QED
    BY <2>1, <2>2, <2>4, RowsKeep
<1>3. ASSUME NEW r \in Requests, NEW old \in Runs, NEW new \in Runs, RetryRun(r, old, new),
             UNCHANGED discoveryVars
      PROVE  LifeTypeOK' /\ DiscoveryInv'
  BY <1>3, RetryRunKeeps, DiscoveryStays
<1>4. ASSUME NEW n \in Runs, ProposeCandidate(n) PROVE LifeTypeOK' /\ DiscoveryInv'
  <2>1. /\ discovery' = [discovery EXCEPT ![n].found = "proposed"]
        /\ UNCHANGED <<analysed, started, miner>> /\ UNCHANGED lifeVars
    BY <1>4 DEF ProposeCandidate
  <2>2. \A d \in DiscoveryRun : /\ [d EXCEPT !.found = "proposed"] \in DiscoveryRun
                                /\ [d EXCEPT !.found = "proposed"].found = "proposed"
                                /\ [d EXCEPT !.found = "proposed"].status = d.status
    BY DEF DiscoveryRun, Found
  <2>3. /\ discovery' \in [Runs -> DiscoveryRun]
        /\ \A k \in Runs : /\ discovery'[k].status = discovery[k].status
                           /\ \/ discovery'[k].found = discovery[k].found
                              \/ discovery'[k].found = "proposed"
    BY <2>1, <2>2 DEF DiscoveryInv, DiscoveryTypeOK
  <2> QED
    BY <2>1, <2>3, RowsKeep DEF lifeVars, LifeTypeOK
<1>5. ASSUME NEW w \in Miners,
             \/ \E n \in Runs : MinerTake(w, n)
             \/ MinerStart(w) \/ MinerFails(w) \/ MinerLoads(w)
             \/ MapChunk(w) \/ MapRest(w)
             \/ \E k \in 0 .. DiscoveryChunk - 1 : MinerCancels(w, k)
             \/ MinerMines(w)
             \/ \E mined \in {"empty", "listed"} : MinerEnds(w, mined)
             \/ MinerCrash(w)
      PROVE  LifeTypeOK' /\ DiscoveryInv'
  <2>1. CASE MinerFails(w)
    <3>1. AnalysisGrows /\ "failed" \in {"failed", "cancelled"} /\ miner[w].pc # "idle"
      BY <2>1, AnalysisStays DEF MinerFails
    <3> QED
      BY <2>1, <3>1, EndingMiner DEF MinerFails
  <2>2. CASE MinerMines(w)
    <3> DEFINE m == [miner[w] EXCEPT !.pc = "persist"]
    <3>1. AnalysisGrows /\ UNCHANGED <<queue, request, batch, stale, analysed, started, discovery>>
          /\ WriteMinerRun(w, miner[w].was) /\ Turns(w, m)
      BY <2>2, AnalysisStays DEF MinerMines
    <3>2. /\ m \in Miner /\ m.run = miner[w].run /\ m.known = miner[w].known
          /\ m.pc = "persist"
      BY DEF DiscoveryInv, DiscoveryTypeOK, Miner
    <3> HIDE DEF m
    <3>3. MinerSound(miner[w], analysed, started) /\ miner[w].pc = "mapped"
      BY <2>2 DEF MinerMines, DiscoveryInv, MinersSound
    <3>4. MinerSound(m, analysed', started) /\ IsMining(miner[w])
      BY <3>1, <3>2, <3>3 DEF MinerSound, IsMining
    <3> QED
      BY <3>1, <3>2, <3>4, MiningMiner
  <2>3. CASE MinerCrash(w)
    BY <2>3, AnalysisStays, MinerQuits DEF MinerCrash, lifeVars, LifeTypeOK
  <2> QED
    BY <1>5, <2>1, <2>2, <2>3, TakeKeeps, StartKeeps, LoadKeeps, MapKeeps, CancelKeeps, EndKeeps
<1> QED
  BY <1>1, <1>2, <1>3, <1>4, <1>5 DEF DiscoveryNext

-----------------------------------------------------------------------------
(* Import batches.  The argument: rows are only added, one version each    *)
(* time, and the version that was current is the one that ceases to be;    *)
(* the batch and every session's copy of it count rows that are there,     *)
(* column by column, so that a session that writes back only the columns   *)
(* it has changed mixes nothing that is not backed.                        *)

RowsOf(kind) == {i \in RowNos : FileRows[i] = kind}
ImportedRows == {i \in RowNos : raws[i] # <<>>}
ImportedOf(kind) == RowsOf(kind) \cap ImportedRows

RowsSound ==
    /\ OneCurrentVersion
    /\ \A i \in ImportedRows : FileRows[i] # "bad"

\* A copy of the batch counts rows that are there.
CopyBacked(b) ==
    /\ b.accepted <= Cardinality(ImportedOf("ok"))
    /\ b.warnings <= Cardinality(ImportedOf("warn"))
    /\ b.rejected <= Cardinality(RowsOf("bad"))
    /\ b.total \in {0, Len(FileRows)}

BatchSound ==
    /\ CopyBacked(importBatch)
    /\ importBatch.rejected > 0 \/ ImportedRows # {} => importBatch.total = Len(FileRows)
    /\ importBatch.status = "absent" => importBatch.total = 0
    /\ importBatch.status = "processed" => Insertable(RowNos) \subseteq ImportedRows

\* What a worker's row m says of the batch and of its rows.
ImporterSound(m) ==
    /\ m.pc # "idle" => m.run \in Runs
    /\ m.pos <= Len(m.list)
    /\ m.pc \in {"start", "parse"} => m.pos = 0
    /\ CopyBacked(m.mine)
    /\ m.mine.total = Len(FileRows) => importBatch.total = Len(FileRows)
    /\ m.mine.status # "absent" => importBatch.status # "absent"
    /\ m.pc \notin {"idle", "start", "settle"} => m.mine.status # "absent"
    /\ m.pc = "rows" =>
          /\ m.list = [i \in RowNos |-> i]
          /\ importBatch.total = Len(FileRows)
          /\ \A i \in Insertable(1 .. m.pos) : i \in ImportedRows
    /\ m.pc \in {"reopen", "renorm", "version"} =>
          /\ ToSet(m.list) \subseteq ImportedRows
          /\ Cardinality(ToSet(m.list)) = Len(m.list)

ImportsInv ==
    /\ ImportsTypeOK
    /\ RowsSound
    /\ BatchSound
    /\ \A w \in Importers : ImporterSound(importer[w])

-----------------------------------------------------------------------------
(* The rows that are there                                                 *)

LEMMA RowNumbers == Len(FileRows) \in Nat \ {0} /\ RowNos = 1 .. Len(FileRows)
BY ImportConstants DEF RowNos

LEMMA RowsFinite ==
    ASSUME NEW S \in SUBSET RowNos
    PROVE  IsFiniteSet(S) /\ Cardinality(S) \in Nat /\ Cardinality(S) <= Len(FileRows)
<1>1. IsFiniteSet(RowNos) /\ Cardinality(RowNos) = Len(FileRows)
  BY RowNumbers, FS_Interval
<1> QED
  BY <1>1, FS_Subset, FS_CardinalityType

LEMMA SmallerRows ==
    ASSUME NEW S \in SUBSET RowNos, NEW T \in SUBSET S
    PROVE  Cardinality(T) <= Cardinality(S) /\ (Cardinality(T) = Cardinality(S) => T = S)
BY RowsFinite, FS_Subset

LEMMA LeastOf ==
    ASSUME NEW T \in SUBSET Nat, T # {}
    PROVE  \E n \in T : \A m \in T : n <= m
<1>1. \E n \in T : \A m \in T : <<m, n>> \notin OpToRel(<, Nat)
  BY NatLessThanWellFounded, WFMin
<1>2. \A m, n \in Nat : <<m, n>> \notin OpToRel(<, Nat) => n <= m
  BY DEF OpToRel
<1> QED
  BY <1>1, <1>2

\* How many of the rows in T there are up to the n-th.
UpTo(T, n) == Cardinality({j \in T : j <= n})

LEMMA UpToGrows ==
    ASSUME NEW T \in SUBSET RowNos
    PROVE  /\ UpTo(T, 0) = 0
           /\ UpTo(T, Len(FileRows)) = Cardinality(T)
           /\ \A n \in 1 .. Len(FileRows) :
                 UpTo(T, n) = UpTo(T, n - 1) + (IF n \in T THEN 1 ELSE 0)
           /\ \A n \in 0 .. Len(FileRows) : UpTo(T, n) \in Nat
<1>1. Len(FileRows) \in Nat /\ \A j \in T : j \in Nat /\ 1 <= j /\ j <= Len(FileRows)
  <2>1. \A j \in T : j \in 1 .. Len(FileRows)
    BY RowNumbers
  <2> QED
    BY <2>1, RowNumbers
<1>2. {j \in T : j <= 0} = {}
  BY <1>1
<1>3. {j \in T : j <= Len(FileRows)} = T
  BY <1>1
<1>4. ASSUME NEW n \in 1 .. Len(FileRows)
      PROVE  UpTo(T, n) = UpTo(T, n - 1) + (IF n \in T THEN 1 ELSE 0)
  <2> DEFINE U == {j \in T : j <= n - 1}
  <2>1. U \in SUBSET RowNos /\ n \notin U
    BY <1>1
  <2>2. IsFiniteSet(U) /\ Cardinality(U) \in Nat
    BY <2>1, RowsFinite
  <2>3. UpTo(T, n - 1) = Cardinality(U)
    BY DEF UpTo
  <2>4. CASE n \in T
    <3>1. {j \in T : j <= n} = U \cup {n}
      <4>1. n \in Nat /\ \A j \in T : j <= n <=> j <= n - 1 \/ j = n
        BY <1>1
      <4> QED
        BY <2>4, <4>1
    <3>2. UpTo(T, n) = Cardinality(U \cup {n})
      BY <3>1 DEF UpTo
    <3> HIDE DEF U
    <3> QED
      BY <2>1, <2>2, <2>3, <2>4, <3>2, FS_AddElement
  <2>5. CASE n \notin T
    <3>1. {j \in T : j <= n} = U
      BY <1>1, <2>5
    <3>2. UpTo(T, n) = Cardinality(U)
      BY <3>1 DEF UpTo
    <3> QED
      BY <2>2, <2>3, <2>5, <3>2
  <2> QED
    BY <2>4, <2>5
<1>5. ASSUME NEW n \in 0 .. Len(FileRows) PROVE UpTo(T, n) \in Nat
  BY RowsFinite DEF UpTo
<1> QED
  BY <1>2, <1>3, <1>4, <1>5, FS_EmptySet DEF UpTo

LEMMA KthRow ==
    ASSUME NEW T \in SUBSET RowNos, NEW k \in 1 .. Cardinality(T)
    PROVE  \E i \in T : UpTo(T, i) = k
<1> DEFINE N == Len(FileRows)
           S == {n \in 0 .. N : UpTo(T, n) >= k}
<1>1. N \in Nat /\ Cardinality(T) \in Nat
  BY RowNumbers, RowsFinite
<1>2. N \in S
  BY <1>1, UpToGrows
<1>3. PICK n \in S : \A m \in S : n <= m
  <2>1. S \in SUBSET Nat /\ S # {}
    BY <1>2
  <2> HIDE DEF S
  <2> QED
    BY <2>1, LeastOf
<1>4. n # 0
  <2>1. UpTo(T, 0) = 0
    BY UpToGrows
  <2>2. UpTo(T, n) >= k
    BY <1>3
  <2> QED
    BY <1>1, <2>1, <2>2
<1>5. n \in 1 .. N /\ n - 1 \in 0 .. N /\ n - 1 \notin S
  BY <1>1, <1>3, <1>4
<1>6. UpTo(T, n - 1) < k /\ UpTo(T, n - 1) \in Nat /\ UpTo(T, n) >= k
  BY <1>3, <1>5, UpToGrows
<1>7. UpTo(T, n) = UpTo(T, n - 1) + (IF n \in T THEN 1 ELSE 0)
  BY <1>5, UpToGrows
<1>8. n \in T /\ UpTo(T, n) = k
  BY <1>6, <1>7
<1> QED
  BY <1>8

LEMMA RowsApart ==
    ASSUME NEW T \in SUBSET RowNos, NEW i \in T, NEW j \in T, UpTo(T, i) = UpTo(T, j)
    PROVE  i = j
<1>1. ASSUME NEW a \in T, NEW b \in T, a < b PROVE UpTo(T, a) # UpTo(T, b)
  <2> DEFINE A == {n \in T : n <= a}
             B == {n \in T : n <= b}
  <2>1. \A n \in T : n \in 1 .. Len(FileRows) /\ n \in Nat
    BY RowNumbers
  <2>2. A \in SUBSET B /\ B \in SUBSET RowNos
    BY <1>1, <2>1
  <2>3. b \in B /\ b \notin A
    BY <1>1, <2>1
  <2> QED
    BY <2>2, <2>3, SmallerRows DEF UpTo
<1>2. i \in Nat /\ j \in Nat
  BY RowNumbers
<1> QED
  BY <1>1, <1>2

\* Reprocessing goes through every imported row once.
LEMMA PresentRows ==
    /\ Present \in Seq(RowNos)
    /\ ToSet(Present) = ImportedRows
    /\ Len(Present) = Cardinality(ImportedRows)
<1> DEFINE T == ImportedRows
           n == Cardinality(T)
           row(k) == CHOOSE i \in T : UpTo(T, i) = k
<1>1. T \in SUBSET RowNos /\ n \in Nat
  BY RowsFinite DEF ImportedRows
<1>2. Present = [k \in 1 .. n |-> row(k)]
  BY DEF Present, ImportedRows, UpTo
<1>3. \A k \in 1 .. n : row(k) \in T /\ UpTo(T, row(k)) = k
  BY <1>1, KthRow
<1>4. \A i \in T : UpTo(T, i) \in 1 .. n
  <2> SUFFICES ASSUME NEW i \in T PROVE UpTo(T, i) \in 1 .. n
    OBVIOUS
  <2> DEFINE U == {j \in T : j <= i}
  <2>1. U \in SUBSET T /\ i \in U
    BY <1>1, RowNumbers
  <2>2. Cardinality(U) <= n /\ Cardinality(U) \in Nat /\ IsFiniteSet(U)
    BY <1>1, <2>1, SmallerRows, RowsFinite
  <2>3. Cardinality(U) # 0
    BY <2>1, <2>2, FS_EmptySet
  <2> QED
    BY <1>1, <2>2, <2>3 DEF UpTo
<1>5. \A i \in T : row(UpTo(T, i)) = i
  BY <1>1, <1>3, <1>4, RowsApart
<1> HIDE DEF T, n, row
<1>6. Present \in Seq(RowNos) /\ Len(Present) = n
  BY <1>1, <1>2, <1>3
<1>7. DOMAIN Present = 1 .. n
  BY <1>2
<1>8. \A i \in T : Present[UpTo(T, i)] = i
  BY <1>2, <1>4, <1>5
<1>9. ToSet(Present) = T
  <2>1. \A x \in ToSet(Present) : x \in T
    BY <1>2, <1>3, <1>7 DEF ToSet
  <2>2. \A x \in T : x \in ToSet(Present)
    BY <1>4, <1>7, <1>8 DEF ToSet
  <2> QED
    BY <2>1, <2>2
<1> QED
  BY <1>6, <1>9 DEF T, n

-----------------------------------------------------------------------------
(* What is written of the rows                                             *)

\* What a step leaves of the rows: they are sound, and none goes away.
RowsGrow ==
    /\ raws' \in [RowNos -> Seq(BOOLEAN)]
    /\ RowsSound'
    /\ ImportedRows \subseteq ImportedRows'

LEMMA RowsStay == ImportsInv /\ UNCHANGED raws => RowsGrow
BY DEF ImportsInv, ImportsTypeOK, RowsGrow, RowsSound, OneCurrentVersion, ImportedRows

\* More rows back what fewer rows backed.
LEMMA StillBacked ==
    ASSUME RowsGrow, NEW b \in ImportBatch, CopyBacked(b)
    PROVE  CopyBacked(b)'
<1>1. \A kind : /\ ImportedOf(kind)' \in SUBSET RowNos
                /\ ImportedOf(kind) \in SUBSET ImportedOf(kind)'
  BY DEF ImportedOf, RowsOf, ImportedRows, RowsGrow
<1>2. \A kind : /\ Cardinality(ImportedOf(kind)) <= Cardinality(ImportedOf(kind)')
                /\ Cardinality(ImportedOf(kind)) \in Nat
                /\ Cardinality(ImportedOf(kind)') \in Nat
  <2> SUFFICES ASSUME NEW kind
               PROVE  /\ Cardinality(ImportedOf(kind)) <= Cardinality(ImportedOf(kind)')
                      /\ Cardinality(ImportedOf(kind)) \in Nat
                      /\ Cardinality(ImportedOf(kind)') \in Nat
    OBVIOUS
  <2>1. ImportedOf(kind) \in SUBSET RowNos
    BY DEF ImportedOf, RowsOf
  <2> QED
    BY <1>1, <2>1, SmallerRows, RowsFinite
<1>3. b.accepted \in Nat /\ b.warnings \in Nat
  BY DEF ImportBatch
<1>4. RowsOf("bad")' = RowsOf("bad")
  BY DEF RowsOf
<1> QED
  BY <1>2, <1>3, <1>4 DEF CopyBacked

\* The version that is current is the latest one.
LEMMA CurrentIsLast ==
    ASSUME ImportsInv, NEW i \in RowNos
    PROVE  CurrentVersion(i) = Len(raws[i])
<1>1. raws[i] \in Seq(BOOLEAN) /\ \A v \in DOMAIN raws[i] : raws[i][v] <=> v = Len(raws[i])
  BY DEF ImportsInv, ImportsTypeOK, RowsSound, OneCurrentVersion
<1> DEFINE n == Len(raws[i])
<1>2. n \in Nat /\ DOMAIN raws[i] = 1 .. n
  BY <1>1
<1>3. CASE n = 0
  BY <1>2, <1>3 DEF CurrentVersion
<1>4. CASE n # 0
  <2>1. {v \in DOMAIN raws[i] : raws[i][v]} = {n} /\ \E v \in DOMAIN raws[i] : raws[i][v]
    BY <1>1, <1>2, <1>4
  <2>2. Max({n}) = n
    BY <1>2 DEF Max
  <2> QED
    BY <2>1, <2>2 DEF CurrentVersion
<1> QED
  BY <1>3, <1>4

\* A row that becomes current once more.
LEMMA AppendedRow ==
    ASSUME NEW s \in Seq(BOOLEAN)
    PROVE  LET t == Append(s, TRUE)
           IN  /\ t \in Seq(BOOLEAN) /\ t # <<>>
               /\ (\A v \in DOMAIN s : ~ s[v]) => \A v \in DOMAIN t : t[v] <=> v = Len(t)
<1> DEFINE t == Append(s, TRUE)
<1>1. /\ t \in Seq(BOOLEAN) /\ Len(t) = Len(s) + 1 /\ Len(s) \in Nat
      /\ DOMAIN t = 1 .. Len(s) + 1 /\ DOMAIN s = 1 .. Len(s)
  OBVIOUS
<1>2. t[Len(s) + 1] = TRUE /\ \A v \in 1 .. Len(s) : t[v] = s[v]
  OBVIOUS
<1>3. t # <<>>
  <2> HIDE DEF t
  <2>1. Len(t) # 0 /\ Len(<<>>) = 0
    BY <1>1
  <2> QED
    BY <2>1
<1>4. ASSUME \A v \in DOMAIN s : ~ s[v], NEW v \in DOMAIN t PROVE t[v] <=> v = Len(t)
  <2>1. CASE v = Len(s) + 1
    BY <1>1, <1>2, <2>1
  <2>2. CASE v # Len(s) + 1
    <3>1. v \in 1 .. Len(s) /\ v # Len(t)
      BY <1>1, <1>4, <2>2
    <3>2. t[v] = s[v] /\ ~ s[v]
      BY <1>1, <1>2, <1>4, <3>1
    <3> QED
      BY <3>1, <3>2
  <2> QED
    BY <2>1, <2>2
<1> QED
  BY <1>1, <1>3, <1>4

\* uq_raw_job_batch_row: rows are imported once.
LEMMA InsertKeeps ==
    ASSUME ImportsInv, NEW is, ~ Collides(is), InsertRows(is)
    PROVE  /\ RowsGrow
           /\ \A i \in RowNos \cap Insertable(is) : i \in ImportedRows'
<1>1. \A i \in RowNos : raws[i] \in Seq(BOOLEAN)
  BY DEF ImportsInv, ImportsTypeOK
<1>2. \A i \in RowNos : raws'[i] = IF i \in Insertable(is) THEN Append(raws[i], TRUE)
                                                           ELSE raws[i]
  BY DEF InsertRows
<1>3. ASSUME NEW i \in RowNos, i \in Insertable(is)
      PROVE  /\ raws'[i] \in Seq(BOOLEAN) /\ raws'[i] # <<>>
             /\ \A v \in DOMAIN raws'[i] : raws'[i][v] <=> v = Len(raws'[i])
  <2>1. raws[i] = <<>>
    BY <1>3 DEF Collides
  <2>2. \A v \in DOMAIN raws[i] : ~ raws[i][v]
    BY <2>1
  <2> QED
    BY <1>1, <1>2, <1>3, <2>2, AppendedRow
<1>4. raws' \in [RowNos -> Seq(BOOLEAN)]
  BY <1>1, <1>2, <1>3 DEF InsertRows
<1>5. OneCurrentVersion'
  BY <1>2, <1>3 DEF ImportsInv, RowsSound, OneCurrentVersion
<1>6. /\ ImportedRows \subseteq ImportedRows'
      /\ \A i \in RowNos \cap Insertable(is) : i \in ImportedRows'
  BY <1>2, <1>3 DEF ImportedRows
<1>7. \A i \in ImportedRows' : FileRows[i] # "bad"
  BY <1>2 DEF ImportedRows, ImportsInv, RowsSound, Insertable
<1> QED
  BY <1>4, <1>5, <1>6, <1>7 DEF RowsGrow, RowsSound

\* uq_normalized_job_current: the version that is read is the latest one, or
\* the worker dies of it.
LEMMA RenormKeeps ==
    ASSUME ImportsInv, NEW w \in Importers, NEW is \in SUBSET ImportedRows,
           ~ Overtaken(w, is), Renormalized(w, is)
    PROVE  RowsGrow
<1> DEFINE old(i) == IF i = FirstRow(w) THEN importer[w].mark ELSE CurrentVersion(i)
           left(i) == [u \in DOMAIN raws[i] |-> raws[i][u] /\ u # old(i)]
<1>1. \A i \in RowNos : raws'[i] = IF i \notin is THEN raws[i] ELSE Append(left(i), TRUE)
  BY DEF Renormalized
<1>2. ASSUME NEW i \in is
      PROVE  /\ i \in RowNos
             /\ raws'[i] \in Seq(BOOLEAN) /\ raws'[i] # <<>>
             /\ \A v \in DOMAIN raws'[i] : raws'[i][v] <=> v = Len(raws'[i])
  <2>1. i \in RowNos /\ raws[i] # <<>> /\ raws[i] \in Seq(BOOLEAN)
    BY DEF ImportedRows, ImportsInv, ImportsTypeOK
  <2>2. CurrentVersion(i) = Len(raws[i]) /\ Len(raws[i]) # 0
    BY <2>1, CurrentIsLast
  <2>3. old(i) = Len(raws[i])
    BY <2>2 DEF Overtaken
  <2>4. \A u \in DOMAIN raws[i] : raws[i][u] <=> u = Len(raws[i])
    BY <2>1 DEF ImportsInv, RowsSound, OneCurrentVersion
  <2>5. /\ left(i) \in Seq(BOOLEAN) /\ DOMAIN left(i) = DOMAIN raws[i]
        /\ \A u \in DOMAIN left(i) : ~ left(i)[u]
    <3>1. DOMAIN raws[i] = 1 .. Len(raws[i]) /\ Len(raws[i]) \in Nat
      BY <2>1
    <3>2. \A u \in DOMAIN left(i) : left(i)[u] = FALSE
      BY <2>3, <2>4
    <3>3. left(i) \in Seq(BOOLEAN)
      BY <3>1
    <3> QED
      BY <3>2, <3>3
  <2>6. raws'[i] = Append(left(i), TRUE)
    BY <1>1, <2>1
  <2> HIDE DEF left
  <2> QED
    BY <2>1, <2>5, <2>6, AppendedRow
<1>3. raws' \in [RowNos -> Seq(BOOLEAN)]
  BY <1>1, <1>2 DEF Renormalized, ImportsInv, ImportsTypeOK
<1>4. OneCurrentVersion'
  BY <1>1, <1>2 DEF ImportsInv, RowsSound, OneCurrentVersion
<1>5. ImportedRows' = ImportedRows
  BY <1>1, <1>2 DEF ImportedRows
<1> QED
  BY <1>3, <1>4, <1>5 DEF RowsGrow, RowsSound, ImportsInv

-----------------------------------------------------------------------------
(* What is written of the batch                                            *)

\* What a step leaves of the batch: it is sound, stays created, and knows how
\* many rows there are once it does.
BatchGrows ==
    /\ importBatch' \in ImportBatch
    /\ BatchSound'
    /\ importBatch.total = Len(FileRows) => importBatch'.total = Len(FileRows)
    /\ importBatch.status # "absent" => importBatch'.status # "absent"

LEMMA BatchStays ==
    ASSUME ImportsInv, RowsGrow, UNCHANGED importBatch,
           ImportedRows' = ImportedRows \/ importBatch.total = Len(FileRows)
    PROVE  BatchGrows
<1>1. importBatch \in ImportBatch /\ BatchSound
  BY DEF ImportsInv, ImportsTypeOK
<1>2. CopyBacked(importBatch)'
  <2>1. PICK b \in ImportBatch : b = importBatch
    BY <1>1
  <2>2. CopyBacked(b)'
    BY <1>1, <2>1, StillBacked DEF BatchSound
  <2> QED
    BY <2>1, <2>2 DEF CopyBacked
<1>3. Insertable(RowNos)' = Insertable(RowNos) /\ ImportedRows \subseteq ImportedRows'
  BY DEF Insertable, RowsGrow
<1> QED
  BY <1>1, <1>2, <1>3 DEF BatchSound, BatchGrows

\* What is sound of a worker's row stays sound.
LEMMA SoundStays ==
    ASSUME RowsGrow, BatchGrows, NEW m \in Importer, ImporterSound(m)
    PROVE  ImporterSound(m)'
<1>1. m.mine \in ImportBatch
  BY DEF Importer
<1>2. CopyBacked(m.mine)'
  BY <1>1, StillBacked DEF ImporterSound
<1>3. \A i : (i \in Insertable(1 .. m.pos))' => i \in Insertable(1 .. m.pos)
  BY DEF Insertable
<1> QED
  BY <1>2, <1>3 DEF ImporterSound, RowsGrow, BatchGrows

\* A worker's step.
LEMMA ImporterMoves ==
    ASSUME ImportsInv, RowsGrow, BatchGrows,
           NEW w \in Importers, NEW m \in Importer, Becomes(w, m), ImporterSound(m)'
    PROVE  ImportsInv'
<1>1. \A v \in Importers : importer'[v] = IF v = w THEN m ELSE importer[v]
  BY DEF Becomes, ImportsInv, ImportsTypeOK
<1>2. ImportsTypeOK'
  BY DEF Becomes, ImportsInv, ImportsTypeOK, RowsGrow, BatchGrows
<1>3. ASSUME NEW v \in Importers PROVE ImporterSound(importer[v])'
  <2>1. PICK x \in Importer : x = importer'[v]
    BY <1>2 DEF ImportsTypeOK
  <2>2. ImporterSound(x)'
    <3>1. CASE v = w
      BY <1>1, <2>1, <3>1
    <3>2. CASE v # w
      <4>1. x = importer[v]
        BY <1>1, <2>1, <3>2
      <4>2. ImporterSound(x)
        BY <4>1 DEF ImportsInv
      <4> QED
        BY <4>2, SoundStays
    <3> QED
      BY <3>1, <3>2
  <2> QED
    BY <2>1, <2>2 DEF ImporterSound, CopyBacked
<1> QED
  BY <1>2, <1>3 DEF ImportsInv, RowsGrow, BatchGrows

\* A worker's row that says nothing.
LEMMA IdleIsSound ==
    ASSUME RowsGrow
    PROVE  IdleImporter \in Importer /\ ImporterSound(IdleImporter)'
<1>1. AbsentBatch \in ImportBatch /\ <<>> \in Seq(RowNos)
  BY DEF AbsentBatch, ImportBatch, BatchStatus
<1>2. IdleImporter \in Importer
  BY <1>1 DEF IdleImporter, Importer, Status
<1>3. \A kind : Cardinality(ImportedOf(kind)') \in Nat /\ Cardinality(RowsOf(kind)') \in Nat
  <2>1. \A kind : ImportedOf(kind)' \in SUBSET RowNos /\ RowsOf(kind)' \in SUBSET RowNos
    BY DEF ImportedOf, RowsOf
  <2> QED
    BY <2>1, RowsFinite
<1>4. Len(FileRows) # 0
  BY RowNumbers
<1> QED
  BY <1>2, <1>3, <1>4 DEF ImporterSound, CopyBacked, IdleImporter, AbsentBatch

\* A session writes back the columns it has changed.
LEMMA FlushKeeps ==
    ASSUME ImportsInv, RowsGrow, NEW w \in Importers, NEW new \in ImportBatch, Flush(w, new),
           CopyBacked(new)',
           new.total \in {importer[w].mine.total, Len(FileRows)},
           \/ importBatch.total = Len(FileRows)
           \/ ImportedRows' = ImportedRows /\ new.rejected = importer[w].mine.rejected,
           \/ new.status = importer[w].mine.status /\ importBatch.status # "absent"
           \/ /\ new.status \notin {"absent", importer[w].mine.status}
              /\ new.status = "processed" => Insertable(RowNos) \subseteq ImportedRows'
           \/ /\ importBatch.status # "absent" /\ new.status # "absent"
              /\ new.status = "processed" => Insertable(RowNos) \subseteq ImportedRows'
    PROVE  /\ BatchGrows /\ importBatch'.status # "absent"
           /\ new.total = Len(FileRows) => importBatch'.total = Len(FileRows)
<1> DEFINE mine == importer[w].mine
<1>1. importBatch \in ImportBatch /\ mine \in ImportBatch /\ BatchSound
      /\ ImporterSound(importer[w])
  BY DEF ImportsInv, ImportsTypeOK, Importer
<1>2. /\ importBatch'.status = IF new.status = mine.status THEN importBatch.status ELSE new.status
      /\ importBatch'.total = IF new.total = mine.total THEN importBatch.total ELSE new.total
      /\ importBatch'.accepted = IF new.accepted = mine.accepted THEN importBatch.accepted
                                                                 ELSE new.accepted
      /\ importBatch'.rejected = IF new.rejected = mine.rejected THEN importBatch.rejected
                                                                 ELSE new.rejected
      /\ importBatch'.warnings = IF new.warnings = mine.warnings THEN importBatch.warnings
                                                                 ELSE new.warnings
      /\ importBatch' \in ImportBatch
  BY <1>1 DEF Flush, ImportBatch
<1>3. CopyBacked(importBatch)'
  <2>1. PICK b \in ImportBatch : b = importBatch
    BY <1>1
  <2>2. CopyBacked(b)'
    BY <1>1, <2>1, StillBacked DEF BatchSound
  <2> QED
    BY <1>2, <2>1, <2>2 DEF CopyBacked
<1>4. /\ mine.total = Len(FileRows) => importBatch.total = Len(FileRows)
      /\ importBatch.total = Len(FileRows) => importBatch'.total = Len(FileRows)
      /\ new.total = Len(FileRows) => importBatch'.total = Len(FileRows)
  <2>1. mine.total = Len(FileRows) => importBatch.total = Len(FileRows)
    BY <1>1 DEF ImporterSound
  <2> QED
    BY <1>2, <2>1
<1>5. importBatch'.status # "absent"
  BY <1>1, <1>2 DEF ImporterSound
<1>6. importBatch'.rejected > 0 \/ ImportedRows' # {} => importBatch'.total = Len(FileRows)
  BY <1>1, <1>2, <1>4 DEF BatchSound
<1>7. importBatch'.status = "processed" => Insertable(RowNos) \subseteq ImportedRows'
  BY <1>1, <1>2 DEF BatchSound, RowsGrow
<1>8. Insertable(RowNos)' = Insertable(RowNos)
  BY DEF Insertable
<1> QED
  BY <1>2, <1>3, <1>4, <1>5, <1>6, <1>7, <1>8 DEF BatchGrows, BatchSound

\* Rows are counted up to where they are imported.
LEMMA CountedRows ==
    ASSUME RowsGrow, NEW b \in ImportBatch, b.total \in {0, Len(FileRows)},
           NEW pos \in 0 .. Len(FileRows),
           \A i \in 1 .. pos : FileRows[i] # "bad" => i \in ImportedRows'
    PROVE  LET c == Counted(b, pos)
           IN  c \in ImportBatch /\ CopyBacked(c)' /\ c.total = b.total /\ c.status = b.status
<1> DEFINE Of(kind) == Cardinality({i \in 1 .. pos : FileRows[i] = kind})
<1>1. ASSUME NEW kind
      PROVE  /\ Of(kind) \in Nat
             /\ kind # "bad" => Of(kind) <= Cardinality(ImportedOf(kind)')
             /\ Of(kind) <= Cardinality(RowsOf(kind)')
  <2> DEFINE U == {i \in 1 .. pos : FileRows[i] = kind}
  <2>1. /\ U \in SUBSET RowsOf(kind) /\ RowsOf(kind) \in SUBSET RowNos
        /\ RowsOf(kind)' = RowsOf(kind)
    BY RowNumbers DEF RowsOf
  <2>2. kind # "bad" => U \in SUBSET ImportedOf(kind)'
    BY <2>1 DEF ImportedOf, RowsOf
  <2>3. ImportedOf(kind)' \in SUBSET RowNos
    BY DEF ImportedOf, RowsOf
  <2> QED
    BY <2>1, <2>2, <2>3, SmallerRows, RowsFinite
<1>2. /\ Of("ok") \in Nat /\ Of("bad") \in Nat /\ Of("warn") \in Nat
      /\ Of("ok") <= Cardinality(ImportedOf("ok")')
      /\ Of("warn") <= Cardinality(ImportedOf("warn")')
      /\ Of("bad") <= Cardinality(RowsOf("bad")')
  BY <1>1
<1>3. Counted(b, pos) = [b EXCEPT !.accepted = Of("ok"), !.rejected = Of("bad"),
                                  !.warnings = Of("warn")]
  BY DEF Counted
<1> HIDE DEF Of
<1>4. PICK x \in Nat, y \in Nat, z \in Nat : x = Of("ok") /\ y = Of("bad") /\ z = Of("warn")
  BY <1>2
<1>5. PICK c : c = Counted(b, pos)
  OBVIOUS
<1>6. /\ c \in ImportBatch /\ c.accepted = x /\ c.rejected = y
      /\ c.warnings = z /\ c.total = b.total /\ c.status = b.status
  <2>1. c = [b EXCEPT !.accepted = x, !.rejected = y, !.warnings = z]
    <3> DEFINE d(o, e, f) == [b EXCEPT !.accepted = o, !.rejected = e, !.warnings = f]
    <3>1. c = d(Of("ok"), Of("bad"), Of("warn"))
      BY <1>3, <1>5
    <3> HIDE DEF d
    <3>2. c = d(x, y, z)
      BY <1>4, <3>1
    <3> QED
      BY <3>2 DEF d
  <2> QED
    BY <2>1 DEF ImportBatch
<1>7. CopyBacked(c)'
  BY <1>2, <1>4, <1>6 DEF CopyBacked
<1> QED
  BY <1>5, <1>6, <1>7 DEF CopyBacked

-----------------------------------------------------------------------------
(* The steps of an import                                                  *)

LEMMA SameRows == UNCHANGED raws => ImportedRows' = ImportedRows
BY DEF ImportedRows

LEMMA ImporterWrites ==
    ASSUME LifeTypeOK, ImportsInv, NEW w \in Importers, importer[w].pc # "idle",
           NEW status \in Status, WriteRun(w, status),
           UNCHANGED <<queue, request, batch, stale>>
    PROVE  LifeTypeOK'
<1>1. importer[w].run \in Runs
  BY DEF ImportsInv, ImporterSound
<1>2. [Overwritten(importer[w].run, importer[w].was, status) EXCEPT !.silent = FALSE] \in Run
  BY <1>1, OverwrittenRow
<1>3. run' \in [Runs -> Run]
  BY <1>2 DEF WriteRun, LifeTypeOK
<1> QED
  BY <1>3 DEF LifeTypeOK

\* A worker that stops leaves rows and batch sound.
LEMMA ImporterLeaves ==
    ASSUME ImportsInv, RowsGrow, BatchGrows, NEW w \in Importers, Leaves(w)
    PROVE  ImportsInv'
BY IdleIsSound, ImporterMoves DEF Leaves

LEMMA NothingWritten ==
    ASSUME ImportsInv, UNCHANGED <<importBatch, raws>>
    PROVE  RowsGrow /\ BatchGrows
BY RowsStay, BatchStays, SameRows

LEMMA ImportTakeKeeps ==
    ASSUME LifeTypeOK, ImportsInv, NEW w \in Importers, NEW n \in Runs, ImportTake(w, n)
    PROVE  LifeTypeOK' /\ ImportsInv'
<1>1. LifeTypeOK'
  <2>1. queue' \in [Runs -> Nat]
    BY ReceiveKeeps DEF ImportTake
  <2> QED
    BY <2>1 DEF LifeTypeOK, ImportTake
<1>2. RowsGrow /\ BatchGrows /\ UNCHANGED <<importBatch, raws>>
  BY NothingWritten DEF ImportTake
<1>3. CASE UNCHANGED importer
  BY <1>1, <1>2, <1>3
     DEF ImportsInv, ImportsTypeOK, RowsGrow, BatchGrows, ImporterSound, CopyBacked,
         ImportedRows, ImportedOf, RowsOf, Insertable
<1>4. CASE importer' # importer
  <2> DEFINE list0 == IF run[n].type = "reprocess_market_jd"
                         /\ importBatch.status \in {"processed", "partial"}
                      THEN Present ELSE <<>>
             pc0 == IF importBatch.status \notin {"processed", "partial"} THEN "start"
                    ELSE IF run[n].type = "reprocess_market_jd" /\ Present # <<>>
                    THEN "reopen" ELSE "settle"
             d(was, mine, list, pc) ==
                [IdleImporter EXCEPT !.run = n, !.was = was, !.mine = mine, !.list = list,
                                     !.pc = pc]
  <2>1. Becomes(w, d(run[n].status, importBatch, list0, pc0))
    BY <1>4 DEF ImportTake
  <2>2. run[n].status \in Status
    BY DEF LifeTypeOK, Run
  <2>3. importBatch \in ImportBatch
    BY DEF ImportsInv, ImportsTypeOK
  <2>4. list0 \in Seq(RowNos) /\ (pc0 = "reopen" => list0 = Present)
    BY PresentRows
  <2>5. /\ pc0 \in {"start", "reopen", "settle"}
        /\ pc0 = "reopen" => importBatch.status # "absent"
    OBVIOUS
  <2>6. PICK was \in Status, mine \in ImportBatch, list \in Seq(RowNos),
             pc \in {"start", "reopen", "settle"} :
           was = run[n].status /\ mine = importBatch /\ list = list0 /\ pc = pc0
    BY <2>2, <2>3, <2>4, <2>5
  <2>7. /\ pc = "reopen" => ToSet(list) = ImportedRows /\ Len(list) = Cardinality(ImportedRows)
        /\ pc = "reopen" => mine.status # "absent"
    BY <2>4, <2>5, <2>6, PresentRows
  <2> HIDE DEF d, list0, pc0
  <2>8. PICK m : m = d(was, mine, list, pc)
    OBVIOUS
  <2>9. /\ m \in Importer /\ m.pc = pc /\ m.run = n /\ m.mine = mine /\ m.list = list
        /\ m.pos = 0
    BY <2>8 DEF d, IdleImporter, Importer
  <2>10. Becomes(w, m)
    BY <2>1, <2>6, <2>8
  <2>11. ImporterSound(m)'
    <3>1. CopyBacked(mine)' /\ mine = importBatch /\ importBatch' = importBatch
      BY <1>2, <2>6 DEF BatchGrows, BatchSound, CopyBacked
    <3>2. ImportedRows' = ImportedRows
      BY <1>2, SameRows
    <3>3. Len(list) \in Nat
      OBVIOUS
    <3> QED
      BY <2>7, <2>9, <3>1, <3>2, <3>3 DEF ImporterSound
  <2> QED
    BY <1>1, <1>2, <2>9, <2>10, <2>11, ImporterMoves
<1> QED
  BY <1>3, <1>4

LEMMA ImportSettleKeeps ==
    ASSUME LifeTypeOK, ImportsInv, NEW w \in Importers, ImportSettle(w)
    PROVE  LifeTypeOK' /\ ImportsInv'
<1>1. "completed" \in Status /\ importer[w].pc # "idle"
  BY DEF Status, ImportSettle
<1>2. LifeTypeOK'
  BY <1>1, ImporterWrites DEF ImportSettle
<1> QED
  BY <1>2, NothingWritten, ImporterLeaves DEF ImportSettle

\* What a worker knows of its copy of the batch.
LEMMA CopyIsSound ==
    ASSUME ImportsInv, NEW w \in Importers
    PROVE  /\ importer[w] \in Importer /\ importer[w].mine \in ImportBatch
           /\ ImporterSound(importer[w]) /\ CopyBacked(importer[w].mine)
           /\ importer[w].pos \in Nat /\ importer[w].list \in Seq(RowNos)
BY DEF ImportsInv, ImportsTypeOK, Importer, ImporterSound

LEMMA ImportStartKeeps ==
    ASSUME LifeTypeOK, ImportsInv, NEW w \in Importers, ImportStart(w)
    PROVE  LifeTypeOK' /\ ImportsInv'
<1> DEFINE old == importer[w].mine
<1>1. "running" \in Status /\ importer[w].pc = "start" /\ UNCHANGED raws
  BY DEF Status, ImportStart
<1>2. LifeTypeOK'
  BY <1>1, ImporterWrites DEF ImportStart
<1>3. RowsGrow /\ ImportedRows' = ImportedRows
  BY <1>1, RowsStay, SameRows
<1>4. PICK new : new = [old EXCEPT !.status = "processing"]
  OBVIOUS
<1>5. /\ new \in ImportBatch /\ new.status = "processing" /\ new.total = old.total
      /\ new.accepted = old.accepted /\ new.rejected = old.rejected
      /\ new.warnings = old.warnings
  BY <1>4, CopyIsSound DEF ImportBatch, BatchStatus
<1>6. CopyBacked(new)
  BY <1>5, CopyIsSound DEF CopyBacked
<1>7. CopyBacked(new)'
  BY <1>3, <1>5, <1>6, StillBacked
<1>8. Flush(w, new) /\ UNCHANGED <<queue, request, batch, stale, raws>>
  BY <1>4 DEF ImportStart
<1>9. /\ BatchGrows /\ importBatch'.status # "absent"
      /\ new.total = Len(FileRows) => importBatch'.total = Len(FileRows)
  <2>1. ImporterSound(importer[w])
    BY CopyIsSound
  <2>2. \/ new.status = old.status /\ importBatch.status # "absent"
        \/ new.status \notin {"absent", old.status}
    BY <1>5, <2>1 DEF ImporterSound
  <2> QED
    BY <1>3, <1>5, <1>7, <1>8, <2>2, FlushKeeps
<1>10. PICK m : m = [importer[w] EXCEPT !.pc = "parse", !.was = "running", !.mine = new]
  OBVIOUS
<1>11. Becomes(w, m)
  BY <1>4, <1>10 DEF ImportStart
<1>12. /\ m \in Importer /\ m.pc = "parse" /\ m.run = importer[w].run /\ m.mine = new
       /\ m.pos = importer[w].pos /\ m.list = importer[w].list
  BY <1>1, <1>5, <1>10, CopyIsSound DEF Importer
<1>13. ImporterSound(m)'
  BY <1>1, <1>5, <1>7, <1>9, <1>12, CopyIsSound DEF ImporterSound
<1> QED
  BY <1>2, <1>3, <1>9, <1>11, <1>12, <1>13, ImporterMoves

\* A worker that writes the batch once more and stops.
LEMMA LastWrite ==
    ASSUME LifeTypeOK, ImportsInv, RowsGrow, NEW w \in Importers,
           importer[w].pc \notin {"idle", "start", "settle"},
           NEW new \in ImportBatch, Flush(w, new), CopyBacked(new)',
           new.total \in {importer[w].mine.total, Len(FileRows)},
           \/ importBatch.total = Len(FileRows)
           \/ ImportedRows' = ImportedRows /\ new.rejected = importer[w].mine.rejected,
           \/ new.status = importer[w].mine.status
           \/ /\ new.status # "absent"
              /\ new.status = "processed" => Insertable(RowNos) \subseteq ImportedRows',
           NEW status \in Status, WriteRun(w, status), Leaves(w),
           UNCHANGED <<queue, request, batch, stale>>
    PROVE  LifeTypeOK' /\ ImportsInv'
<1>1. LifeTypeOK'
  BY ImporterWrites
<1>2. importBatch.status # "absent"
  BY CopyIsSound DEF ImporterSound
<1>3. BatchGrows
  BY <1>2, FlushKeeps
<1> QED
  BY <1>1, <1>3, ImporterLeaves

LEMMA ImportFailKeeps ==
    ASSUME LifeTypeOK, ImportsInv, NEW w \in Importers, ImportFail(w)
    PROVE  LifeTypeOK' /\ ImportsInv'
<1> DEFINE old == importer[w].mine
<1>1. RowsGrow /\ ImportedRows' = ImportedRows
  BY RowsStay, SameRows DEF ImportFail
<1>2. PICK new : new = [old EXCEPT !.status = "failed"]
  OBVIOUS
<1>3. /\ new \in ImportBatch /\ new.status = "failed" /\ new.total = old.total
      /\ new.accepted = old.accepted /\ new.rejected = old.rejected
      /\ new.warnings = old.warnings
  BY <1>2, CopyIsSound DEF ImportBatch, BatchStatus
<1>4. CopyBacked(new)
  BY <1>3, CopyIsSound DEF CopyBacked
<1>5. CopyBacked(new)'
  BY <1>1, <1>3, <1>4, StillBacked
<1>6. /\ Flush(w, new) /\ WriteRun(w, "failed") /\ Leaves(w) /\ importer[w].pc = "parse"
      /\ UNCHANGED <<queue, request, batch, stale>> /\ "failed" \in Status
  BY <1>2 DEF ImportFail, Status
<1> QED
  BY <1>1, <1>3, <1>5, <1>6, LastWrite

LEMMA ImportParsedKeeps ==
    ASSUME LifeTypeOK, ImportsInv, NEW w \in Importers, ImportParsed(w)
    PROVE  LifeTypeOK' /\ ImportsInv'
<1> DEFINE old == importer[w].mine
           all == [i \in RowNos |-> i]
<1>1. importer[w].pc = "parse" /\ UNCHANGED <<queue, request, batch, stale, raws>>
  BY DEF ImportParsed
<1>2. LifeTypeOK'
  <2>1. importer[w].run \in Runs
    BY <1>1, CopyIsSound DEF ImporterSound
  <2>2. \A q \in Run : [q EXCEPT !.total = 1] \in Run
    BY DEF Run
  <2>3. run' = [run EXCEPT ![importer[w].run] = [run[importer[w].run] EXCEPT !.total = 1]]
    BY DEF ImportParsed
  <2>4. run' \in [Runs -> Run]
    BY <2>1, <2>2, <2>3 DEF LifeTypeOK
  <2> QED
    BY <1>1, <2>4 DEF LifeTypeOK
<1>3. RowsGrow /\ ImportedRows' = ImportedRows
  BY <1>1, RowsStay, SameRows
<1>4. PICK new : new = [old EXCEPT !.total = Len(FileRows)]
  OBVIOUS
<1>5. /\ new \in ImportBatch /\ new.status = old.status /\ new.total = Len(FileRows)
      /\ new.accepted = old.accepted /\ new.rejected = old.rejected
      /\ new.warnings = old.warnings
  BY <1>4, CopyIsSound, RowNumbers DEF ImportBatch
<1>6. CopyBacked(new)
  BY <1>5, CopyIsSound DEF CopyBacked
<1>7. CopyBacked(new)'
  BY <1>3, <1>5, <1>6, StillBacked
<1>8. Flush(w, new)
  BY <1>4 DEF ImportParsed
<1>9. importBatch.status # "absent" /\ old.status # "absent" /\ importer[w].pos = 0
      /\ importer[w].run \in Runs
  BY <1>1, CopyIsSound DEF ImporterSound
<1>10. /\ BatchGrows /\ importBatch'.status # "absent"
       /\ importBatch'.total = Len(FileRows)
  BY <1>3, <1>5, <1>7, <1>8, <1>9, FlushKeeps
<1>11. all \in Seq(RowNos) /\ Len(all) = Len(FileRows)
  BY RowNumbers
<1>12. PICK list \in Seq(RowNos) : list = all
  BY <1>11
<1>13. PICK m : m = [importer[w] EXCEPT !.pc = "rows", !.mine = new, !.list = list]
  OBVIOUS
<1>14. Becomes(w, m)
  BY <1>4, <1>12, <1>13 DEF ImportParsed
<1>15. /\ m \in Importer /\ m.pc = "rows" /\ m.run = importer[w].run /\ m.mine = new
       /\ m.pos = importer[w].pos /\ m.list = list
  BY <1>5, <1>13, CopyIsSound DEF Importer
<1>16. ImporterSound(m)'
  <2>1. Insertable(1 .. m.pos)' = {}
    BY <1>9, <1>15 DEF Insertable
  <2>2. m.pos <= Len(m.list)
    BY <1>9, <1>11, <1>12, <1>15, RowNumbers
  <2>3. m.list = [i \in RowNos |-> i]
    BY <1>12, <1>15
  <2> HIDE DEF all
  <2> QED
    BY <1>5, <1>7, <1>9, <1>10, <1>15, <2>1, <2>2, <2>3 DEF ImporterSound
<1> QED
  BY <1>2, <1>3, <1>10, <1>14, <1>15, <1>16, ImporterMoves

\* The next rows of a file, and what is there once they are imported.
LEMMA NextImported ==
    ASSUME ImportsInv, NEW w \in Importers, importer[w].pc = "rows",
           NEW k \in Nat, k <= Left(w)
    PROVE  /\ importer[w].pos + k \in 0 .. Len(FileRows)
           /\ Left(w) = Len(FileRows) - importer[w].pos
           /\ importBatch.total = Len(FileRows)
           /\ ~ Collides(NextRows(w, k)) /\ InsertRows(NextRows(w, k)) =>
                 /\ RowsGrow
                 /\ \A i \in 1 .. importer[w].pos + k :
                       FileRows[i] # "bad" => i \in ImportedRows'
<1> DEFINE pos == importer[w].pos
<1>1. pos \in Nat /\ importer[w].list = [i \in RowNos |-> i]
      /\ importBatch.total = Len(FileRows)
      /\ \A i \in Insertable(1 .. pos) : i \in ImportedRows
  BY CopyIsSound DEF ImporterSound
<1>2. Len(importer[w].list) = Len(FileRows)
  BY <1>1, RowNumbers
<1>3. pos + k \in 0 .. Len(FileRows) /\ Left(w) = Len(FileRows) - pos
  BY <1>1, <1>2, RowNumbers DEF Left
<1>4. \A i \in pos + 1 .. pos + k : i \in RowNos /\ i \in NextRows(w, k)
  <2>1. \A i \in pos + 1 .. pos + k : i \in RowNos
    BY <1>1, <1>3, RowNumbers
  <2> QED
    BY <1>1, <2>1 DEF NextRows
<1>5. ASSUME ~ Collides(NextRows(w, k)), InsertRows(NextRows(w, k))
      PROVE  /\ RowsGrow
             /\ \A i \in 1 .. pos + k : FileRows[i] # "bad" => i \in ImportedRows'
  <2>1. /\ RowsGrow
        /\ \A i \in RowNos \cap Insertable(NextRows(w, k)) : i \in ImportedRows'
    BY <1>5, InsertKeeps
  <2> SUFFICES ASSUME NEW i \in 1 .. pos + k, FileRows[i] # "bad" PROVE i \in ImportedRows'
    BY <2>1
  <2>2. CASE i <= pos
    <3>1. i \in Insertable(1 .. pos)
      BY <1>1, <2>2 DEF Insertable
    <3> QED
      BY <1>1, <2>1, <3>1 DEF RowsGrow
  <2>3. CASE i > pos
    <3>1. i \in pos + 1 .. pos + k
      BY <1>1, <2>3
    <3>2. i \in RowNos \cap Insertable(NextRows(w, k))
      BY <1>4, <3>1 DEF Insertable
    <3> QED
      BY <2>1, <3>2
  <2> QED
    BY <1>1, <2>2, <2>3
<1> QED
  BY <1>1, <1>3, <1>5

\* A worker that dies of a constraint leaves everything as it was.
LEMMA DyingKeeps ==
    ASSUME LifeTypeOK, ImportsInv, NEW w \in Importers, Dies(w),
           UNCHANGED <<queue, request, batch, stale>>
    PROVE  LifeTypeOK' /\ ImportsInv'
<1>1. LifeTypeOK'
  BY DEF Dies, LifeTypeOK
<1> QED
  BY <1>1, NothingWritten, ImporterLeaves DEF Dies

LEMMA ImportChunkKeeps ==
    ASSUME LifeTypeOK, ImportsInv, NEW w \in Importers, ImportChunk(w)
    PROVE  LifeTypeOK' /\ ImportsInv'
<1> DEFINE is == NextRows(w, ChunkSize)
           pos == importer[w].pos
<1>1. /\ importer[w].pc = "rows" /\ ChunkSize \in Nat \ {0} /\ ChunkSize <= Left(w)
      /\ UNCHANGED <<queue, request, batch, stale>>
  <2>1. Left(w) >= ChunkSize /\ Left(w) \in Int
    BY CopyIsSound DEF ImportChunk, Left
  <2> QED
    BY <2>1, ImportConstants DEF ImportChunk
<1>2. CASE Collides(is)
  BY <1>1, <1>2, DyingKeeps DEF ImportChunk
<1>3. CASE ~ Collides(is)
  <2>1. /\ InsertRows(is) /\ Beat(w) /\ UNCHANGED importBatch
        /\ Becomes(w, [importer[w] EXCEPT !.pos = pos + ChunkSize])
    BY <1>3 DEF ImportChunk
  <2>2. /\ RowsGrow /\ importBatch.total = Len(FileRows)
        /\ pos + ChunkSize \in 0 .. Len(FileRows)
        /\ \A i \in 1 .. pos + ChunkSize : FileRows[i] # "bad" => i \in ImportedRows'
    BY <1>1, <1>3, <2>1, NextImported
  <2>3. BatchGrows
    BY <2>1, <2>2, BatchStays
  <2>4. LifeTypeOK'
    <3>1. importer[w].was \in Status
      BY CopyIsSound DEF Importer
    <3> QED
      BY <1>1, <2>1, <3>1, ImporterWrites DEF Beat
  <2>5. PICK m : m = [importer[w] EXCEPT !.pos = pos + ChunkSize]
    OBVIOUS
  <2>6. /\ m \in Importer /\ m.pc = "rows" /\ m.run = importer[w].run
        /\ m.mine = importer[w].mine /\ m.pos = pos + ChunkSize
        /\ m.list = importer[w].list /\ Becomes(w, m)
    <3>1. Becomes(w, m)
      BY <2>1, <2>5
    <3>2. importer[w] \in Importer /\ pos + ChunkSize \in Nat
      BY <2>2, CopyIsSound
    <3>3. \A q \in Importer, at \in Nat :
             LET t == [q EXCEPT !.pos = at]
             IN  /\ t \in Importer /\ t.pc = q.pc /\ t.run = q.run /\ t.mine = q.mine
                 /\ t.pos = at /\ t.list = q.list
      BY DEF Importer
    <3> QED
      BY <1>1, <2>5, <3>1, <3>2, <3>3
  <2>7. ImporterSound(m)'
    <3>1. \A i : (i \in Insertable(1 .. m.pos))' => i \in ImportedRows'
      BY <2>2, <2>6 DEF Insertable
    <3>2. CopyBacked(importer[w].mine) /\ importer[w].mine \in ImportBatch
      BY CopyIsSound
    <3>3. CopyBacked(m.mine)'
      BY <2>2, <2>6, <3>2, StillBacked
    <3>4. m.list = [i \in RowNos |-> i] /\ Len(m.list) = Len(FileRows)
      <4>1. m.list = [i \in RowNos |-> i]
        BY <1>1, <2>6, CopyIsSound DEF ImporterSound
      <4> QED
        BY <4>1, RowNumbers
    <3>5. ImporterSound(importer[w])
      BY CopyIsSound
    <3> QED
      BY <1>1, <2>1, <2>2, <2>6, <3>1, <3>3, <3>4, <3>5 DEF ImporterSound
  <2> QED
    BY <2>2, <2>3, <2>4, <2>6, <2>7, ImporterMoves
<1> QED
  BY <1>2, <1>3

\* What is left of a file, in whole rows.
LEMMA LeftRows ==
    ASSUME ImportsInv, NEW w \in Importers
    PROVE  /\ Left(w) \in Nat
           /\ Len(importer[w].list) = importer[w].pos + Left(w)
<1>1. importer[w].pos <= Len(importer[w].list)
  BY CopyIsSound DEF ImporterSound
<1>2. importer[w].pos \in Nat /\ Len(importer[w].list) \in Nat
  BY CopyIsSound
<1> QED
  BY <1>1, <1>2 DEF Left

LEMMA ImportFinishKeeps ==
    ASSUME LifeTypeOK, ImportsInv, NEW w \in Importers, ImportFinish(w)
    PROVE  LifeTypeOK' /\ ImportsInv'
<1> DEFINE is == NextRows(w, Left(w))
           old == importer[w].mine
           N == Len(FileRows)
<1>1. /\ importer[w].pc = "rows" /\ UNCHANGED <<queue, request, batch, stale>>
      /\ Left(w) \in Nat /\ Left(w) <= Left(w)
  BY LeftRows DEF ImportFinish
<1>2. CASE Collides(is)
  BY <1>1, <1>2, DyingKeeps DEF ImportFinish
<1>3. CASE ~ Collides(is)
  <2>1. /\ InsertRows(is) /\ WriteRun(w, "completed") /\ Leaves(w)
        /\ Flush(w, [Counted(old, N) EXCEPT !.status = ImportedStatus])
    BY <1>3 DEF ImportFinish
  <2>2. /\ RowsGrow /\ importBatch.total = N
        /\ \A i \in 1 .. N : FileRows[i] # "bad" => i \in ImportedRows'
    <3>1. importer[w].pos + Left(w) = N
      BY <1>1, NextImported, CopyIsSound, RowNumbers
    <3>2. /\ RowsGrow /\ importBatch.total = N
          /\ \A i \in 1 .. importer[w].pos + Left(w) :
                FileRows[i] # "bad" => i \in ImportedRows'
      BY <1>1, <1>3, <2>1, NextImported
    <3> QED
      BY <3>1, <3>2
  <2>3. PICK c : c = Counted(old, N)
    OBVIOUS
  <2>4. c \in ImportBatch /\ CopyBacked(c)' /\ c.total = old.total
    <3>1. old \in ImportBatch /\ old.total \in {0, N} /\ N \in 0 .. N
      BY CopyIsSound, RowNumbers DEF CopyBacked
    <3> QED
      BY <2>2, <2>3, <3>1, CountedRows DEF CopyBacked
  <2>5. ImportedStatus \in BatchStatus \ {"absent"}
    BY DEF ImportedStatus, BatchStatus
  <2>6. PICK new : new = [c EXCEPT !.status = ImportedStatus]
    OBVIOUS
  <2>7. /\ new \in ImportBatch /\ new.status = ImportedStatus /\ new.total = c.total
        /\ new.accepted = c.accepted /\ new.rejected = c.rejected
        /\ new.warnings = c.warnings
    BY <2>4, <2>5, <2>6 DEF ImportBatch
  <2>8. CopyBacked(new)'
    BY <2>4, <2>7 DEF CopyBacked
  <2>9. Insertable(RowNos) \subseteq ImportedRows'
    BY <2>2, RowNumbers DEF Insertable
  <2>10. Flush(w, new) /\ "completed" \in Status
    BY <2>1, <2>3, <2>6 DEF Status
  <2> QED
    BY <1>1, <2>1, <2>2, <2>4, <2>5, <2>7, <2>8, <2>9, <2>10, LastWrite
<1> QED
  BY <1>2, <1>3

LEMMA ImportCancelKeeps ==
    ASSUME LifeTypeOK, ImportsInv, NEW w \in Importers, NEW k \in 0 .. 1, ImportCancel(w, k)
    PROVE  LifeTypeOK' /\ ImportsInv'
<1> DEFINE is == NextRows(w, k)
           old == importer[w].mine
           N == Len(FileRows)
           pos == importer[w].pos
<1>1. /\ importer[w].pc = "rows" /\ UNCHANGED <<queue, request, batch, stale>>
      /\ k \in Nat /\ k <= Left(w)
  BY LeftRows DEF ImportCancel
<1>2. CASE Collides(is)
  BY <1>1, <1>2, DyingKeeps DEF ImportCancel
<1>3. CASE ~ Collides(is)
  <2>1. /\ InsertRows(is) /\ WriteRun(w, "cancelled") /\ Leaves(w)
        /\ Flush(w, [Counted(old, pos + k) EXCEPT !.status = "partial"])
    BY <1>3 DEF ImportCancel
  <2>2. /\ RowsGrow /\ importBatch.total = N /\ pos + k \in 0 .. N
        /\ \A i \in 1 .. pos + k : FileRows[i] # "bad" => i \in ImportedRows'
    BY <1>1, <1>3, <2>1, NextImported
  <2>3. PICK c : c = Counted(old, pos + k)
    OBVIOUS
  <2>4. c \in ImportBatch /\ CopyBacked(c)' /\ c.total = old.total
    <3>1. old \in ImportBatch /\ old.total \in {0, N}
      BY CopyIsSound DEF CopyBacked
    <3> QED
      BY <2>2, <2>3, <3>1, CountedRows DEF CopyBacked
  <2>5. PICK new : new = [c EXCEPT !.status = "partial"]
    OBVIOUS
  <2>6. /\ new \in ImportBatch /\ new.status = "partial" /\ new.total = c.total
        /\ new.accepted = c.accepted /\ new.rejected = c.rejected
        /\ new.warnings = c.warnings
    BY <2>4, <2>5 DEF ImportBatch, BatchStatus
  <2>7. CopyBacked(new)'
    BY <2>4, <2>6 DEF CopyBacked
  <2>8. Flush(w, new) /\ "cancelled" \in Status
    BY <2>1, <2>3, <2>5 DEF Status
  <2> QED
    BY <1>1, <2>1, <2>2, <2>4, <2>6, <2>7, <2>8, LastWrite
<1> QED
  BY <1>2, <1>3

-----------------------------------------------------------------------------
(* The steps of a reprocessing                                             *)

\* The rows a reprocessing goes through are there.
LEMMA NextPresent ==
    ASSUME ImportsInv, NEW w \in Importers,
           importer[w].pc \in {"reopen", "renorm", "version"},
           NEW k \in Nat, k <= Left(w)
    PROVE  NextRows(w, k) \in SUBSET ImportedRows
<1>1. /\ importer[w].pos \in Nat /\ importer[w].list \in Seq(RowNos)
      /\ ToSet(importer[w].list) \subseteq ImportedRows
  BY CopyIsSound DEF ImporterSound
<1>2. \A i \in importer[w].pos + 1 .. importer[w].pos + k : i \in DOMAIN importer[w].list
  BY <1>1, LeftRows
<1> QED
  BY <1>1, <1>2 DEF NextRows, ToSet

LEMMA ImportReopenKeeps ==
    ASSUME LifeTypeOK, ImportsInv, NEW w \in Importers, ImportReopen(w)
    PROVE  LifeTypeOK' /\ ImportsInv'
<1>1. /\ importer[w].pc = "reopen" /\ importer[w].run \in Runs
      /\ UNCHANGED <<queue, request, batch, stale, importBatch, raws>>
  BY CopyIsSound DEF ImportReopen, ImporterSound
<1>2. LifeTypeOK'
  <2> DEFINE q == Overwritten(importer[w].run, importer[w].was, "running")
  <2>1. "running" \in Status
    BY DEF Status
  <2>2. q \in Run
    BY <1>1, <2>1, OverwrittenRow
  <2>3. run' = [run EXCEPT ![importer[w].run] = [q EXCEPT !.total = 1, !.silent = FALSE]]
    BY DEF ImportReopen
  <2> HIDE DEF q
  <2>4. [q EXCEPT !.total = 1, !.silent = FALSE] \in Run
    <3>1. \A x \in Run : [x EXCEPT !.total = 1] \in Run
      BY DEF Run
    <3>2. \A x \in Run : [x EXCEPT !.silent = FALSE] \in Run
      BY DEF Run
    <3> QED
      BY <2>2, <3>1, <3>2
  <2>5. run' \in [Runs -> Run]
    BY <2>3, <2>4 DEF LifeTypeOK
  <2> QED
    BY <1>1, <2>5 DEF LifeTypeOK
<1>3. RowsGrow /\ BatchGrows
  BY <1>1, NothingWritten
<1>4. PICK m : m = [importer[w] EXCEPT !.pc = "renorm", !.was = "running"]
  OBVIOUS
<1>5. /\ m \in Importer /\ m.pc = "renorm" /\ m.run = importer[w].run
      /\ m.mine = importer[w].mine /\ m.pos = importer[w].pos /\ m.list = importer[w].list
  BY <1>4, CopyIsSound DEF Importer, Status
<1>6. Becomes(w, m)
  BY <1>4 DEF ImportReopen
<1>7. ImporterSound(m)
  BY <1>1, <1>5, CopyIsSound DEF ImporterSound
<1> QED
  BY <1>2, <1>3, <1>5, <1>6, <1>7, SoundStays, ImporterMoves

LEMMA RenormReadKeeps ==
    ASSUME LifeTypeOK, ImportsInv, NEW w \in Importers, RenormRead(w)
    PROVE  LifeTypeOK' /\ ImportsInv'
<1>1. importer[w].pc = "renorm" /\ Left(w) > 0 /\ UNCHANGED <<lifeVars, importBatch, raws>>
  BY DEF RenormRead
<1>2. LifeTypeOK'
  BY <1>1 DEF lifeVars, LifeTypeOK
<1>3. RowsGrow /\ BatchGrows
  BY <1>1, NothingWritten
<1>4. FirstRow(w) \in RowNos
  <2>1. importer[w].pos + 1 \in DOMAIN importer[w].list
    BY <1>1, LeftRows, CopyIsSound
  <2> QED
    BY <2>1, CopyIsSound DEF FirstRow
<1>5. CurrentVersion(FirstRow(w)) \in Nat
  BY <1>4, CurrentIsLast DEF ImportsInv, ImportsTypeOK
<1>6. PICK mark \in Nat : mark = CurrentVersion(FirstRow(w))
  BY <1>5
<1>7. PICK m : m = [importer[w] EXCEPT !.pc = "version", !.mark = mark]
  OBVIOUS
<1>8. /\ m \in Importer /\ m.pc = "version" /\ m.run = importer[w].run
      /\ m.mine = importer[w].mine /\ m.pos = importer[w].pos /\ m.list = importer[w].list
  BY <1>7, CopyIsSound DEF Importer
<1>9. Becomes(w, m)
  BY <1>6, <1>7 DEF RenormRead
<1>10. ImporterSound(m)
  BY <1>1, <1>8, CopyIsSound DEF ImporterSound
<1> QED
  BY <1>2, <1>3, <1>8, <1>9, <1>10, SoundStays, ImporterMoves

\* Normalising rows that are there adds none.
LEMMA RenormRows ==
    ASSUME ImportsInv, NEW w \in Importers, NEW is \in SUBSET ImportedRows,
           ~ Overtaken(w, is), Renormalized(w, is)
    PROVE  RowsGrow /\ ImportedRows' = ImportedRows
<1>1. ImportedRows' \subseteq ImportedRows
  BY DEF Renormalized, ImportedRows
<1> QED
  BY <1>1, RenormKeeps DEF RowsGrow

LEMMA RenormChunkKeeps ==
    ASSUME LifeTypeOK, ImportsInv, NEW w \in Importers, RenormChunk(w)
    PROVE  LifeTypeOK' /\ ImportsInv'
<1> DEFINE is == NextRows(w, ChunkSize)
           pos == importer[w].pos
<1>1. /\ importer[w].pc = "version" /\ ChunkSize \in Nat \ {0} /\ ChunkSize <= Left(w)
      /\ UNCHANGED <<queue, request, batch, stale>>
  BY LeftRows, ImportConstants DEF RenormChunk
<1>2. is \in SUBSET ImportedRows
  BY <1>1, NextPresent
<1>3. CASE Overtaken(w, is)
  BY <1>1, <1>3, DyingKeeps DEF RenormChunk
<1>4. CASE ~ Overtaken(w, is)
  <2>1. /\ Renormalized(w, is) /\ Beat(w) /\ UNCHANGED importBatch
        /\ Becomes(w, [importer[w] EXCEPT !.pc = "renorm", !.mark = 0,
                                          !.pos = pos + ChunkSize])
    BY <1>4 DEF RenormChunk
  <2>2. RowsGrow /\ ImportedRows' = ImportedRows
    BY <1>2, <1>4, <2>1, RenormRows
  <2>3. BatchGrows
    BY <2>1, <2>2, BatchStays
  <2>4. LifeTypeOK'
    <3>1. importer[w].was \in Status
      BY CopyIsSound DEF Importer
    <3> QED
      BY <1>1, <2>1, <3>1, ImporterWrites DEF Beat
  <2>5. PICK at \in Nat : at = pos + ChunkSize
    BY <1>1, CopyIsSound
  <2>6. PICK m : m = [importer[w] EXCEPT !.pc = "renorm", !.mark = 0, !.pos = at]
    OBVIOUS
  <2>7. /\ m \in Importer /\ m.pc = "renorm" /\ m.run = importer[w].run
        /\ m.mine = importer[w].mine /\ m.pos = at /\ m.list = importer[w].list
    BY <2>6, CopyIsSound DEF Importer
  <2>8. Becomes(w, m)
    BY <2>1, <2>5, <2>6
  <2>9. ImporterSound(m)
    <3>1. at <= Len(m.list)
      BY <1>1, <2>5, <2>7, LeftRows, CopyIsSound
    <3> QED
      BY <1>1, <2>7, <3>1, CopyIsSound DEF ImporterSound
  <2> QED
    BY <2>2, <2>3, <2>4, <2>7, <2>8, <2>9, SoundStays, ImporterMoves
<1> QED
  BY <1>3, <1>4

\* The rows with and without a warning among those that are there.
LEMMA WarningRows ==
    ASSUME ImportsInv, NEW S \in SUBSET ImportedRows
    PROVE  LET warn == Cardinality({i \in S : FileRows[i] = "warn"})
           IN  /\ warn \in Nat /\ warn <= Cardinality(ImportedOf("warn"))
               /\ Cardinality(S) - warn \in Nat
               /\ Cardinality(S) - warn <= Cardinality(ImportedOf("ok"))
<1> DEFINE W == {i \in S : FileRows[i] = "warn"}
           O == {i \in S : FileRows[i] = "ok"}
<1>1. S \in SUBSET RowNos /\ W \in SUBSET S /\ O \in SUBSET S
  BY DEF ImportedRows
<1>2. \A i \in S : FileRows[i] \in {"ok", "warn"}
  <2>1. \A i \in RowNos : FileRows[i] \in {"ok", "warn", "bad"}
    BY ImportConstants DEF RowNos
  <2> QED
    BY <1>1, <2>1 DEF ImportsInv, RowsSound
<1>3. S \ W = O
  BY <1>2
<1>4. S \cap W = W
  OBVIOUS
<1>5. IsFiniteSet(S) /\ Cardinality(S \ W) = Cardinality(S) - Cardinality(W)
  <2>1. IsFiniteSet(S)
    BY <1>1, RowsFinite
  <2> HIDE DEF W
  <2>2. Cardinality(S \ W) = Cardinality(S) - Cardinality(S \cap W)
    BY <2>1, FS_Difference
  <2> QED
    BY <1>4, <2>1, <2>2
<1>6. /\ W \in SUBSET ImportedOf("warn") /\ O \in SUBSET ImportedOf("ok")
      /\ ImportedOf("warn") \in SUBSET RowNos /\ ImportedOf("ok") \in SUBSET RowNos
      /\ W \in SUBSET RowNos /\ O \in SUBSET RowNos
  BY <1>1 DEF ImportedOf, RowsOf
<1> HIDE DEF W, O
<1>7. Cardinality(W) \in Nat /\ Cardinality(W) <= Cardinality(ImportedOf("warn"))
  BY <1>6, RowsFinite, SmallerRows
<1>8. Cardinality(O) \in Nat /\ Cardinality(O) <= Cardinality(ImportedOf("ok"))
  BY <1>6, RowsFinite, SmallerRows
<1> QED
  BY <1>3, <1>5, <1>7, <1>8 DEF W

LEMMA RenormFinishKeeps ==
    ASSUME LifeTypeOK, ImportsInv, NEW w \in Importers, RenormFinish(w)
    PROVE  LifeTypeOK' /\ ImportsInv'
<1> DEFINE is == NextRows(w, Left(w))
           S == ToSet(importer[w].list)
           warn == Cardinality({i \in S : FileRows[i] = "warn"})
           n == Len(importer[w].list)
           old == importer[w].mine
<1>1. /\ importer[w].pc \in {"renorm", "version"} /\ Left(w) \in Nat /\ Left(w) <= Left(w)
      /\ UNCHANGED <<queue, request, batch, stale>>
  BY LeftRows DEF RenormFinish
<1>2. is \in SUBSET ImportedRows
  BY <1>1, NextPresent
<1>3. CASE Overtaken(w, is)
  BY <1>1, <1>3, DyingKeeps DEF RenormFinish
<1>4. CASE ~ Overtaken(w, is)
  <2>1. /\ Renormalized(w, is) /\ WriteRun(w, "completed") /\ Leaves(w)
        /\ Flush(w, [old EXCEPT !.warnings = warn, !.accepted = n - warn])
    BY <1>4 DEF RenormFinish
  <2>2. RowsGrow /\ ImportedRows' = ImportedRows
    BY <1>2, <1>4, <2>1, RenormRows
  <2>3. S \in SUBSET ImportedRows /\ Cardinality(S) = n
    BY <1>1, CopyIsSound DEF ImporterSound
  <2>4. /\ warn \in Nat /\ warn <= Cardinality(ImportedOf("warn"))
        /\ n - warn \in Nat /\ n - warn <= Cardinality(ImportedOf("ok"))
    BY <2>3, WarningRows
  <2>5. PICK x \in Nat, y \in Nat : x = warn /\ y = n - warn
    BY <2>4
  <2> HIDE DEF warn, n
  <2>6. PICK new : new = [old EXCEPT !.warnings = x, !.accepted = y]
    OBVIOUS
  <2>7. /\ new \in ImportBatch /\ new.status = old.status /\ new.total = old.total
        /\ new.accepted = y /\ new.rejected = old.rejected /\ new.warnings = x
    BY <2>6, CopyIsSound DEF ImportBatch
  <2>8. CopyBacked(new)
    BY <2>4, <2>5, <2>7, CopyIsSound DEF CopyBacked
  <2>9. CopyBacked(new)'
    BY <2>2, <2>7, <2>8, StillBacked
  <2>10. Flush(w, new) /\ "completed" \in Status
    BY <2>1, <2>5, <2>6 DEF Status
  <2> QED
    BY <1>1, <2>1, <2>2, <2>7, <2>9, <2>10, LastWrite
<1> QED
  BY <1>3, <1>4

LEMMA RenormCancelKeeps ==
    ASSUME LifeTypeOK, ImportsInv, NEW w \in Importers, RenormCancel(w)
    PROVE  LifeTypeOK' /\ ImportsInv'
<1> DEFINE is == IF importer[w].pc = "version" THEN NextRows(w, 1) ELSE {}
<1>1. /\ importer[w].pc \in {"renorm", "version"}
      /\ UNCHANGED <<queue, request, batch, stale>>
  BY DEF RenormCancel
<1>2. is \in SUBSET ImportedRows
  <2>1. CASE importer[w].pc = "version"
    <3>1. 1 \in Nat /\ 1 <= Left(w)
      BY <2>1, LeftRows DEF RenormCancel
    <3> QED
      BY <1>1, <2>1, <3>1, NextPresent
  <2>2. CASE importer[w].pc # "version"
    BY <2>2
  <2> QED
    BY <2>1, <2>2
<1>3. CASE Overtaken(w, is)
  BY <1>1, <1>3, DyingKeeps DEF RenormCancel
<1>4. CASE ~ Overtaken(w, is)
  <2>1. Renormalized(w, is) /\ WriteRun(w, "cancelled") /\ Leaves(w) /\ UNCHANGED importBatch
    BY <1>4 DEF RenormCancel
  <2>2. RowsGrow /\ ImportedRows' = ImportedRows
    BY <1>2, <1>4, <2>1, RenormRows
  <2>3. BatchGrows
    BY <2>1, <2>2, BatchStays
  <2>4. "cancelled" \in Status /\ importer[w].pc # "idle"
    BY <1>1 DEF Status
  <2>5. LifeTypeOK'
    BY <1>1, <2>1, <2>4, ImporterWrites
  <2> QED
    BY <2>1, <2>2, <2>3, <2>5, ImporterLeaves
<1> QED
  BY <1>3, <1>4

-----------------------------------------------------------------------------
(* The batch and its requests                                              *)

LEMMA ImportsInitially == ImportsInit => ImportsInv
<1> SUFFICES ASSUME ImportsInit PROVE ImportsInv
  OBVIOUS
<1>1. \A kind : /\ Cardinality(ImportedOf(kind)) \in Nat
                /\ Cardinality(RowsOf(kind)) \in Nat
  <2>1. \A kind : ImportedOf(kind) \in SUBSET RowNos /\ RowsOf(kind) \in SUBSET RowNos
    BY DEF ImportedOf, RowsOf
  <2> QED
    BY <2>1, RowsFinite
<1>2. AbsentBatch \in ImportBatch /\ CopyBacked(AbsentBatch)
  BY <1>1 DEF AbsentBatch, ImportBatch, BatchStatus, CopyBacked
<1>3. IdleImporter \in Importer
  <2>1. <<>> \in Seq(RowNos)
    OBVIOUS
  <2> QED
    BY <1>2, <2>1 DEF IdleImporter, Importer, Status
<1>4. Len(FileRows) # 0
  BY RowNumbers
<1>5. ImporterSound(IdleImporter)
  BY <1>2, <1>4 DEF ImporterSound, IdleImporter, AbsentBatch
<1>6. importer \in [Importers -> Importer] /\ \A w \in Importers : ImporterSound(importer[w])
  BY <1>3, <1>5 DEF ImportsInit
<1>7. CASE importBatch = AbsentBatch /\ raws = [i \in RowNos |-> <<>>]
  <2>1. raws \in [RowNos -> Seq(BOOLEAN)] /\ ImportedRows = {}
    BY <1>7 DEF ImportedRows
  <2>2. RowsSound
    BY <1>7, <2>1 DEF RowsSound, OneCurrentVersion
  <2>3. BatchSound
    BY <1>2, <1>7, <2>1 DEF BatchSound, AbsentBatch
  <2> QED
    BY <1>2, <1>6, <1>7, <2>1, <2>2, <2>3 DEF ImportsInv, ImportsTypeOK
<1>8. CASE /\ importBatch = Counted([AbsentBatch EXCEPT !.total = Len(FileRows),
                                         !.status = ImportedStatus], Len(FileRows))
           /\ raws = [i \in RowNos |-> IF FileRows[i] = "bad" THEN <<>> ELSE <<TRUE>>]
  <2> DEFINE N == Len(FileRows)
  <2>1. \A i \in RowNos : raws[i] = IF FileRows[i] = "bad" THEN <<>> ELSE <<TRUE>>
    BY <1>8
  <2>2. <<TRUE>> \in Seq(BOOLEAN) /\ <<>> \in Seq(BOOLEAN) /\ <<TRUE>> # <<>>
        /\ DOMAIN <<TRUE>> = {1} /\ Len(<<TRUE>>) = 1 /\ <<TRUE>>[1] = TRUE
    OBVIOUS
  <2>3. raws \in [RowNos -> Seq(BOOLEAN)]
    BY <1>8, <2>2
  <2>4. ImportedRows = {i \in RowNos : FileRows[i] # "bad"}
    BY <2>1, <2>2 DEF ImportedRows
  <2>5. RowsSound
    <3>1. ASSUME NEW i \in RowNos, NEW v \in DOMAIN raws[i]
          PROVE  raws[i][v] <=> v = Len(raws[i])
      <4>1. CASE raws[i] = <<>>
        BY <4>1
      <4>2. CASE raws[i] = <<TRUE>>
        BY <2>2, <4>2
      <4> QED
        BY <2>1, <4>1, <4>2
    <3>2. OneCurrentVersion
      BY <3>1 DEF OneCurrentVersion
    <3> QED
      BY <2>4, <3>2 DEF RowsSound
  <2>6. ImportedStatus \in BatchStatus \ {"absent"} /\ N \in Nat
    BY RowNumbers DEF ImportedStatus, BatchStatus
  <2>7. PICK b : b = [AbsentBatch EXCEPT !.total = N, !.status = ImportedStatus]
    OBVIOUS
  <2>8. b \in ImportBatch /\ b.total = N /\ b.status = ImportedStatus
    BY <1>2, <2>6, <2>7 DEF ImportBatch
  <2>9. /\ \A kind \in {"ok", "warn"} : {i \in 1 .. N : FileRows[i] = kind} = ImportedOf(kind)
        /\ {i \in 1 .. N : FileRows[i] = "bad"} = RowsOf("bad")
    BY <2>4, RowNumbers DEF ImportedOf, RowsOf
  <2>10. /\ importBatch \in ImportBatch /\ importBatch.total = N
         /\ importBatch.status = ImportedStatus
         /\ importBatch.accepted = Cardinality(ImportedOf("ok"))
         /\ importBatch.warnings = Cardinality(ImportedOf("warn"))
         /\ importBatch.rejected = Cardinality(RowsOf("bad"))
    <3>1. PICK x \in Nat, y \in Nat, z \in Nat :
             /\ x = Cardinality(ImportedOf("ok")) /\ y = Cardinality(RowsOf("bad"))
             /\ z = Cardinality(ImportedOf("warn"))
      BY <1>1
    <3>2. importBatch = [b EXCEPT !.accepted = Cardinality({i \in 1 .. N : FileRows[i] = "ok"}),
                                  !.rejected = Cardinality({i \in 1 .. N : FileRows[i] = "bad"}),
                                  !.warnings = Cardinality({i \in 1 .. N : FileRows[i] = "warn"})]
      <4> DEFINE c(a) == Counted(a, N)
      <4>1. importBatch = c([AbsentBatch EXCEPT !.total = N, !.status = ImportedStatus])
        BY <1>8
      <4> HIDE DEF c
      <4>2. importBatch = c(b)
        BY <2>7, <4>1
      <4> QED
        BY <4>2 DEF c, Counted
    <3>3. /\ x = Cardinality({i \in 1 .. N : FileRows[i] = "ok"})
          /\ y = Cardinality({i \in 1 .. N : FileRows[i] = "bad"})
          /\ z = Cardinality({i \in 1 .. N : FileRows[i] = "warn"})
      BY <2>9, <3>1
    <3> DEFINE d(o, e, f) == [b EXCEPT !.accepted = o, !.rejected = e, !.warnings = f]
    <3>4. importBatch = d(Cardinality({i \in 1 .. N : FileRows[i] = "ok"}),
                          Cardinality({i \in 1 .. N : FileRows[i] = "bad"}),
                          Cardinality({i \in 1 .. N : FileRows[i] = "warn"}))
      BY <3>2
    <3> HIDE DEF d
    <3>5. importBatch = d(x, y, z)
      BY <3>3, <3>4
    <3>6. importBatch = [b EXCEPT !.accepted = x, !.rejected = y, !.warnings = z]
      BY <3>5 DEF d
    <3>7. /\ importBatch \in ImportBatch /\ importBatch.total = b.total
          /\ importBatch.status = b.status /\ importBatch.accepted = x
          /\ importBatch.rejected = y /\ importBatch.warnings = z
      BY <2>8, <3>6 DEF ImportBatch
    <3> QED
      BY <2>8, <3>1, <3>7
  <2>11. CopyBacked(importBatch)
    BY <1>1, <2>10 DEF CopyBacked
  <2>12. BatchSound
    BY <2>4, <2>6, <2>10, <2>11 DEF BatchSound, Insertable
  <2> QED
    BY <1>6, <2>3, <2>5, <2>10, <2>12 DEF ImportsInv, ImportsTypeOK
<1> QED
  BY <1>7, <1>8 DEF ImportsInit

\* A step that no worker takes.
LEMMA RequestsKeep ==
    ASSUME ImportsInv, RowsGrow, BatchGrows, UNCHANGED importer
    PROVE  ImportsInv'
<1>1. ImportsTypeOK'
  BY DEF ImportsInv, ImportsTypeOK, RowsGrow, BatchGrows
<1>2. ASSUME NEW w \in Importers PROVE ImporterSound(importer[w])'
  <2>1. PICK m \in Importer : m = importer[w] /\ ImporterSound(m)
    BY CopyIsSound
  <2>2. ImporterSound(m)'
    BY <2>1, SoundStays
  <2> QED
    BY <2>1, <2>2 DEF ImporterSound, CopyBacked
<1> QED
  BY <1>1, <1>2 DEF ImportsInv, RowsGrow, BatchGrows

LEMMA ImportsStay == ImportsInv /\ UNCHANGED importVars => ImportsInv'
BY NothingWritten, RequestsKeep DEF importVars

LEMMA CreateImportKeeps ==
    ASSUME LifeTypeOK, ImportsInv, NEW r \in Requests, NEW n \in Runs, CreateImport(r, n)
    PROVE  LifeTypeOK' /\ ImportsInv'
<1>1. LifeTypeOK'
  <2>1. NewRun(r, n, "import_market_jd", NoRun, 0)
    BY DEF CreateImport
  <2>2. "import_market_jd" \in RunType \cup {NoRun} /\ NoRun \in Runs \cup {NoRun}
        /\ 0 \in 0 .. 1
    BY DEF RunType
  <2> QED
    BY <2>1, <2>2, NewRunKeeps
<1>2. importBatch.status = "absent" /\ UNCHANGED <<raws, importer>>
  BY DEF CreateImport
<1>3. RowsGrow /\ ImportedRows' = ImportedRows
  BY <1>2, RowsStay, SameRows
<1>4. /\ importBatch' \in ImportBatch /\ importBatch'.status = "uploaded"
      /\ importBatch'.total = 0 /\ importBatch'.accepted = 0
      /\ importBatch'.rejected = 0 /\ importBatch'.warnings = 0
  BY DEF CreateImport, AbsentBatch, ImportBatch, BatchStatus
<1>5. importBatch.total = 0 /\ Len(FileRows) # 0 /\ ImportedRows = {}
  BY <1>2, RowNumbers DEF ImportsInv, BatchSound
<1>6. CopyBacked(importBatch)'
  <2>1. \A kind : ImportedOf(kind)' \in SUBSET RowNos /\ RowsOf(kind)' \in SUBSET RowNos
    BY DEF ImportedOf, RowsOf
  <2>2. \A kind : /\ Cardinality(ImportedOf(kind)') \in Nat
                  /\ Cardinality(RowsOf(kind)') \in Nat
    BY <2>1, RowsFinite
  <2> QED
    BY <1>4, <2>2 DEF CopyBacked
<1>7. BatchGrows
  BY <1>2, <1>3, <1>4, <1>5, <1>6 DEF BatchGrows, BatchSound
<1> QED
  BY <1>1, <1>2, <1>3, <1>7, RequestsKeep

LEMMA ArchiveKeeps ==
    ASSUME LifeTypeOK, ImportsInv, NEW r \in Requests, ArchiveCommit(r)
    PROVE  LifeTypeOK' /\ ImportsInv'
<1>1. LifeTypeOK'
  BY AbsentRow DEF ArchiveCommit, LifeTypeOK
<1>2. UNCHANGED <<raws, importer>>
  BY DEF ArchiveCommit
<1>3. RowsGrow /\ ImportedRows' = ImportedRows
  BY <1>2, RowsStay, SameRows
<1>4. importBatch \in ImportBatch /\ BatchSound
  BY DEF ImportsInv, ImportsTypeOK
<1>5. /\ importBatch' \in ImportBatch /\ importBatch'.status = "archived"
      /\ importBatch'.total = importBatch.total
      /\ importBatch'.accepted = importBatch.accepted
      /\ importBatch'.rejected = importBatch.rejected
      /\ importBatch'.warnings = importBatch.warnings
  BY <1>4 DEF ArchiveCommit, ImportBatch, BatchStatus
<1>6. CopyBacked(importBatch)'
  <2>1. PICK b \in ImportBatch : b = importBatch
    BY <1>4
  <2>2. CopyBacked(b)'
    BY <1>3, <1>4, <2>1, StillBacked DEF BatchSound
  <2> QED
    BY <1>5, <2>1, <2>2 DEF CopyBacked
<1>7. BatchGrows
  BY <1>3, <1>4, <1>5, <1>6 DEF BatchGrows, BatchSound
<1> QED
  BY <1>1, <1>2, <1>3, <1>7, RequestsKeep

LEMMA ReprocessKeeps ==
    ASSUME LifeTypeOK, ImportsInv, NEW r \in Requests, NEW n \in Runs, ReprocessCommit(r, n)
    PROVE  LifeTypeOK' /\ ImportsInv'
<1>1. PendingRun("reprocess_market_jd", NoRun, 0) \in Run
  BY DEF PendingRun, RunRow, Run, Status, RunType
<1>2. [IdleRequest EXCEPT !.pc = "send", !.run = n] \in Request
  BY DEF IdleRequest, Request, Status
<1>3. LifeTypeOK'
  BY <1>1, <1>2 DEF ReprocessCommit, LifeTypeOK
<1> QED
  BY <1>3, ImportsStay DEF ReprocessCommit

LEMMA ReadIdleKeeps ==
    ASSUME LifeTypeOK, ImportsInv, NEW r \in Requests, NEW pc \in {"reprocess", "archive"},
           ReadIdleBatch(r, pc)
    PROVE  LifeTypeOK' /\ ImportsInv'
<1>1. \A q \in Request : [q EXCEPT !.pc = pc] \in Request
  BY DEF Request
<1>2. request' \in [Requests -> Request]
  BY <1>1 DEF ReadIdleBatch, LifeTypeOK
<1>3. LifeTypeOK'
  BY <1>2 DEF ReadIdleBatch, LifeTypeOK
<1> QED
  BY <1>3, ImportsStay DEF ReadIdleBatch

LEMMA ImportsStepKeeps ==
    ASSUME LifeTypeOK, ImportsInv, ImportsNext
    PROVE  LifeTypeOK' /\ ImportsInv'
<1>1. CASE LifeNext /\ UNCHANGED importVars
  BY <1>1, LifeKeeps, ImportsStay
<1>2. ASSUME NEW r \in Requests, NEW old \in Runs, NEW new \in Runs, RetryRun(r, old, new),
             UNCHANGED importVars
      PROVE  LifeTypeOK' /\ ImportsInv'
  BY <1>2, RetryRunKeeps, ImportsStay
<1>3. ASSUME NEW r \in Requests, ReprocessRead(r) \/ ArchiveRead(r)
      PROVE  LifeTypeOK' /\ ImportsInv'
  BY <1>3, ReadIdleKeeps DEF ReprocessRead, ArchiveRead
<1>4. ASSUME NEW w \in Importers, ImportCrash(w) PROVE LifeTypeOK' /\ ImportsInv'
  <2>1. LifeTypeOK'
    BY <1>4 DEF ImportCrash, lifeVars, LifeTypeOK
  <2> QED
    BY <1>4, <2>1, NothingWritten, ImporterLeaves DEF ImportCrash
<1>5. ASSUME NEW w \in Importers,
             \/ \E n \in Runs : ImportTake(w, n)
             \/ ImportSettle(w) \/ ImportStart(w) \/ ImportFail(w) \/ ImportParsed(w)
             \/ ImportChunk(w) \/ ImportFinish(w)
             \/ \E k \in 0 .. 1 : ImportCancel(w, k)
             \/ ImportReopen(w) \/ RenormRead(w) \/ RenormChunk(w)
             \/ RenormFinish(w) \/ RenormCancel(w) \/ ImportCrash(w)
      PROVE  LifeTypeOK' /\ ImportsInv'
  BY <1>4, <1>5, ImportTakeKeeps, ImportSettleKeeps, ImportStartKeeps, ImportFailKeeps,
     ImportParsedKeeps, ImportChunkKeeps, ImportFinishKeeps, ImportCancelKeeps,
     ImportReopenKeeps, RenormReadKeeps, RenormChunkKeeps, RenormFinishKeeps,
     RenormCancelKeeps
<1> QED
  BY <1>1, <1>2, <1>3, <1>5, CreateImportKeeps, ReprocessKeeps, ArchiveKeeps
     DEF ImportsNext

-----------------------------------------------------------------------------
\* What the invariants say of the properties.
LEMMA CountsBacked == ImportsInv => CountsAreBacked
<1> SUFFICES ASSUME ImportsInv PROVE CountsAreBacked
  OBVIOUS
<1> DEFINE ok == Cardinality(ImportedOf("ok"))
           warn == Cardinality(ImportedOf("warn"))
           bad == Cardinality(RowsOf("bad"))
           there == Cardinality(ImportedRows)
           N == Len(FileRows)
<1>1. /\ importBatch \in ImportBatch /\ BatchSound
      /\ importBatch.accepted \in Nat /\ importBatch.warnings \in Nat
      /\ importBatch.rejected \in Nat /\ importBatch.total \in Nat
  BY DEF ImportsInv, ImportsTypeOK, ImportBatch
<1>2. /\ importBatch.accepted <= ok /\ importBatch.warnings <= warn
      /\ importBatch.rejected <= bad
  BY <1>1 DEF BatchSound, CopyBacked
<1>3. /\ ImportedOf("ok") \in SUBSET RowNos /\ ImportedOf("warn") \in SUBSET RowNos
      /\ RowsOf("bad") \in SUBSET RowNos /\ ImportedRows \in SUBSET RowNos
  BY DEF ImportedOf, RowsOf, ImportedRows
<1>4. /\ IsFiniteSet(ImportedOf("ok")) /\ IsFiniteSet(ImportedOf("warn"))
      /\ IsFiniteSet(RowsOf("bad")) /\ IsFiniteSet(ImportedRows)
      /\ ok \in Nat /\ warn \in Nat /\ bad \in Nat /\ there \in Nat /\ N \in Nat
  BY <1>3, RowsFinite, RowNumbers
<1>5. ok + warn <= there
  <2> DEFINE U == ImportedOf("ok") \cup ImportedOf("warn")
             I == ImportedOf("ok") \cap ImportedOf("warn")
  <2>1. I = {} /\ U \in SUBSET ImportedRows
    BY DEF ImportedOf, RowsOf
  <2>2. Cardinality(U) = ok + warn - Cardinality(I)
    BY <1>4, FS_Union
  <2>3. Cardinality(I) = 0
    BY <2>1, FS_EmptySet
  <2>4. Cardinality(U) <= there
    BY <1>3, <2>1, SmallerRows
  <2> HIDE DEF U, I, ok, warn, there
  <2> QED
    BY <1>4, <2>2, <2>3, <2>4
<1>6. ok + bad <= N
  <2> DEFINE U == ImportedOf("ok") \cup RowsOf("bad")
             I == ImportedOf("ok") \cap RowsOf("bad")
  <2>1. I = {} /\ U \in SUBSET RowNos
    BY <1>3 DEF ImportedOf, RowsOf
  <2>2. Cardinality(U) = ok + bad - Cardinality(I)
    BY <1>4, FS_Union
  <2>3. Cardinality(I) = 0
    BY <2>1, FS_EmptySet
  <2>4. Cardinality(U) <= N
    BY <2>1, RowsFinite
  <2> HIDE DEF U, I, ok, bad, N
  <2> QED
    BY <1>4, <2>2, <2>3, <2>4
<1>7. ok > 0 => ImportedRows # {}
  <2>1. ImportedOf("ok") # {} => ImportedRows # {}
    BY DEF ImportedOf
  <2> QED
    BY <2>1, FS_EmptySet
<1> HIDE DEF ok, warn, bad, there, N
<1>8. importBatch.accepted + importBatch.warnings <= there
  BY <1>1, <1>2, <1>4, <1>5
<1>9. importBatch.accepted + importBatch.rejected <= importBatch.total
  <2>1. CASE importBatch.accepted = 0 /\ importBatch.rejected = 0
    BY <1>1, <2>1
  <2>2. CASE importBatch.accepted > 0 \/ importBatch.rejected > 0
    <3>1. importBatch.total = N
      <4>1. importBatch.accepted > 0 => ok > 0
        BY <1>1, <1>2, <1>4
      <4> QED
        BY <1>1, <1>7, <2>2, <4>1 DEF BatchSound, N
    <3> QED
      BY <1>1, <1>2, <1>4, <1>6, <3>1
  <2> QED
    BY <1>1, <2>1, <2>2
<1>10. importBatch.status = "processed" => there = Cardinality(Insertable(RowNos))
  <2>1. ImportedRows \subseteq Insertable(RowNos)
    BY DEF ImportsInv, RowsSound, Insertable, ImportedRows
  <2>2. importBatch.status = "processed" => ImportedRows = Insertable(RowNos)
    BY <1>1, <2>1 DEF BatchSound
  <2> QED
    BY <2>2 DEF there
<1>11. {i \in RowNos : raws[i] # <<>>} = ImportedRows
  BY DEF ImportedRows
<1> QED
  BY <1>8, <1>9, <1>10, <1>11 DEF CountsAreBacked, there

LEMMA DiscoveryWhole == DiscoveryInv => CompletedDiscoveryIsWhole
BY DEF DiscoveryInv, CompletionSound, CompletedDiscoveryIsWhole
=============================================================================
