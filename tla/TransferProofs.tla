--------------------------- MODULE TransferProofs ---------------------------
(***************************************************************************)
(* A transfer that fails, is cancelled or loses its connection leaves no   *)
(* half of a file, for any number of runs at once, of any number of files  *)
(* of any size, onto whatever was there - as long as no two of the files   *)
(* they write have one name, with .part behind it or without.              *)
(***************************************************************************)
EXTENDS Transfer, SequenceTheorems, TLAPS

\* No file of a plan, or of the plan of another run, is written under the name of
\* another, or under the name of its partial file.
Separate ==
    \A r, s \in Runs : \A i \in DOMAIN plan[r], j \in DOMAIN plan[s] :
        /\ plan[r][i] # Partial(plan[s][j])
        /\ plan[r][i] = plan[s][j] => r = s /\ i = j

\* The name the bytes of item i go to, and the files that may be it.
TargetOf(r, i) == IF direction = "download" THEN Partial(plan[r][i]) ELSE plan[r][i]
Own(r, i) == {TargetOf(r, i), <<r, i>>}

-----------------------------------------------------------------------------
(* The inductive invariant.                                                *)

\* How many items are begun and how many finished, at each stage of a run.
Stage(r) ==
    /\ run[r].item <= Len(plan[r]) /\ run[r].item <= run[r].cancelledAt
    /\ run[r].pc \in {"dirs", "next"} => run[r].finished = run[r].item
    /\ run[r].pc \in {"open", "copying", "closing", "placing"} => run[r].item = run[r].finished + 1
    /\ run[r].pc = "ended" => run[r].item \in {run[r].finished, run[r].finished + 1}
    /\ run[r].pc = "placing" => direction = "download"
    /\ run[r].result = "error" => run[r].pc = "ended"

\* The item in hand: not begun, arriving, arrived, or given up.
InHand(r) ==
    LET i == run[r].item
        file == run[r].file
    IN  /\ run[r].pc = "open" => AsFound(TargetOf(r, i))
        /\ run[r].pc \in {"copying", "closing", "placing"} =>
              /\ file \in Own(r, i) /\ names[TargetOf(r, i)] = file
              /\ content[file] = IF run[r].pc = "copying" THEN <<"half", r>> ELSE Whole
        /\ run[r].pc = "ended" /\ i = run[r].finished + 1 =>
              \/ AsFound(TargetOf(r, i)) \/ names[TargetOf(r, i)] = NoFile
              \/ direction = "upload" /\ ~run[r].link

\* The others: whole and in place, or as they were found.
Others(r, i) ==
    /\ i > run[r].item => AsFound(TargetOf(r, i))
    /\ i <= run[r].finished =>
          /\ names[plan[r][i]] \in Own(r, i) /\ content[names[plan[r][i]]] = Whole
          /\ direction = "download" => names[TargetOf(r, i)] = NoFile
    /\ i > run[r].finished /\ direction = "download" => AsFound(plan[r][i])

RunInv(r) == Stage(r) /\ InHand(r) /\ \A i \in DOMAIN plan[r] : Others(r, i)

TransferInv == TransferTypeOK /\ Separate /\ \A r \in Runs : RunInv(r)

\* What holds of any runs, whatever the names of their files: how far each is, and what
\* it has reported by then.
Reported(r) ==
    /\ run[r].result # "running" <=> run[r].pc = "ended"
    /\ run[r].pc \in {"dirs", "next"} \/ run[r].result = "ok" =>
          run[r].shown = <<run[r].moved, run[r].finished>>
    /\ run[r].result = "ok" => run[r].finished = Len(plan[r])

Counted == TransferTypeOK /\ \A r \in Runs : Stage(r)

-----------------------------------------------------------------------------
(* Names and files.                                                        *)

\* What may happen to run r.
StepOf(r) == Cancel(r) \/ LinkDrops(r) \/ RunStep(r)

\* The two names of an item, and the file made for it.
Footprint(r, i) == {plan[r][i], Partial(plan[r][i]), <<r, i>>}

LEMMA PartialIsInjective ==
    ASSUME NEW p \in Seq(STRING), NEW q \in Seq(STRING), Partial(p) = Partial(q)
    PROVE  p = q
  BY AppendInjective DEF Partial

\* An item's names are paths, and what is made for it is a file.
LEMMA ItemsHaveNames ==
    ASSUME TransferAssumption, TransferTypeOK, NEW r \in Runs, NEW i \in DOMAIN plan[r]
    PROVE  /\ i \in 1 .. MaxItems /\ i <= Len(plan[r]) /\ Len(plan[r]) \in Nat
           /\ plan[r][i] \in Seq(STRING)
           /\ plan[r][i] \in Paths /\ Partial(plan[r][i]) \in Paths /\ TargetOf(r, i) \in Paths
           /\ <<r, i>> \in Made /\ Footprint(r, i) \subseteq FileIds /\ Own(r, i) \subseteq Footprint(r, i)
<1>1. plan[r] \in Plans /\ plan[r] \in Seq(Seq(STRING))
  BY DEF TransferTypeOK, TransferAssumption
<1>2. i \in 1 .. Len(plan[r]) /\ Len(plan[r]) \in Nat /\ plan[r][i] \in Seq(STRING)
  BY <1>1
<1>3. i \in 1 .. MaxItems
  BY <1>1, <1>2 DEF TransferAssumption
<1>4. plan[r][i] \in Dests
  BY <1>1 DEF Dests, ToSet
<1>5. plan[r][i] \in Paths /\ Partial(plan[r][i]) \in Paths
  BY <1>4 DEF Paths
<1> QED BY <1>2, <1>3, <1>5 DEF TargetOf, Made, FileIds, Footprint, Own

\* Two items have nothing in common.
LEMMA ItemsAreApart ==
    ASSUME TransferAssumption, TransferTypeOK, Separate,
           NEW r \in Runs, NEW i \in DOMAIN plan[r], NEW s \in Runs, NEW j \in DOMAIN plan[s],
           r # s \/ i # j
    PROVE  Footprint(r, i) \cap Footprint(s, j) = {}
<1>1. /\ plan[r][i] # plan[s][j] /\ plan[r][i] # Partial(plan[s][j])
      /\ plan[s][j] # Partial(plan[r][i])
  BY DEF Separate
<1>2. Partial(plan[r][i]) # Partial(plan[s][j])
  BY <1>1, ItemsHaveNames, PartialIsInjective
<1>3. <<r, i>> \notin Paths /\ <<s, j>> \notin Paths
  BY ItemsHaveNames DEF TransferAssumption
<1>4. <<r, i>> # <<s, j>>
  OBVIOUS
<1> QED BY <1>1, <1>2, <1>3, <1>4, ItemsHaveNames DEF Footprint

-----------------------------------------------------------------------------
(* What a step of run r leaves alone.                                      *)

\* A step of one run leaves the others where they are.
LEMMA OneRunSteps ==
    ASSUME run \in [Runs -> RunState], NEW r \in Runs, StepOf(r)
    PROVE  UNCHANGED given /\ \A s \in Runs \ {r} : run'[s] = run[s]
<1>1. UNCHANGED given
  BY DEF StepOf, RunStep, Cancel, LinkDrops, MakeDirs, NextItem, Open, Packet, CopyEnds, Fails,
         Close, Place
<1>2. \A s \in Runs \ {r} : run'[s] = run[s]
  BY DEF StepOf, RunStep, Cancel, LinkDrops, MakeDirs, NextItem, Open, Packet, CopyEnds, Fails,
         Close, Place, Finish, End
<1>3. QED
  BY <1>1, <1>2

\* A step touches the names and the file of the item in hand, and of the run itself.
LEMMA StepStaysWithItem ==
    ASSUME TransferAssumption, TransferInv, NEW r \in Runs, StepOf(r)
    PROVE  /\ UNCHANGED given
           /\ \A s \in Runs \ {r} : run'[s] = run[s]
           /\ names' # names \/ content' # content => run[r].item \in DOMAIN plan[r]
           /\ \A x \in Paths : (x \notin Footprint(r, run[r].item) => names'[x] = names[x])
           /\ \A f \in FileIds : (f \notin Footprint(r, run[r].item) => content'[f] = content[f])
<1> DEFINE i == run[r].item
<1>0. /\ run \in [Runs -> RunState] /\ names \in [Paths -> FileIds \union {NoFile}]
      /\ content \in [FileIds -> {Previous, Whole} \union Half]
  BY DEF TransferInv, TransferTypeOK
<1>1. /\ run[r] \in RunState /\ i \in Nat /\ run[r].finished \in Nat
      /\ plan[r] \in Seq(Seq(STRING)) /\ RunInv(r) /\ TransferTypeOK
      /\ i <= Len(plan[r]) /\ (run[r].pc \in {"open", "copying", "closing", "placing"} => i = run[r].finished + 1)
  BY <1>0 DEF TransferInv, TransferTypeOK, TransferAssumption, RunState, RunInv, Stage
<1>2. run[r].pc \in {"open", "copying", "closing", "placing"} => i \in DOMAIN plan[r]
  BY <1>1
<1>3. run[r].pc \in {"open", "copying", "closing", "placing"} => Target(r) = TargetOf(r, i) /\ Target(r) \in Footprint(r, i)
  BY DEF Target, TargetOf, Dest, Footprint
<1>4. CASE Cancel(r) \/ LinkDrops(r) \/ MakeDirs(r) \/ NextItem(r) \/ Packet(r) \/ Close(r)
  BY <1>0, <1>4 DEF Cancel, LinkDrops, MakeDirs, NextItem, Packet, Close, Finish, End
<1>5. CASE Open(r)
  <2>1. run[r].pc = "open" /\ i \in DOMAIN plan[r] /\ AsFound(Target(r))
    BY <1>1, <1>2, <1>3, <1>5 DEF Open, RunInv, InHand
  <2>2. names[Target(r)] = NoFile \/ names[Target(r)] = Target(r)
    BY <2>1 DEF AsFound
  <2> QED BY <1>0, <1>3, <1>5, <2>1, <2>2 DEF Open, End, Footprint
<1>6. CASE CopyEnds(r)
  <2>1. run[r].pc = "copying" /\ i \in DOMAIN plan[r] /\ run[r].file \in Footprint(r, i)
    BY <1>1, <1>2, <1>6, ItemsHaveNames DEF CopyEnds, RunInv, InHand
  <2> QED BY <1>0, <1>6, <2>1 DEF CopyEnds
<1>7. CASE Fails(r)
  BY <1>0, <1>2, <1>3, <1>7 DEF Fails, End
<1>8. CASE Place(r)
  <2>1. Dest(r) \in Footprint(r, i)
    BY DEF Dest, Footprint
  <2> QED BY <1>0, <1>2, <1>3, <1>8, <2>1 DEF Place, Finish, End
<1> QED BY <1>4, <1>5, <1>6, <1>7, <1>8 DEF StepOf, RunStep

\* So what is said of any other item stays as it was.
LEMMA OthersAreKept ==
    ASSUME TransferAssumption, TransferInv, NEW r \in Runs, StepOf(r),
           NEW s \in Runs, NEW j \in DOMAIN plan[s], s # r \/ j # run[r].item
    PROVE  /\ j \in DOMAIN plan'[s] /\ plan'[s][j] = plan[s][j] /\ direction' = direction
           /\ TargetOf(s, j)' = TargetOf(s, j) /\ Own(s, j)' = Own(s, j)
           /\ \A x \in {plan[s][j], Partial(plan[s][j])} :
                 names'[x] = names[x] /\ AsFound(x)' = AsFound(x)
           /\ \A f \in Footprint(s, j) : content'[f] = content[f]
<1>1. UNCHANGED given
  BY StepStaysWithItem
<1>2. TransferTypeOK /\ Separate
  BY DEF TransferInv
<1>3. /\ plan[s][j] \in Paths /\ Partial(plan[s][j]) \in Paths /\ Footprint(s, j) \subseteq FileIds
      /\ plan[s][j] \in Footprint(s, j) /\ Partial(plan[s][j]) \in Footprint(s, j)
  BY <1>2, ItemsHaveNames DEF Footprint
<1>4. /\ \A x \in {plan[s][j], Partial(plan[s][j])} : names'[x] = names[x]
      /\ \A f \in Footprint(s, j) : content'[f] = content[f]
  <2>1. CASE run[r].item \in DOMAIN plan[r]
    <3>1. Footprint(s, j) \cap Footprint(r, run[r].item) = {}
      BY <1>2, <2>1, ItemsAreApart
    <3> QED BY <1>3, <3>1, StepStaysWithItem
  <2>2. CASE run[r].item \notin DOMAIN plan[r]
    BY <2>2, StepStaysWithItem
  <2> QED BY <2>1, <2>2
<1> QED BY <1>1, <1>3, <1>4 DEF given, TargetOf, Own, AsFound

-----------------------------------------------------------------------------
(* Every step keeps the invariant.                                         *)

LEMMA FinishIsTyped ==
    ASSUME TransferAssumption, run \in [Runs -> RunState], NEW r \in Runs, Finish(r),
           run[r].finished + 1 \in 0 .. MaxItems
    PROVE  run' \in [Runs -> RunState]
<1> DEFINE n == run[r].finished + 1
           shown == <<run[r].moved, n>>
<1>1. run[r] \in RunState
  OBVIOUS
<1>2. n \in 0 .. MaxItems /\ shown \in Nat \X (0 .. MaxItems)
  BY <1>1 DEF RunState
<1>3. run' = [run EXCEPT ![r].pc = "next", ![r].finished = n, ![r].shown = shown]
  BY <1>1 DEF Finish
<1> HIDE DEF n, shown
<1> QED BY <1>1, <1>2, <1>3 DEF RunState

LEMMA EndIsTyped ==
    ASSUME run \in [Runs -> RunState], NEW r \in Runs, NEW result \in {"ok", "error"},
           End(r, result)
    PROVE  run' \in [Runs -> RunState]
<1>1. run' = [run EXCEPT ![r].pc = "ended", ![r].result = result] /\ run[r] \in RunState
  BY DEF End
<1> QED BY <1>1 DEF RunState

\* The types, which need to know how far the run is.
LEMMA TypesAreKept ==
    ASSUME TransferAssumption, Counted, NEW r \in Runs, StepOf(r)
    PROVE  TransferTypeOK'
<1> DEFINE i == run[r].item
<1>1. /\ run \in [Runs -> RunState] /\ names \in [Paths -> FileIds \union {NoFile}]
      /\ content \in [FileIds -> {Previous, Whole} \union Half]
      /\ run[r] \in RunState /\ Stage(r) /\ TransferTypeOK
  BY DEF Counted, TransferTypeOK
<1>2. /\ i \in 0 .. MaxItems /\ run[r].finished \in 0 .. MaxItems /\ run[r].moved \in Nat
      /\ MaxItems \in Nat /\ MaxPackets \in Nat
      /\ Len(plan[r]) \in 0 .. MaxItems /\ i <= Len(plan[r])
  BY <1>1 DEF RunState, Stage, TransferTypeOK, TransferAssumption
<1>3. UNCHANGED given
  BY <1>1, OneRunSteps
<1>4. ASSUME run[r].pc \in {"open", "copying", "closing", "placing"}
      PROVE  /\ i \in 1 .. Len(plan[r]) /\ i \in DOMAIN plan[r] /\ i = run[r].finished + 1
             /\ Target(r) = TargetOf(r, i) /\ Target(r) \in Paths /\ Dest(r) \in Paths
             /\ <<r, i>> \in FileIds
  <2>1. i \in DOMAIN plan[r] /\ i \in 1 .. Len(plan[r]) /\ i = run[r].finished + 1
    BY <1>1, <1>2, <1>4 DEF Stage, TransferTypeOK, TransferAssumption
  <2> QED BY <1>1, <2>1, ItemsHaveNames DEF Target, TargetOf, Dest, FileIds
<1>5. run' \in [Runs -> RunState] /\ names' \in [Paths -> FileIds \union {NoFile}]
      /\ content' \in [FileIds -> {Previous, Whole} \union Half]
  <2>1. CASE Cancel(r)
    <3>1. i \in 0 .. NotCancelled
      BY <1>2 DEF NotCancelled
    <3>2. run' = [run EXCEPT ![r].cancelledAt = i] /\ UNCHANGED <<names, content>>
      BY <2>1 DEF Cancel
    <3> HIDE DEF i
    <3> QED BY <1>1, <3>1, <3>2 DEF RunState
  <2>2. CASE LinkDrops(r)
    BY <1>1, <2>2 DEF LinkDrops, RunState
  <2>3. CASE MakeDirs(r)
    BY <1>1, <2>3 DEF MakeDirs, RunState, End
  <2>4. CASE NextItem(r)
    <3>1. CASE End(r, "ok") \/ End(r, "error")
      BY <1>1, <2>4, <3>1, EndIsTyped DEF NextItem
    <3>2. CASE ~(End(r, "ok") \/ End(r, "error"))
      <4>1. run' = [run EXCEPT ![r].pc = "open", ![r].item = @ + 1, ![r].packets = 0]
        BY <2>4, <3>2 DEF NextItem
      <4>2. i + 1 \in 0 .. MaxItems
        BY <1>2, <2>4, <3>2 DEF NextItem
      <4>3. 0 \in 0 .. MaxPackets /\ UNCHANGED <<names, content>>
        BY <1>2, <2>4 DEF NextItem
      <4>4. run' = [run EXCEPT ![r].pc = "open", ![r].item = i + 1, ![r].packets = 0]
        BY <1>1, <4>1
      <4> DEFINE n == i + 1
      <4> HIDE DEF n, i
      <4> QED BY <1>1, <4>2, <4>3, <4>4 DEF RunState, n
    <3> QED BY <3>1, <3>2
  <2>5. CASE Open(r)
    <3>1. run[r].pc = "open"
      BY <2>5 DEF Open
    <3>2. CASE End(r, "error") /\ UNCHANGED <<names, content>>
      BY <1>1, <3>2 DEF End, RunState
    <3>3. CASE ~(End(r, "error") /\ UNCHANGED <<names, content>>)
      <4> DEFINE f == IF names[Target(r)] = NoFile THEN <<r, i>> ELSE names[Target(r)]
      <4>1. f \in FileIds
        BY <1>1, <1>4, <3>1
      <4>2. <<"half", r>> \in Half
        BY DEF Half
      <4>3. /\ names' = [names EXCEPT ![Target(r)] = f]
            /\ content' = [content EXCEPT ![f] = <<"half", r>>]
            /\ run' = [run EXCEPT ![r].pc = "copying", ![r].file = f]
        BY <2>5, <3>3 DEF Open
      <4> HIDE DEF f
      <4> QED BY <1>1, <4>1, <4>2, <4>3 DEF RunState
    <3> QED BY <3>2, <3>3
  <2>6. CASE Packet(r)
    <3>1. PICK shown \in {run[r].shown, <<run[r].moved + 1, run[r].finished>>} :
             run' = [run EXCEPT ![r].packets = @ + 1, ![r].moved = @ + 1, ![r].shown = shown]
      BY <2>6 DEF Packet
    <3>2. shown \in Nat \X (0 .. MaxItems)
      BY <1>1, <1>2 DEF RunState
    <3>3. run[r].packets + 1 \in 0 .. MaxPackets
      BY <1>1, <1>2, <2>6 DEF Packet, RunState
    <3> QED BY <1>1, <1>2, <2>6, <3>1, <3>2, <3>3 DEF Packet, RunState
  <2>7. CASE CopyEnds(r)
    <3>1. run' = [run EXCEPT ![r].pc = "closing"] /\ UNCHANGED names
      BY <2>7 DEF CopyEnds
    <3>2. content' = [content EXCEPT ![run[r].file] = IF @ = <<"half", r>> THEN Whole ELSE @]
      BY <2>7 DEF CopyEnds
    <3>3. content' \in [FileIds -> {Previous, Whole} \union Half]
      BY <1>1, <3>2
    <3> QED BY <1>1, <3>1, <3>3 DEF RunState
  <2>8. CASE Fails(r)
    BY <1>1, <1>4, <2>8 DEF Fails, End, RunState
  <2>9. CASE Close(r)
    <3>1. run[r].pc = "closing" /\ UNCHANGED <<names, content>>
      BY <2>9 DEF Close
    <3>2. run[r].finished + 1 \in 0 .. MaxItems
      BY <1>2, <1>4, <3>1
    <3>3. run' = [run EXCEPT ![r].pc = "placing"] \/ Finish(r)
      BY <2>9 DEF Close
    <3>4. run' = [run EXCEPT ![r].pc = "placing"] => run' \in [Runs -> RunState]
      BY <1>1 DEF RunState
    <3> QED BY <1>1, <3>1, <3>2, <3>3, <3>4, FinishIsTyped
  <2>10. CASE Place(r)
    <3>1. run[r].pc = "placing" /\ UNCHANGED content
      BY <2>10 DEF Place
    <3>2. run[r].finished + 1 \in 0 .. MaxItems
      BY <1>2, <1>4, <3>1
    <3>3. names' \in [Paths -> FileIds \union {NoFile}]
      BY <1>1, <1>4, <2>10, <3>1 DEF Place
    <3>4. Finish(r) \/ End(r, "error")
      BY <2>10 DEF Place
    <3>5. End(r, "error") => run' \in [Runs -> RunState]
      BY <1>1, EndIsTyped
    <3> QED BY <1>1, <1>2, <3>1, <3>2, <3>3, <3>4, <3>5, FinishIsTyped
  <2> QED BY <2>1, <2>2, <2>3, <2>4, <2>5, <2>6, <2>7, <2>8, <2>9, <2>10 DEF StepOf, RunStep
<1> QED BY <1>1, <1>3, <1>5 DEF TransferTypeOK, given

LEMMA InvIsCounted == TransferInv => Counted
  BY DEF TransferInv, RunInv, Counted

\* A run another one steps beside.
LEMMA OtherRunsAreKept ==
    ASSUME TransferAssumption, TransferInv, NEW r \in Runs, StepOf(r), NEW s \in Runs, s # r
    PROVE  RunInv(s)'
<1>1. UNCHANGED given /\ run'[s] = run[s]
  BY StepStaysWithItem
<1>2. Stage(s) /\ InHand(s) /\ \A j \in DOMAIN plan[s] : Others(s, j)
  BY DEF TransferInv, RunInv
<1>3. plan'[s] = plan[s] /\ direction' = direction
  BY <1>1 DEF given
<1>4. Stage(s)'
  BY <1>1, <1>2, <1>3 DEF Stage
<1>5. ASSUME NEW j \in DOMAIN plan[s] PROVE Others(s, j)'
  <2>1. Others(s, j)
    BY <1>2
  <2>2. /\ names'[plan[s][j]] = names[plan[s][j]] /\ names'[TargetOf(s, j)] = names[TargetOf(s, j)]
        /\ AsFound(plan[s][j])' = AsFound(plan[s][j])
        /\ AsFound(TargetOf(s, j))' = AsFound(TargetOf(s, j))
    BY <1>1, <1>3, OthersAreKept DEF TargetOf
  <2>3. \A f \in Own(s, j) : content'[f] = content[f]
    <3>1. Own(s, j) \subseteq Footprint(s, j)
      BY ItemsHaveNames DEF TransferInv
    <3> QED BY <3>1, OthersAreKept
  <2>4. TargetOf(s, j)' = TargetOf(s, j) /\ Own(s, j)' = Own(s, j) /\ plan'[s][j] = plan[s][j]
    BY OthersAreKept
  <2> QED BY <1>1, <1>3, <2>1, <2>2, <2>3, <2>4 DEF Others
<1>6. InHand(s)'
  <2> SUFFICES ASSUME NEW j, j = run[s].item
               PROVE  InHand(s)'
    OBVIOUS
  <2>1. CASE j \in DOMAIN plan[s]
    <3>1. /\ names'[TargetOf(s, j)] = names[TargetOf(s, j)]
          /\ AsFound(TargetOf(s, j))' = AsFound(TargetOf(s, j))
      BY <1>1, <1>3, <2>1, OthersAreKept DEF TargetOf
    <3>2. \A f \in Own(s, j) : content'[f] = content[f]
      <4>1. Own(s, j) \subseteq Footprint(s, j)
        BY <2>1, ItemsHaveNames DEF TransferInv
      <4> QED BY <2>1, <4>1, OthersAreKept
    <3>3. TargetOf(s, j)' = TargetOf(s, j) /\ Own(s, j)' = Own(s, j)
      BY <2>1, OthersAreKept
    <3> QED BY <1>1, <1>2, <1>3, <3>1, <3>2, <3>3 DEF InHand
  <2>2. CASE j \notin DOMAIN plan[s]
    <3>1. run[s].pc \notin {"open", "copying", "closing", "placing"} /\ j # run[s].finished + 1
      <4>1. run[s] \in RunState /\ plan[s] \in Seq(Seq(STRING))
        BY DEF TransferInv, TransferTypeOK, TransferAssumption
      <4>2. j \in Nat /\ run[s].finished \in Nat /\ j <= Len(plan[s])
        BY <1>2, <4>1 DEF Stage, RunState
      <4> QED BY <1>2, <2>2, <4>1, <4>2 DEF Stage
    <3> QED BY <1>1, <1>3, <3>1 DEF InHand
  <2> QED BY <2>1, <2>2
<1> QED BY <1>3, <1>4, <1>5, <1>6 DEF RunInv

\* What the invariant says of the item in hand while it is in hand.
LEMMA HandIsFull ==
    ASSUME TransferAssumption, TransferInv, NEW r \in Runs, NEW i, i = run[r].item,
           run[r].pc \in {"open", "copying", "closing", "placing"}
    PROVE  /\ i \in DOMAIN plan[r] /\ i = run[r].finished + 1
           /\ i \in Nat /\ run[r].finished \in Nat
           /\ Target(r) = TargetOf(r, i) /\ Dest(r) = plan[r][i]
           /\ TargetOf(r, i) \in Paths /\ plan[r][i] \in Paths /\ <<r, i>> \in FileIds
           /\ plan[r][i] # Partial(plan[r][i]) /\ plan[r][i] # <<r, i>>
           /\ TargetOf(r, i) # NoFile /\ <<r, i>> # NoFile
           /\ (direction = "download" => plan[r][i] \notin Own(r, i))
<1>1. run[r] \in RunState /\ plan[r] \in Seq(Seq(STRING)) /\ Stage(r) /\ TransferTypeOK /\ Separate
  BY DEF TransferInv, TransferTypeOK, TransferAssumption, RunInv
<1>2. i \in Nat /\ run[r].finished \in Nat /\ i = run[r].finished + 1 /\ i <= Len(plan[r])
  BY <1>1 DEF RunState, Stage
<1>3. i \in DOMAIN plan[r]
  BY <1>1, <1>2
<1>4. plan[r][i] # Partial(plan[r][i])
  BY <1>1, <1>3 DEF Separate
<1>5. /\ plan[r][i] \in Paths /\ TargetOf(r, i) \in Paths /\ <<r, i>> \in Made
  BY <1>1, <1>3, ItemsHaveNames
<1>6. plan[r][i] # <<r, i>> /\ TargetOf(r, i) # NoFile /\ <<r, i>> # NoFile
  BY <1>5 DEF TransferAssumption, FileIds
<1> QED BY <1>2, <1>3, <1>4, <1>5, <1>6 DEF Target, TargetOf, Dest, FileIds, Own

\* How far the run is, after its own step.
LEMMA StageIsKept ==
    ASSUME TransferAssumption, Counted, NEW r \in Runs, StepOf(r)
    PROVE  /\ Stage(r)'
           /\ run'[r].item \in {run[r].item, run[r].item + 1}
           /\ run'[r].item # run[r].item => run[r].pc = "next" /\ run'[r].pc = "open"
           /\ \/ run'[r].finished = run[r].finished
              \/ /\ run'[r].finished = run[r].finished + 1 /\ run[r].item = run[r].finished + 1
                 /\ run'[r].pc = "next" /\ run[r].pc \in {"closing", "placing"}
<1>1. /\ run \in [Runs -> RunState] /\ run[r] \in RunState /\ plan[r] \in Seq(Seq(STRING))
      /\ Stage(r) /\ plan' = plan /\ direction' = direction /\ TransferTypeOK
      /\ Len(plan[r]) <= MaxItems /\ MaxItems \in Nat
  BY OneRunSteps DEF Counted, TransferTypeOK, TransferAssumption, given
<1>2. /\ run[r].item \in Nat /\ run[r].finished \in Nat /\ run[r].cancelledAt \in Nat
      /\ Len(plan[r]) \in Nat
  BY <1>1 DEF RunState, NotCancelled
<1>3. CASE Cancel(r) \/ LinkDrops(r)
  <2>1. \/ /\ run[r].pc # "ended"
           /\ run'[r].pc = run[r].pc
           /\ run'[r].item = run[r].item
           /\ run'[r].finished = run[r].finished
           /\ run'[r].cancelledAt = run[r].cancelledAt
           /\ run'[r].result = run[r].result
        \/ /\ run[r].pc # "ended"
           /\ run'[r].pc = run[r].pc
           /\ run'[r].item = run[r].item
           /\ run'[r].finished = run[r].finished
           /\ run'[r].cancelledAt = run[r].item
           /\ run'[r].result = run[r].result
    BY <1>1, <1>3 DEF Cancel, LinkDrops, RunState
  <2> QED BY <1>1, <1>2, <1>3, <2>1 DEF Stage
<1>4. CASE MakeDirs(r)
  <2>1. \/ /\ run[r].pc = "dirs"
           /\ run'[r].pc = "next"
           /\ run'[r].item = run[r].item
           /\ run'[r].finished = run[r].finished
           /\ run'[r].cancelledAt = run[r].cancelledAt
           /\ run'[r].result = run[r].result
        \/ /\ run[r].pc = "dirs"
           /\ run'[r].pc = "ended"
           /\ run'[r].item = run[r].item
           /\ run'[r].finished = run[r].finished
           /\ run'[r].cancelledAt = run[r].cancelledAt
           /\ run'[r].result = "error"
    BY <1>1, <1>4 DEF MakeDirs, End, RunState
  <2> QED BY <1>1, <1>2, <1>4, <2>1 DEF Stage
<1>5. CASE NextItem(r)
  <2>1. \/ /\ run[r].pc = "next"
           /\ run'[r].pc = "ended"
           /\ run'[r].item = run[r].item
           /\ run'[r].finished = run[r].finished
           /\ run'[r].cancelledAt = run[r].cancelledAt
           /\ run'[r].result \in {"ok", "error"}
        \/ /\ run[r].pc = "next" /\ run[r].item # Len(plan[r]) /\ run[r].cancelledAt = NotCancelled
           /\ run'[r].pc = "open"
           /\ run'[r].item = run[r].item + 1
           /\ run'[r].finished = run[r].finished
           /\ run'[r].cancelledAt = run[r].cancelledAt
           /\ run'[r].result = run[r].result
    BY <1>1, <1>5 DEF NextItem, End, RunState, Cancelled
  <2> QED BY <1>1, <1>2, <1>5, <2>1 DEF Stage, NotCancelled
<1>6. CASE Open(r)
  <2>1. \/ /\ run[r].pc = "open"
           /\ run'[r].pc = "copying"
           /\ run'[r].item = run[r].item
           /\ run'[r].finished = run[r].finished
           /\ run'[r].cancelledAt = run[r].cancelledAt
           /\ run'[r].result = run[r].result
        \/ /\ run[r].pc = "open"
           /\ run'[r].pc = "ended"
           /\ run'[r].item = run[r].item
           /\ run'[r].finished = run[r].finished
           /\ run'[r].cancelledAt = run[r].cancelledAt
           /\ run'[r].result = "error"
    BY <1>1, <1>6 DEF Open, End, RunState
  <2> QED BY <1>1, <1>2, <1>6, <2>1 DEF Stage
<1>7. CASE Packet(r) \/ CopyEnds(r)
  <2>1. /\ run[r].pc = "copying"
        /\ run'[r].pc \in {"copying", "closing"}
        /\ run'[r].item = run[r].item
        /\ run'[r].finished = run[r].finished
        /\ run'[r].cancelledAt = run[r].cancelledAt
        /\ run'[r].result = run[r].result
    BY <1>1, <1>7 DEF Packet, CopyEnds, RunState
  <2> QED BY <1>1, <1>2, <1>7, <2>1 DEF Stage
<1>8. CASE Fails(r)
  <2>1. /\ run[r].pc \in {"copying", "closing"}
        /\ run'[r].pc = "ended"
        /\ run'[r].item = run[r].item
        /\ run'[r].finished = run[r].finished
        /\ run'[r].cancelledAt = run[r].cancelledAt
        /\ run'[r].result = "error"
    BY <1>1, <1>8 DEF Fails, End, RunState
  <2> QED BY <1>1, <1>2, <1>8, <2>1 DEF Stage
<1>9. CASE Close(r) \/ Place(r)
  <2>1. \/ /\ run[r].pc = "closing" /\ direction = "download"
           /\ run'[r].pc = "placing"
           /\ run'[r].item = run[r].item
           /\ run'[r].finished = run[r].finished
           /\ run'[r].cancelledAt = run[r].cancelledAt
           /\ run'[r].result = run[r].result
        \/ /\ run[r].pc \in {"closing", "placing"}
           /\ run'[r].pc = "next"
           /\ run'[r].item = run[r].item
           /\ run'[r].finished = run[r].finished + 1
           /\ run'[r].cancelledAt = run[r].cancelledAt
           /\ run'[r].result = run[r].result
        \/ /\ run[r].pc = "placing"
           /\ run'[r].pc = "ended"
           /\ run'[r].item = run[r].item
           /\ run'[r].finished = run[r].finished
           /\ run'[r].cancelledAt = run[r].cancelledAt
           /\ run'[r].result = "error"
    BY <1>1, <1>9 DEF Close, Place, Finish, End, RunState
  <2> QED BY <1>1, <1>2, <1>9, <2>1 DEF Stage
<1> QED BY <1>3, <1>4, <1>5, <1>6, <1>7, <1>8, <1>9 DEF StepOf, RunStep

\* The items of the run itself that are not in hand, and the one that is done with.
LEMMA OwnItemsAreKept ==
    ASSUME TransferAssumption, TransferInv, NEW r \in Runs, StepOf(r), NEW j \in DOMAIN plan[r]
    PROVE  Others(r, j)'
<1>1. /\ Others(r, j) /\ run[r] \in RunState /\ j \in Nat /\ run[r].item \in Nat
      /\ run[r].finished \in Nat /\ Stage(r) /\ InHand(r) /\ names \in [Paths -> FileIds \union {NoFile}]
      /\ content \in [FileIds -> {Previous, Whole} \union Half] /\ TransferTypeOK
      /\ run \in [Runs -> RunState]
  <2>1. TransferTypeOK /\ RunInv(r) /\ plan[r] \in Seq(Seq(STRING)) /\ run[r] \in RunState
    BY DEF TransferInv, TransferTypeOK, TransferAssumption
  <2>2. run[r].item \in Nat /\ run[r].finished \in Nat /\ j \in Nat
    BY <2>1 DEF RunState
  <2> QED BY <2>1, <2>2 DEF TransferTypeOK, RunInv
<1>2. UNCHANGED given /\ plan'[r] = plan[r] /\ direction' = direction
  BY StepStaysWithItem DEF given
<1>3. /\ TargetOf(r, j)' = TargetOf(r, j) /\ Own(r, j)' = Own(r, j)
  BY <1>2 DEF TargetOf, Own
<1>4. Own(r, j) \subseteq Footprint(r, j) /\ Footprint(r, j) \subseteq FileIds
  BY <1>1, ItemsHaveNames
<1>5. CASE j # run[r].item
  <2>1. /\ names'[plan[r][j]] = names[plan[r][j]] /\ names'[TargetOf(r, j)] = names[TargetOf(r, j)]
        /\ AsFound(plan[r][j])' = AsFound(plan[r][j])
        /\ AsFound(TargetOf(r, j))' = AsFound(TargetOf(r, j))
        /\ \A f \in Footprint(r, j) : content'[f] = content[f]
    BY <1>2, <1>5, OthersAreKept DEF TargetOf
  <2>2. /\ j > run'[r].item => j > run[r].item
        /\ j <= run'[r].finished <=> j <= run[r].finished
        /\ run'[r].finished \in Nat
    BY <1>1, <1>5, InvIsCounted, StageIsKept
  <2>3. j > run'[r].finished => j > run[r].finished
    BY <1>1, <2>2
  <2> QED BY <1>1, <1>2, <1>3, <1>4, <2>1, <2>2, <2>3 DEF Others
<1>6. CASE j = run[r].item /\ run[r].pc \in {"open", "copying", "closing", "placing"}
  <2>1. /\ j = run[r].finished + 1 /\ Target(r) = TargetOf(r, j) /\ Dest(r) = plan[r][j]
        /\ TargetOf(r, j) \in Paths /\ plan[r][j] \in Paths /\ <<r, j>> \in FileIds
        /\ (direction = "download" =>
              plan[r][j] \notin Own(r, j) /\ TargetOf(r, j) # plan[r][j])
    BY <1>6, HandIsFull DEF TargetOf
  <2>2. j <= run'[r].item /\ run'[r].item \in Nat
    BY <1>1, <1>6, InvIsCounted, StageIsKept
  <2>3. CASE run'[r].finished = run[r].finished
    \* The item is not finished by this step: nothing is done under its own name, if it
    \* has another to arrive under.
    <3>1. ASSUME direction = "download"
          PROVE  names'[plan[r][j]] = names[plan[r][j]] /\ content'[plan[r][j]] = content[plan[r][j]]
      <4>1. plan[r][j] # TargetOf(r, j) /\ plan[r][j] \notin Own(r, j) /\ plan[r][j] \in FileIds
        BY <2>1, <3>1 DEF FileIds
      <4>2. CASE UNCHANGED <<names, content>>
        BY <4>2
      <4>3. CASE Open(r)
        <5>1. AsFound(TargetOf(r, j)) /\ (names[TargetOf(r, j)] # NoFile => names[TargetOf(r, j)] = TargetOf(r, j))
          BY <1>1, <1>6, <4>3 DEF Open, InHand, AsFound
        <5> QED BY <1>1, <1>6, <2>1, <4>1, <4>3, <5>1 DEF Open, Own
      <4>4. CASE CopyEnds(r)
        <5>1. run[r].file \in Own(r, j)
          BY <1>1, <1>6, <4>4 DEF CopyEnds, InHand
        <5> QED BY <1>1, <4>1, <4>4, <5>1 DEF CopyEnds
      <4>5. CASE Fails(r)
        BY <1>1, <2>1, <4>1, <4>5 DEF Fails
      <4>6. CASE Place(r)
        <5>1. ~Finish(r)
          BY <1>1, <2>3 DEF Finish, RunState
        <5> QED BY <1>1, <2>1, <4>1, <4>6, <5>1 DEF Place
      <4> QED BY <4>2, <4>3, <4>4, <4>5, <4>6
                DEF StepOf, RunStep, Cancel, LinkDrops, MakeDirs, NextItem, Packet, Close
    <3>2. direction = "download" => AsFound(plan[r][j])'
      BY <1>1, <1>2, <2>1, <3>1 DEF Others, AsFound, given
    <3> QED BY <1>1, <1>2, <2>1, <2>2, <2>3, <3>2 DEF Others
  <2>4. CASE run'[r].finished # run[r].finished
    <3>1. run'[r].finished = j /\ run[r].pc \in {"closing", "placing"} /\ run'[r].pc = "next"
      BY <2>1, <2>4, InvIsCounted, StageIsKept
    <3>2. /\ run[r].file \in Own(r, j) /\ names[TargetOf(r, j)] = run[r].file
          /\ content[run[r].file] = Whole
      BY <1>1, <1>6, <3>1 DEF InHand
    <3>3. Close(r) \/ Place(r)
      BY <1>1, <3>1 DEF StepOf, RunStep, Cancel, LinkDrops, MakeDirs, NextItem, Open, Packet,
                        CopyEnds, Fails, End, RunState
    <3>4. CASE Close(r)
      <4>1. direction = "upload" /\ UNCHANGED <<names, content>>
        BY <1>1, <3>1, <3>4 DEF Close, RunState, TransferTypeOK
      <4> QED BY <1>1, <1>2, <1>3, <2>1, <2>2, <3>1, <3>2, <4>1 DEF Others, TargetOf
    <3>5. CASE Place(r)
      <4>1. /\ names' = [names EXCEPT ![plan[r][j]] = names[TargetOf(r, j)], ![TargetOf(r, j)] = NoFile]
            /\ content' = content
        BY <1>1, <2>1, <3>1, <3>5 DEF Place, End, RunState
      <4>2. direction = "download"
        BY <1>1, <3>5 DEF Place, Stage
      <4>3. names'[plan[r][j]] = run[r].file /\ names'[TargetOf(r, j)] = NoFile
        BY <1>1, <2>1, <3>2, <4>1, <4>2
      <4> QED BY <1>1, <1>2, <1>3, <2>1, <2>2, <3>1, <3>2, <4>1, <4>2, <4>3 DEF Others
    <3> QED BY <3>3, <3>4, <3>5
  <2> QED BY <2>3, <2>4
<1>7. CASE j = run[r].item /\ run[r].pc \notin {"open", "copying", "closing", "placing"}
  <2>1. /\ UNCHANGED <<names, content>>
    BY <1>7 DEF StepOf, RunStep, Cancel, LinkDrops, MakeDirs, NextItem, Open, Packet, CopyEnds,
                Fails, Close, Place
  <2>2. run'[r].finished = run[r].finished /\ j <= run'[r].item /\ run'[r].item \in Nat
    BY <1>1, <1>7, InvIsCounted, StageIsKept
  <2>3. AsFound(plan[r][j])' = AsFound(plan[r][j])
    BY <1>2, <2>1 DEF AsFound, given
  <2> QED BY <1>1, <1>2, <1>3, <1>7, <2>1, <2>2, <2>3 DEF Others
<1> QED BY <1>5, <1>6, <1>7

\* The item in hand, whichever it is after the step.
LEMMA HandIsKept ==
    ASSUME TransferAssumption, TransferInv, NEW r \in Runs, StepOf(r)
    PROVE  InHand(r)'
<1> SUFFICES ASSUME NEW i, i = run[r].item, NEW k, k = run'[r].item
             PROVE  InHand(r)'
  OBVIOUS
<1>1. /\ run[r] \in RunState /\ run \in [Runs -> RunState] /\ Stage(r) /\ InHand(r)
      /\ names \in [Paths -> FileIds \union {NoFile}] /\ direction \in {"upload", "download"}
      /\ content \in [FileIds -> {Previous, Whole} \union Half]
      /\ i \in Nat /\ run[r].finished \in Nat /\ Len(plan[r]) \in Nat
  <2>1. TransferTypeOK /\ RunInv(r) /\ plan[r] \in Seq(Seq(STRING)) /\ run[r] \in RunState
    BY DEF TransferInv, TransferTypeOK, TransferAssumption
  <2> QED BY <2>1 DEF TransferTypeOK, RunInv, RunState
<1>2. UNCHANGED given /\ plan'[r] = plan[r] /\ direction' = direction /\ before' = before
  BY StepStaysWithItem DEF given
<1>3. \A j : TargetOf(r, j)' = TargetOf(r, j) /\ Own(r, j)' = Own(r, j)
  BY <1>2 DEF TargetOf, Own
<1>4. ASSUME NEW x, names'[x] = names[x], content'[x] = content[x]
      PROVE  AsFound(x)' = AsFound(x)
  BY <1>2, <1>4 DEF AsFound
<1>5. ASSUME run[r].pc \in {"open", "copying", "closing", "placing"}
      PROVE  /\ k = i /\ i = run[r].finished + 1 /\ Target(r) = TargetOf(r, i)
             /\ TargetOf(r, i) \in Paths /\ TargetOf(r, i) \in FileIds /\ <<r, i>> \in FileIds
             /\ TargetOf(r, i) # NoFile /\ Own(r, i) \subseteq FileIds
  BY <1>5, HandIsFull, InvIsCounted, StageIsKept DEF FileIds, Own
<1>6. CASE Cancel(r) \/ LinkDrops(r) \/ Packet(r)
  <2>1. /\ UNCHANGED <<names, content>> /\ run'[r].item = run[r].item /\ run'[r].pc = run[r].pc
        /\ run'[r].file = run[r].file /\ run'[r].finished = run[r].finished
        /\ run[r].pc # "ended"
    BY <1>1, <1>6 DEF Cancel, LinkDrops, Packet, RunState
  <2> QED BY <1>1, <1>2, <1>3, <1>4, <2>1 DEF InHand
<1>7. CASE MakeDirs(r)
  <2>1. run'[r].pc \in {"next", "ended"} /\ run'[r].finished = run'[r].item /\ k \in Nat
    <3>1. /\ run[r].pc = "dirs" /\ run'[r].pc \in {"next", "ended"}
          /\ run'[r].finished = run[r].finished /\ run'[r].item = run[r].item
      BY <1>1, <1>7 DEF MakeDirs, End, RunState
    <3> QED BY <1>1, <3>1 DEF Stage
  <2> QED BY <2>1 DEF InHand
<1>8. CASE NextItem(r)
  <2>1. run[r].pc = "next" /\ run[r].finished = i /\ UNCHANGED <<names, content>>
    BY <1>1, <1>8 DEF NextItem, Stage
  <2>2. CASE run'[r].pc = "ended"
    <3>1. run'[r].finished = run'[r].item /\ k \in Nat
      BY <1>1, <1>8, <2>1, <2>2 DEF NextItem, End, RunState
    <3> QED BY <2>2, <3>1 DEF InHand
  <2>3. CASE run'[r].pc # "ended"
    <3>1. run'[r].pc = "open" /\ k = i + 1 /\ i # Len(plan[r])
      BY <1>1, <1>8, <2>3 DEF NextItem, End, RunState
    <3>2. k \in DOMAIN plan[r] /\ k > run[r].item
      <4>1. plan[r] \in Seq(Seq(STRING))
        BY DEF TransferInv, TransferTypeOK, TransferAssumption
      <4> QED BY <1>1, <3>1, <4>1 DEF Stage
    <3>3. AsFound(TargetOf(r, k))
      BY <3>2 DEF TransferInv, RunInv, Others
    <3> QED BY <1>2, <1>3, <1>4, <2>1, <3>1, <3>3 DEF InHand
  <2> QED BY <2>2, <2>3
<1>9. CASE Open(r)
  <2>1. run[r].pc = "open" /\ AsFound(TargetOf(r, i))
    BY <1>1, <1>9 DEF Open, InHand
  <2>2. CASE End(r, "error") /\ UNCHANGED <<names, content>>
    <3>1. run'[r].pc = "ended"
      BY <1>1, <2>2 DEF End
    <3> QED BY <1>2, <1>3, <1>4, <1>5, <2>1, <2>2, <3>1 DEF InHand
  <2>3. CASE ~(End(r, "error") /\ UNCHANGED <<names, content>>)
    <3> DEFINE f == IF names[TargetOf(r, i)] = NoFile THEN <<r, i>> ELSE names[TargetOf(r, i)]
    <3>1. f \in Own(r, i) /\ f \in FileIds
      BY <1>5, <2>1 DEF AsFound, Own
    <3>2. /\ names' = [names EXCEPT ![TargetOf(r, i)] = f]
          /\ content' = [content EXCEPT ![f] = <<"half", r>>]
          /\ run' = [run EXCEPT ![r].pc = "copying", ![r].file = f]
      BY <1>5, <1>9, <2>1, <2>3 DEF Open
    <3> HIDE DEF f
    <3>3. /\ names'[TargetOf(r, i)] = f /\ content'[f] = <<"half", r>>
          /\ run'[r].pc = "copying" /\ run'[r].file = f
      BY <1>1, <1>5, <2>1, <3>1, <3>2 DEF RunState
    <3> QED BY <1>3, <1>5, <2>1, <3>1, <3>3 DEF InHand
  <2> QED BY <2>2, <2>3
<1>10. CASE CopyEnds(r)
  <2>1. /\ run[r].pc = "copying" /\ run[r].file \in Own(r, i)
        /\ names[TargetOf(r, i)] = run[r].file /\ content[run[r].file] = <<"half", r>>
    BY <1>1, <1>10 DEF CopyEnds, InHand
  <2>2. /\ run'[r].pc = "closing" /\ run'[r].file = run[r].file /\ names' = names
        /\ content'[run[r].file] = Whole
    BY <1>1, <1>5, <1>10, <2>1 DEF CopyEnds, RunState
  <2> QED BY <1>3, <1>5, <2>1, <2>2 DEF InHand
<1>11. CASE Fails(r)
  <2>1. run[r].pc \in {"copying", "closing"} /\ run'[r].pc = "ended" /\ run'[r].link = run[r].link
    BY <1>1, <1>11 DEF Fails, End, RunState
  <2>2. names'[TargetOf(r, i)] = NoFile \/ (direction = "upload" /\ ~run[r].link)
    BY <1>1, <1>5, <1>11, <2>1 DEF Fails
  <2> QED BY <1>2, <1>3, <1>5, <2>1, <2>2 DEF InHand
<1>12. CASE Close(r)
  <2>1. run[r].pc = "closing" /\ UNCHANGED <<names, content>>
    BY <1>12 DEF Close
  <2>2. CASE run' = [run EXCEPT ![r].pc = "placing"]
    <3>1. run'[r].pc = "placing" /\ run'[r].file = run[r].file
      BY <1>1, <2>2 DEF RunState
    <3> QED BY <1>1, <1>3, <1>5, <2>1, <3>1 DEF InHand
  <2>3. CASE Finish(r)
    <3>1. run'[r].pc = "next"
      BY <1>1, <2>3 DEF Finish, RunState
    <3> QED BY <3>1 DEF InHand
  <2> QED BY <1>12, <2>2, <2>3 DEF Close
<1>13. CASE Place(r)
  <2>1. CASE Finish(r)
    <3>1. run'[r].pc = "next"
      BY <1>1, <2>1 DEF Finish, RunState
    <3> QED BY <3>1 DEF InHand
  <2>2. CASE ~Finish(r)
    <3>1. run[r].pc = "placing" /\ run'[r].pc = "ended" /\ names'[Target(r)] = NoFile
      BY <1>1, <1>5, <1>13, <2>2 DEF Place, End, RunState
    <3> QED BY <1>3, <1>5, <3>1 DEF InHand
  <2> QED BY <2>1, <2>2
<1> QED BY <1>6, <1>7, <1>8, <1>9, <1>10, <1>11, <1>12, <1>13 DEF StepOf, RunStep

-----------------------------------------------------------------------------
(* The theorem.                                                            *)

LEMMA CountedInit ==
    ASSUME TransferAssumption, Init
    PROVE  Counted /\ \A r \in Runs : Reported(r)
<1>1. \A r \in Runs : /\ run[r].pc = "dirs" /\ run[r].item = 0 /\ run[r].finished = 0
                      /\ run[r].result = "running" /\ run[r].cancelledAt = MaxItems + 1
                      /\ run[r].shown = <<run[r].moved, run[r].finished>>
  BY DEF Init, NotCancelled
<1>2. TransferTypeOK
  <2>1. run \in [Runs -> RunState]
    BY DEF Init, RunState, TransferAssumption, NotCancelled
  <2> QED BY <2>1 DEF Init, TransferTypeOK, FileIds
<1>3. ASSUME NEW r \in Runs PROVE Stage(r) /\ Reported(r)
  <2>1. plan[r] \in Seq(Seq(STRING)) /\ MaxItems \in Nat
    BY <1>2 DEF TransferTypeOK, TransferAssumption
  <2>2. Stage(r)
    BY <1>1, <2>1 DEF Stage
  <2> QED BY <1>1, <2>2 DEF Reported
<1> QED BY <1>2, <1>3 DEF Counted

LEMMA CountedStep ==
    ASSUME TransferAssumption, Counted, [Next]_vars
    PROVE  Counted'
<1>1. CASE UNCHANGED vars
  BY <1>1 DEF vars, Counted, TransferTypeOK, Stage
<1>2. CASE Next
  <2>1. PICK r \in Runs : StepOf(r)
    BY <1>2 DEF Next, StepOf
  <2>2. TransferTypeOK'
    BY <2>1, TypesAreKept
  <2>3. UNCHANGED given /\ \A s \in Runs \ {r} : run'[s] = run[s]
    BY <2>1, OneRunSteps DEF Counted, TransferTypeOK
  <2>4. Stage(r)'
    BY <2>1, StageIsKept
  <2>5. ASSUME NEW s \in Runs, s # r PROVE Stage(s)'
    <3>1. Stage(s) /\ run'[s] = run[s] /\ plan' = plan /\ direction' = direction
      BY <2>3, <2>5 DEF Counted, given
    <3> QED BY <3>1 DEF Stage
  <2> QED BY <2>2, <2>4, <2>5 DEF Counted
<1> QED BY <1>1, <1>2

\* What has been reported stays true of the counts it was made of: only Packet adds to
\* what was moved, and after it comes another report or a failure.
LEMMA ReportedStep ==
    ASSUME TransferAssumption, Counted, \A r \in Runs : Reported(r), [Next]_vars
    PROVE  \A r \in Runs : Reported(r)'
<1>1. CASE UNCHANGED vars
  BY <1>1 DEF vars, Reported
<1>2. CASE Next
  <2>1. PICK r \in Runs : StepOf(r)
    BY <1>2 DEF Next, StepOf
  <2>2. UNCHANGED given /\ \A s \in Runs \ {r} : run'[s] = run[s]
    BY <2>1, OneRunSteps DEF Counted, TransferTypeOK
  <2>3. /\ run \in [Runs -> RunState] /\ run[r] \in RunState /\ Reported(r) /\ Stage(r)
        /\ plan' = plan
    BY <2>2 DEF Counted, TransferTypeOK, given
  <2>4. Reported(r)'
    <3>1. CASE Cancel(r) \/ LinkDrops(r)
      <4>1. /\ run'[r].pc = run[r].pc /\ run'[r].result = run[r].result
            /\ run'[r].shown = run[r].shown /\ run'[r].moved = run[r].moved
            /\ run'[r].finished = run[r].finished
        BY <2>3, <3>1 DEF Cancel, LinkDrops, RunState
      <4> QED BY <2>3, <4>1 DEF Reported
    <3>2. CASE End(r, "error") /\ run[r].pc # "ended"
      BY <2>3, <3>2 DEF End, Reported, RunState
    <3>3. CASE Finish(r) /\ run[r].pc \in {"closing", "placing"}
      BY <2>3, <3>3 DEF Finish, Reported, RunState
    <3>4. CASE End(r, "ok") /\ run[r].pc = "next" /\ run[r].item = Len(plan[r])
      BY <2>3, <3>4 DEF End, Reported, Stage, RunState
    <3>5. CASE /\ run[r].pc # "ended" /\ run'[r].pc = "next" /\ run[r].pc = "dirs"
               /\ run' = [run EXCEPT ![r].pc = "next"]
      BY <2>3, <3>5 DEF Reported, RunState
    <3>6. CASE /\ run[r].pc # "ended" /\ run'[r].pc \in {"open", "copying", "closing", "placing"}
               /\ run'[r].result = run[r].result
      BY <2>3, <3>6 DEF Reported
    <3>7. QED
      BY <2>1, <2>3, <3>1, <3>2, <3>3, <3>4, <3>5, <3>6 DEF StepOf, RunStep, MakeDirs, NextItem, Open,
         Packet, CopyEnds, Fails, Close, Place, RunState
  <2>5. ASSUME NEW s \in Runs, s # r PROVE Reported(s)'
    <3>1. Reported(s) /\ run'[s] = run[s] /\ plan' = plan
      BY <2>2, <2>5 DEF given
    <3> QED BY <3>1 DEF Reported
  <2> QED BY <2>4, <2>5
<1> QED BY <1>1, <1>2

LEMMA TransferInit ==
    ASSUME TransferAssumption, Init, Separate
    PROVE  TransferInv
<1>1. \A r \in Runs : /\ run[r].pc = "dirs" /\ run[r].item = 0 /\ run[r].finished = 0
                      /\ run[r].result = "running" /\ run[r].cancelledAt = MaxItems + 1
  BY DEF Init, NotCancelled
<1>2. TransferTypeOK
  BY CountedInit DEF Counted
<1>3. \A x \in Paths : AsFound(x)
  BY DEF Init, AsFound, FileIds
<1>4. ASSUME NEW r \in Runs PROVE RunInv(r)
  <2>1. plan[r] \in Seq(Seq(STRING)) /\ MaxItems \in Nat
    BY <1>2 DEF TransferTypeOK, TransferAssumption
  <2>2. Stage(r) /\ InHand(r)
    BY <1>1, <2>1 DEF Stage, InHand
  <2>3. ASSUME NEW i \in DOMAIN plan[r] PROVE Others(r, i)
    <3>1. i \in 1 .. Len(plan[r]) /\ AsFound(TargetOf(r, i)) /\ AsFound(plan[r][i])
      <4>1. TargetOf(r, i) \in Paths /\ plan[r][i] \in Paths
        BY <1>2, ItemsHaveNames
      <4> QED BY <1>3, <2>1, <4>1
    <3> QED BY <1>1, <2>1, <3>1 DEF Others
  <2> QED BY <2>2, <2>3 DEF RunInv
<1> QED BY <1>2, <1>4 DEF TransferInv

LEMMA TransferStep ==
    ASSUME TransferAssumption, TransferInv, [Next]_vars
    PROVE  TransferInv'
<1>1. CASE UNCHANGED vars
  BY <1>1 DEF vars, TransferInv, TransferTypeOK, Separate, RunInv, Stage, InHand, Others, AsFound,
              TargetOf, Own
<1>2. CASE Next
  <2>1. PICK r \in Runs : StepOf(r)
    BY <1>2 DEF Next, StepOf
  <2>2. TransferTypeOK'
    BY <2>1, InvIsCounted, TypesAreKept
  <2>3. UNCHANGED given
    BY <2>1, StepStaysWithItem
  <2>4. Separate'
    BY <2>3 DEF TransferInv, Separate, given
  <2>5. RunInv(r)'
    BY <2>1, <2>3, InvIsCounted, StageIsKept, HandIsKept, OwnItemsAreKept DEF RunInv, given
  <2>6. \A s \in Runs : s # r => RunInv(s)'
    BY <2>1, OtherRunsAreKept
  <2> QED BY <2>2, <2>4, <2>5, <2>6 DEF TransferInv
<1> QED BY <1>1, <1>2

\* Of a run that ended, or has not, the invariant leaves no half of a file to be seen.
LEMMA InvIsClean ==
    ASSUME TransferAssumption, TransferInv
    PROVE  FailureIsClean
<1>1. TransferTypeOK
  BY DEF TransferInv
<1>2. ASSUME NEW r \in Runs
      PROVE  /\ plan[r] \in Seq(Seq(STRING)) /\ run[r] \in RunState /\ Stage(r) /\ InHand(r)
             /\ run[r].item \in Nat /\ run[r].finished \in Nat /\ Len(plan[r]) \in Nat
             /\ \A i \in DOMAIN plan[r] : Others(r, i)
  <2>1. plan[r] \in Seq(Seq(STRING)) /\ run[r] \in RunState
    BY <1>1 DEF TransferTypeOK, TransferAssumption
  <2> QED BY <2>1 DEF TransferInv, RunInv, RunState
<1>3. Whole \notin Half /\ Previous \notin Half
  BY DEF Whole, Previous, Half
<1>4. ASSUME NEW x, AsFound(x) PROVE ~IsHalf(x)
  BY <1>3, <1>4 DEF AsFound, IsHalf
<1>5. NoHalfDownload
  <2> SUFFICES ASSUME direction = "download", NEW r \in Runs, NEW i \in DOMAIN plan[r]
               PROVE  ~IsHalf(plan[r][i])
    BY <1>2 DEF NoHalfDownload, ToSet
  <2>1. CASE i <= run[r].finished
    BY <1>2, <1>3, <2>1 DEF Others, IsHalf
  <2>2. CASE ~(i <= run[r].finished)
    BY <1>2, <1>4, <2>2 DEF Others
  <2> QED BY <2>1, <2>2
<1>6. InterruptedLeavesAsFound
  <2> SUFFICES ASSUME NEW r \in Runs, direction = "download", run[r].result = "error",
                      NEW i \in run[r].finished + 1 .. Len(plan[r])
               PROVE  AsFound(plan[r][i]) /\ names[Partial(plan[r][i])] \notin Made
    BY DEF InterruptedLeavesAsFound, Unfinished
  <2>1. i \in DOMAIN plan[r] /\ i > run[r].finished /\ i \in Nat
    BY <1>2
  <2>2. AsFound(plan[r][i]) /\ Partial(plan[r][i]) = TargetOf(r, i)
    BY <1>2, <2>1 DEF Others, TargetOf
  <2>3. AsFound(TargetOf(r, i)) \/ names[TargetOf(r, i)] = NoFile
    <3>0. /\ run[r].pc = "ended" /\ run[r].item \in {run[r].finished, run[r].finished + 1}
          /\ run[r].item \in Nat /\ run[r].finished \in Nat
      BY <1>2 DEF Stage
    <3>1. CASE i = run[r].item
      <4>1. run[r].item = run[r].finished + 1
        BY <2>1, <3>0, <3>1
      <4> QED BY <1>2, <3>0, <3>1, <4>1 DEF InHand
    <3>2. CASE i # run[r].item
      <4>1. i > run[r].item
        BY <2>1, <3>0, <3>2
      <4> QED BY <1>2, <2>1, <4>1 DEF Others
    <3> QED BY <3>1, <3>2
  <2>4. TargetOf(r, i) \notin Made /\ NoFile \notin Made
    BY <1>1, <2>1, ItemsHaveNames DEF TransferAssumption, FileIds
  <2> QED BY <2>2, <2>3, <2>4 DEF AsFound
<1>7. FailedUploadTakenBack
  <2> SUFFICES ASSUME NEW r \in Runs, direction = "upload", run[r].result = "error",
                      run[r].link, NEW i \in 1 .. Len(plan[r])
               PROVE  ~IsHalf(plan[r][i]) /\ (i > run[r].item => AsFound(plan[r][i]))
    BY DEF FailedUploadTakenBack
  <2>1. i \in DOMAIN plan[r] /\ plan[r][i] = TargetOf(r, i) /\ run[r].pc = "ended"
    BY <1>2 DEF TargetOf, Stage
  <2>2. CASE i <= run[r].finished
    BY <1>2, <1>3, <2>1, <2>2 DEF Others, IsHalf, Stage
  <2>3. CASE i > run[r].item
    BY <1>2, <1>4, <2>1, <2>3 DEF Others
  <2>4. CASE i = run[r].item /\ i = run[r].finished + 1
    <3>1. AsFound(plan[r][i]) \/ names[plan[r][i]] = NoFile
      BY <1>2, <2>1, <2>4 DEF InHand
    <3> QED BY <1>2, <1>4, <2>4, <3>1 DEF IsHalf
  <2>5. /\ run[r].item \in {run[r].finished, run[r].finished + 1} /\ i \in Nat
        /\ run[r].item \in Nat /\ run[r].finished \in Nat
    BY <1>2, <2>1 DEF Stage
  <2>6. i <= run[r].finished \/ i > run[r].item \/ (i = run[r].item /\ i = run[r].finished + 1)
    BY <2>5
  <2> QED BY <2>2, <2>3, <2>4, <2>6
<1>8. CancelBeginsNothing
  BY <1>2 DEF CancelBeginsNothing, Stage
<1> QED BY <1>5, <1>6, <1>7, <1>8 DEF FailureIsClean

\* LastReportIsComplete, of any runs, whatever the names of their files: a run that
\* succeeded has shown every file and every byte last, whatever throttle dropped before
\* (transfer.go:106-108, 556-558).
THEOREM LastReportIsWhole ==
    ASSUME TransferAssumption PROVE Spec => [](TransferTypeOK /\ LastReportIsComplete)
<1> DEFINE Inv == Counted /\ \A r \in Runs : Reported(r)
<1>1. Init => Inv
  BY CountedInit
<1>2. Inv /\ [Next]_vars => Inv'
  BY CountedStep, ReportedStep
<1>3. Inv => TransferTypeOK /\ LastReportIsComplete
  BY DEF Counted, Reported, LastReportIsComplete
<1> QED BY <1>1, <1>2, <1>3, PTL DEF Spec

\* Runs whose files have names of their own are well typed, and the invariant holds of
\* them at every step.
THEOREM RunsAreSound == ASSUME TransferAssumption PROVE Spec /\ Separate => []TransferInv
<1>1. Init /\ Separate => TransferInv
  BY TransferInit
<1>2. TransferInv /\ [Next]_vars => TransferInv'
  BY TransferStep
<1> QED BY <1>1, <1>2, PTL DEF Spec

\* FailureIsClean, of any number of runs at once, each of any number of files of any size,
\* onto whatever was there before, cancelled or failing anywhere: no half of a download is
\* ever under its own name, what is not finished is as it was found, a failed upload is
\* taken back, and a cancelled run begins no other file (transfer.go:328-331, 393-396,
\* 448-452).
THEOREM NoHalfIsLeft == ASSUME TransferAssumption PROVE Spec /\ Separate => []FailureIsClean
<1>1. TransferInv => FailureIsClean
  BY InvIsClean
<1> QED BY <1>1, RunsAreSound, PTL

=============================================================================
