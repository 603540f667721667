-------------------------- MODULE TaskStacksProofs --------------------------
(***************************************************************************)
(* Proofs about TaskStacks for any number of operations that interleave,   *)
(* any number of instances, with subtasks and failures or without; and     *)
(* about operations that do not overlap.                                   *)
(***************************************************************************)
EXTENDS MCTaskStacks, SequenceTheorems, TLAPS

----------------------------------------------------------------------------
(* The inductive invariant                                                 *)

\* An operation on a task knows its taskId, and which instance to abort.
Anonymous == {"idle", "create", "spawned", "finish"}
Known(r) == /\ r.pc \notin Anonymous => r.id \in Insts
            /\ r.pc = "cancel" => r.inst \in Insts
IdIsKnown == \A o \in Ops : Known(op[o])

\* What is on a stack has been constructed.
UpTo(s, b) == \A k \in 1 .. Len(s) : s[k] \in 1 .. b
StacksAreBorn == UpTo(active, born) /\ \A id \in Insts : UpTo(stashed[id], born)

\* InOnePlace, position by position.
NoRepeat(s) == \A j, k \in 1 .. Len(s) : s[j] = s[k] => j = k
Apart(s, t) == \A j \in 1 .. Len(s), k \in 1 .. Len(t) : s[j] # t[k]

PlaceInv ==
    /\ NoRepeat(active)
    /\ \A id \in Insts :
          /\ NoRepeat(stashed[id])
          /\ stashed[id] # <<>> => task[stashed[id][1]] = id
          /\ Apart(active, stashed[id])
          /\ \A jd \in Insts \ {id} : Apart(stashed[id], stashed[jd])

\* The stacks and what is constructed: what the moves of stacks preserve.
StackInv ==
    /\ active \in Seq(Insts)
    /\ stashed \in [Insts -> Seq(Insts)]
    /\ born \in 0 .. MaxInsts
    /\ task \in [Insts -> Insts \union {None}] /\ \A i \in Insts : task[i] = None <=> i > born
    /\ StacksAreBorn
    /\ PlaceInv

\* The instances' fields and the history.
FieldInv ==
    /\ parent \in [Insts -> Insts \union {None}]
    /\ aborted \subseteq Insts
    /\ childTaskId \in [Insts -> Insts \union {None}]
    /\ history \subseteq Insts
    /\ finished \subseteq Insts /\ failed \subseteq Insts

OpRecs == [pc : Pcs, inst : Insts \union {None}, id : Insts \union {None},
           parent : Insts \union {None}, rest : Seq(Insts)]
OpInv == op \in [Ops -> OpRecs] /\ IdIsKnown

IInv == StackInv /\ FieldInv /\ OpInv

----------------------------------------------------------------------------
(* Sequences                                                               *)

\* Front drops the last element and keeps the others where they are.
LEMMA FrontKeeps ==
    ASSUME NEW S, NEW s \in Seq(S), s # <<>>
    PROVE  /\ Front(s) \in Seq(S)
           /\ Len(Front(s)) = Len(s) - 1
           /\ \A k \in 1 .. Len(Front(s)) : Front(s)[k] = s[k]
           /\ Last(s) \in S /\ Last(s) = s[Len(s)] /\ Len(s) \in 1 .. Len(s)
           /\ Head(s) = s[1] /\ Head(s) \in S /\ 1 \in 1 .. Len(s)
<1>1. Len(s) \in Nat \ {0} /\ Len(s) >= 1 /\ \A k \in 1 .. Len(s) : s[k] \in S
  OBVIOUS
<1>2. Head(s) = s[1]
  OBVIOUS
<1> DEFINE n == Len(s) - 1
<1>3. n \in Nat /\ 1 \in Int
  BY <1>1
<1>4. \A k \in 1 .. n : s[k] \in S /\ 1 + k - 1 = k
  BY <1>1
<1> HIDE DEF n
<1>5. n \in Int /\ n - 1 + 1 = n /\ (~(1 <= n) => n = 0)
  BY <1>3
<1>6. /\ SubSeq(s, 1, n) \in Seq(S)
      /\ Len(SubSeq(s, 1, n)) = IF 1 <= n THEN n - 1 + 1 ELSE 0
      /\ \A k \in 1 .. n - 1 + 1 : SubSeq(s, 1, n)[k] = s[1 + k - 1]
  BY <1>3, <1>4, <1>5, SubSeqProperties
<1>7. Len(SubSeq(s, 1, n)) = n /\ \A k \in 1 .. n : SubSeq(s, 1, n)[k] = s[k]
  BY <1>3, <1>4, <1>5, <1>6
<1> QED
  BY <1>1, <1>2, <1>6, <1>7 DEF Front, Last, n

\* The forms of the property and of the invariant agree.
LEMMA InjectiveMeansNoRepeat ==
    ASSUME NEW s \in Seq(Insts)
    PROVE  NoRepeat(s) <=> IsInjective(s)
  BY DEF NoRepeat, IsInjective

LEMMA DisjointMeansApart ==
    ASSUME NEW s \in Seq(Insts), NEW t \in Seq(Insts)
    PROVE  /\ Apart(s, t) <=> ToSet(s) \intersect ToSet(t) = {}
           /\ Apart(s, t) <=> Apart(t, s)
<1>1. DOMAIN s = 1 .. Len(s) /\ DOMAIN t = 1 .. Len(t)
  OBVIOUS
<1>2. Apart(s, t) <=> ToSet(s) \intersect ToSet(t) = {}
  BY <1>1, Zenon DEF Apart, ToSet
<1>3. Apart(s, t) <=> Apart(t, s)
  BY DEF Apart
<1> QED
  BY <1>2, <1>3

LEMMA PlaceMeansInOnePlace == StackInv => InOnePlace
<1> SUFFICES ASSUME StackInv PROVE InOnePlace
  OBVIOUS
<1>1. active \in Seq(Insts) /\ \A id \in Insts : stashed[id] \in Seq(Insts)
  BY DEF StackInv
<1>2. IsInjective(active)
  BY <1>1, InjectiveMeansNoRepeat DEF StackInv, PlaceInv
<1> SUFFICES ASSUME NEW id \in Insts
    PROVE  /\ IsInjective(stashed[id])
           /\ stashed[id] # <<>> => task[Head(stashed[id])] = id
           /\ ToSet(stashed[id]) \intersect ToSet(active) = {}
           /\ \A jd \in Insts \ {id} : ToSet(stashed[id]) \intersect ToSet(stashed[jd]) = {}
  BY <1>2 DEF InOnePlace
<1>3. IsInjective(stashed[id])
  BY <1>1, InjectiveMeansNoRepeat DEF StackInv, PlaceInv
<1>4. stashed[id] # <<>> => task[Head(stashed[id])] = id
  BY <1>1, FrontKeeps DEF StackInv, PlaceInv
<1>5. ToSet(stashed[id]) \intersect ToSet(active) = {}
  BY <1>1, DisjointMeansApart DEF StackInv, PlaceInv
<1>6. \A jd \in Insts \ {id} : ToSet(stashed[id]) \intersect ToSet(stashed[jd]) = {}
  BY <1>1, DisjointMeansApart DEF StackInv, PlaceInv
<1> QED
  BY <1>3, <1>4, <1>5, <1>6

----------------------------------------------------------------------------
(* How the stacks move                                                     *)

\* The stack on screen may lose instances at its top.
LEMMA ShorterKeeps ==
    ASSUME StackInv, UNCHANGED <<stashed, born, task>>, active' \in Seq(Insts),
           Len(active') <= Len(active), \A k \in 1 .. Len(active') : active'[k] = active[k]
    PROVE  StackInv'
<1>1. \A k \in 1 .. Len(active') : k \in 1 .. Len(active)
  BY DEF StackInv
<1>2. StacksAreBorn'
  BY <1>1 DEF StackInv, StacksAreBorn, UpTo
<1>3. NoRepeat(active)'
  BY <1>1 DEF StackInv, PlaceInv, NoRepeat
<1>4. \A id \in Insts : Apart(active, stashed[id])'
  BY <1>1 DEF StackInv, PlaceInv, Apart
<1>5. PlaceInv'
  BY <1>3, <1>4 DEF StackInv, PlaceInv, NoRepeat, Apart
<1> QED
  BY <1>2, <1>5 DEF StackInv

LEMMA RemoveTopKeeps ==
    StackInv /\ RemoveTop /\ UNCHANGED <<stashed, born, task>> => StackInv'
<1> SUFFICES ASSUME StackInv, RemoveTop, UNCHANGED <<stashed, born, task>> PROVE StackInv'
  OBVIOUS
<1>1. active \in Seq(Insts)
  BY DEF StackInv
<1>2. CASE active = <<>>
  BY <1>1, <1>2, ShorterKeeps DEF RemoveTop
<1>3. CASE active # <<>>
  BY <1>1, <1>3, ShorterKeeps, FrontKeeps DEF RemoveTop
<1> QED
  BY <1>2, <1>3

LEMMA ClearKeeps ==
    StackInv /\ active' = <<>> /\ UNCHANGED <<stashed, born, task>> => StackInv'
<1> SUFFICES ASSUME StackInv, active' = <<>>, UNCHANGED <<stashed, born, task>> PROVE StackInv'
  OBVIOUS
<1>1. active \in Seq(Insts)
  BY DEF StackInv
<1> QED
  BY <1>1, ShorterKeeps

\* The instance that is pushed is on no stack yet.
LEMMA PushKeeps ==
    ASSUME NEW id \in Insts, NEW par, StackInv, Push(id, par), stashed' = stashed
    PROVE  StackInv'
<1> DEFINE n == Len(active)
<1>1. /\ active \in Seq(Insts) /\ stashed \in [Insts -> Seq(Insts)] /\ n \in Nat
      /\ born \in Nat /\ born' = born + 1 /\ born' \in 0 .. MaxInsts /\ born + 1 \in Insts
      /\ task' = [task EXCEPT ![born + 1] = id]
      /\ task \in [Insts -> Insts \union {None}]
  BY TSAssumption DEF StackInv, Push, Insts
<1>2. /\ active' \in Seq(Insts) /\ Len(active') = n + 1 /\ active'[n + 1] = born + 1
      /\ \A k \in 1 .. n : active'[k] = active[k] /\ active[k] \in 1 .. born
  BY <1>1, AppendProperties DEF Push, StackInv, StacksAreBorn, UpTo
<1>3. \A k \in 1 .. Len(active') : k \in 1 .. n \/ k = n + 1
  BY <1>1, <1>2
<1>4. \A jd \in Insts : \A k \in 1 .. Len(stashed[jd]) : stashed[jd][k] \in 1 .. born
  BY DEF StackInv, StacksAreBorn, UpTo
<1>5. \A k \in 1 .. born : k # born + 1 /\ k \in 1 .. born + 1
  BY <1>1
<1>6. task' \in [Insts -> Insts \union {None}] /\ \A i \in Insts : task'[i] = None <=> i > born'
  BY <1>1 DEF StackInv, Insts, None
<1>7. StacksAreBorn'
  <2>1. ASSUME NEW k \in 1 .. n + 1 PROVE active'[k] \in 1 .. born + 1
    <3>1. CASE k \in 1 .. n
      BY <1>2, <1>5, <3>1
    <3>2. CASE k = n + 1
      BY <1>1, <1>2, <3>2
    <3> QED
      BY <1>2, <1>3, <3>1, <3>2
  <2>2. \A jd \in Insts : \A k \in 1 .. Len(stashed[jd]) : stashed[jd][k] \in 1 .. born + 1
    BY <1>4, <1>5
  <2> QED
    BY <1>1, <1>2, <2>1, <2>2 DEF StacksAreBorn, UpTo
<1>8. NoRepeat(active)'
  BY <1>1, <1>2, <1>3, <1>5 DEF StackInv, PlaceInv, NoRepeat
<1>9. \A jd \in Insts : Apart(active', stashed[jd])
  <2> SUFFICES ASSUME NEW jd \in Insts, NEW j \in 1 .. n + 1, NEW k \in 1 .. Len(stashed[jd])
               PROVE  active'[j] # stashed[jd][k]
    BY <1>2 DEF Apart
  <2>1. CASE j \in 1 .. n
    BY <1>2, <2>1 DEF StackInv, PlaceInv, Apart
  <2>2. CASE j = n + 1
    BY <1>2, <1>4, <1>5, <2>2
  <2> QED
    BY <1>2, <1>3, <2>1, <2>2
<1>10. \A jd \in Insts : stashed[jd] # <<>> => task'[stashed[jd][1]] = jd
  <2> SUFFICES ASSUME NEW jd \in Insts, stashed[jd] # <<>> PROVE task'[stashed[jd][1]] = jd
    OBVIOUS
  <2>1. stashed[jd][1] \in 1 .. born /\ stashed[jd][1] \in Insts /\ task[stashed[jd][1]] = jd
    BY <1>1, <1>4, FrontKeeps DEF StackInv, PlaceInv
  <2> QED
    BY <2>1, <1>1, <1>5
<1>11. PlaceInv'
  BY <1>1, <1>8, <1>9, <1>10 DEF StackInv, PlaceInv, NoRepeat, Apart
<1> QED
  BY <1>1, <1>2, <1>6, <1>7, <1>11 DEF StackInv

\* Nothing is wrong with a tab that is not there.
LEMMA EmptyIsApart ==
    /\ <<>> \in Seq(Insts)
    /\ NoRepeat(<<>>) /\ \A b : UpTo(<<>>, b)
    /\ \A s : Apart(<<>>, s) /\ Apart(s, <<>>)
  BY DEF NoRepeat, UpTo, Apart

\* Stacks may be shown, stashed and dropped: each one there is afterwards was
\* there before, the one on screen in the map and under its root's taskId.
LEMMA ShuffleKeeps ==
    ASSUME StackInv, UNCHANGED <<born, task>>, stashed' \in [Insts -> Seq(Insts)],
           NEW from \in Insts,
           \/ active' = <<>>
           \/ active' = active /\ \A id \in Insts : stashed'[id] \in {<<>>, stashed[id]}
           \/ active' = stashed[from] /\ stashed'[from] = <<>>,
           \A id \in Insts :
              \/ stashed'[id] \in {<<>>, stashed[id]}
              \/ stashed'[id] = active /\ active # <<>> /\ task[active[1]] = id
    PROVE  StackInv'
<1>1. /\ active \in Seq(Insts) /\ stashed \in [Insts -> Seq(Insts)]
      /\ NoRepeat(active) /\ UpTo(active, born)
      /\ \A id \in Insts : /\ NoRepeat(stashed[id]) /\ UpTo(stashed[id], born)
                           /\ stashed[id] # <<>> => task[stashed[id][1]] = id
                           /\ Apart(active, stashed[id]) /\ Apart(stashed[id], active)
                           /\ \A jd \in Insts \ {id} : Apart(stashed[id], stashed[jd])
  BY DisjointMeansApart DEF StackInv, StacksAreBorn, PlaceInv
<1>2. active' \in Seq(Insts)
  <2>1. active' = <<>> \/ active' = active \/ active' = stashed[from]
    OBVIOUS
  <2>2. stashed[from] \in Seq(Insts)
    BY <1>1
  <2> QED
    BY <1>1, <2>1, <2>2, EmptyIsApart
<1>3. UpTo(active', born) /\ \A id \in Insts : UpTo(stashed'[id], born)
  BY <1>1, EmptyIsApart
<1>4. NoRepeat(active') /\ \A id \in Insts : NoRepeat(stashed'[id])
  BY <1>1, EmptyIsApart
<1>5. \A id \in Insts : stashed'[id] # <<>> => task[stashed'[id][1]] = id
  BY <1>1
<1>6. \A id \in Insts : Apart(active', stashed'[id])
  BY <1>1, EmptyIsApart
<1>7. \A id \in Insts : \A jd \in Insts \ {id} : Apart(stashed'[id], stashed'[jd])
  <2> SUFFICES ASSUME NEW id \in Insts, NEW jd \in Insts, id # jd
               PROVE  Apart(stashed'[id], stashed'[jd])
    OBVIOUS
  <2>1. \/ stashed'[id] = <<>> \/ stashed'[jd] = <<>>
        \/ stashed'[id] = stashed[id] /\ stashed'[jd] = stashed[jd]
        \/ stashed'[id] = active /\ stashed'[jd] = stashed[jd]
        \/ stashed'[id] = stashed[id] /\ stashed'[jd] = active
    <3>1. stashed'[id] \in {<<>>, stashed[id]} \/ (stashed'[id] = active /\ task[active[1]] = id)
      OBVIOUS
    <3>2. stashed'[jd] \in {<<>>, stashed[jd]} \/ (stashed'[jd] = active /\ task[active[1]] = jd)
      OBVIOUS
    <3> QED
      BY <3>1, <3>2
  <2>2. /\ Apart(active, stashed[jd]) /\ Apart(stashed[id], active)
        /\ Apart(stashed[id], stashed[jd])
    BY <1>1
  <2> QED
    BY <2>1, <2>2, EmptyIsApart
<1>8. StacksAreBorn'
  BY <1>3 DEF StacksAreBorn, UpTo
<1>9. PlaceInv'
  BY <1>4, <1>5, <1>6, <1>7 DEF PlaceInv, NoRepeat, Apart
<1> QED
  BY <1>2, <1>8, <1>9 DEF StackInv

\* stashCurrentTask moves the stack on screen under its root's taskId.
LEMMA StashKeeps == StackInv /\ Stash /\ UNCHANGED <<born, task>> => StackInv'
<1> SUFFICES ASSUME StackInv, Stash, UNCHANGED <<born, task>> PROVE StackInv'
  OBVIOUS
<1>1. active \in Seq(Insts) /\ stashed \in [Insts -> Seq(Insts)] /\ active' = <<>>
  BY DEF StackInv, Stash
<1>2. CASE active = <<>>
  BY <1>1, <1>2, ClearKeeps DEF Stash
<1>3. CASE active # <<>>
  <2>1. Head(active) = active[1] /\ active[1] \in 1 .. born /\ active[1] \in Insts
    BY <1>1, <1>3, FrontKeeps DEF StackInv, StacksAreBorn, UpTo
  <2> DEFINE root == task[active[1]]
  <2>2. root \in Insts
    BY <2>1 DEF StackInv, Insts
  <2>3. stashed' = [stashed EXCEPT ![root] = active]
    BY <1>3, <2>1 DEF Stash
  <2> HIDE DEF root
  <2>4. \A id \in Insts : stashed'[id] = IF id = root THEN active ELSE stashed[id]
    BY <1>1, <2>2, <2>3
  <2>5. stashed' \in [Insts -> Seq(Insts)]
    BY <1>1, <2>2, <2>3
  <2> QED
    BY <1>1, <1>3, <2>2, <2>4, <2>5, ShuffleKeeps DEF root
<1> QED
  BY <1>2, <1>3

\* A stack that is closed or forgotten leaves the others alone.
LEMMA DropKeeps ==
    ASSUME NEW id \in Insts, StackInv, stashed' = [stashed EXCEPT ![id] = <<>>],
           UNCHANGED <<active, born, task>>
    PROVE  StackInv'
<1>1. stashed \in [Insts -> Seq(Insts)]
  BY DEF StackInv
<1>2. \A jd \in Insts : stashed'[jd] = IF jd = id THEN <<>> ELSE stashed[jd]
  BY <1>1
<1>3. stashed' \in [Insts -> Seq(Insts)]
  BY <1>1, EmptyIsApart
<1> QED
  BY <1>2, <1>3, ShuffleKeeps

\* The two stacks change places, whichever the tab order keeps.
LEMMA ActivateKeeps ==
    ASSUME NEW o \in Ops, NEW id \in Insts, StackInv, Activate(o, id)
    PROVE  StackInv'
<1>1. /\ active \in Seq(Insts) /\ stashed \in [Insts -> Seq(Insts)]
      /\ active' = stashed[id] /\ UNCHANGED <<born, task>>
  BY DEF StackInv, Activate, instVars
<1>2. CASE active = <<>>
  <2>1. stashed' = [stashed EXCEPT ![id] = <<>>]
    BY <1>2 DEF Activate
  <2>2. \A jd \in Insts : stashed'[jd] = IF jd = id THEN <<>> ELSE stashed[jd]
    BY <1>1, <2>1
  <2>3. stashed' \in [Insts -> Seq(Insts)]
    BY <1>1, <2>1, EmptyIsApart
  <2> QED
    BY <1>1, <2>2, <2>3, ShuffleKeeps
<1>3. CASE active # <<>>
  <2> DEFINE root == task[active[1]]
  <2>1. Head(active) = active[1] /\ active[1] \in 1 .. born /\ active[1] \in Insts
    BY <1>1, <1>3, FrontKeeps DEF StackInv, StacksAreBorn, UpTo
  <2>2. root \in Insts
    BY <2>1 DEF StackInv, Insts
  <2>3. PICK s \in {active, stashed[root]} \ {<<>>} :
            stashed' = [stashed EXCEPT ![root] = s, ![id] = <<>>]
    BY <1>3, <2>1 DEF Activate
  <2> HIDE DEF root
  <2>4. s \in Seq(Insts)
    BY <1>1, <2>2
  <2>5. \A jd \in Insts : stashed'[jd] = IF jd = id THEN <<>> ELSE IF jd = root THEN s ELSE stashed[jd]
    BY <1>1, <2>2, <2>3
  <2>6. stashed' \in [Insts -> Seq(Insts)]
    BY <1>1, <2>2, <2>3, <2>4, EmptyIsApart
  <2>7. s = active \/ s = stashed[root]
    BY <2>3
  <2> QED
    BY <1>1, <1>3, <2>2, <2>5, <2>6, <2>7, ShuffleKeeps DEF root
<1> QED
  BY <1>2, <1>3

\* Actions that leave the stacks and the instances alone.
LEMMA SameStacks == StackInv /\ UNCHANGED <<stackVars, born, task>> => StackInv'
  BY DEF StackInv, StacksAreBorn, UpTo, PlaceInv, NoRepeat, Apart, stackVars

----------------------------------------------------------------------------
(* How an operation goes on                                                *)

LEMMA SetKeeps ==
    ASSUME OpInv, NEW o \in Ops, NEW r \in OpRecs, Known(r),
           op' = [op EXCEPT ![o] = r]
    PROVE  OpInv'
<1>1. op' \in [Ops -> OpRecs]
  BY DEF OpInv
<1>2. \A q \in Ops : op'[q] = IF q = o THEN r ELSE op[q]
  BY DEF OpInv
<1>3. IdIsKnown'
  BY <1>2 DEF OpInv, IdIsKnown
<1> QED
  BY <1>1, <1>3 DEF OpInv

LEMMA EndsKeeps ==
    ASSUME OpInv, NEW o \in Ops, Ends(o) PROVE OpInv'
<1>1. NoOp \in OpRecs /\ Known(NoOp)
  BY DEF NoOp, OpRecs, Known, Pcs, Anonymous
<1> QED
  BY <1>1, SetKeeps DEF Ends

LEMMA GoesKeeps ==
    ASSUME OpInv, NEW o \in Ops, NEW pc \in Pcs, pc \notin Anonymous => op[o].id \in Insts,
           pc # "cancel", Goes(o, pc)
    PROVE  OpInv'
<1> DEFINE r == [op[o] EXCEPT !.pc = pc]
<1>1. op[o] \in OpRecs
  BY DEF OpInv
<1>2. r \in OpRecs /\ r.pc = pc /\ r.id = op[o].id
  BY <1>1 DEF OpRecs
<1>4. Known(r)
  BY <1>2 DEF Known
<1>3. op' = [op EXCEPT ![o] = r]
  BY <1>1 DEF Goes, OpInv
<1> HIDE DEF r
<1> QED
  BY <1>2, <1>3, <1>4, SetKeeps

LEMMA BeginsKeeps ==
    ASSUME OpInv, NEW o \in Ops, NEW pc \in Pcs, NEW i \in Insts \union {None},
           NEW id \in Insts \union {None}, NEW par \in Insts \union {None},
           pc \notin Anonymous => id \in Insts, pc = "cancel" => i \in Insts,
           Begins(o, pc, i, id, par)
    PROVE  OpInv'
<1> DEFINE r == [NoOp EXCEPT !.pc = pc, !.inst = i, !.id = id, !.parent = par]
<1>0. NoOp \in OpRecs
  BY EmptyIsApart DEF NoOp, OpRecs, Pcs, None
<1>1. r \in OpRecs /\ r.pc = pc /\ r.id = id /\ r.inst = i
  BY <1>0 DEF OpRecs
<1>3. Known(r)
  BY <1>1 DEF Known
<1>2. op' = [op EXCEPT ![o] = r]
  BY DEF Begins
<1> HIDE DEF r
<1> QED
  BY <1>1, <1>2, <1>3, SetKeeps

LEMMA SameOps == OpInv /\ op' = op => OpInv'
  BY DEF OpInv, IdIsKnown

\* An operation that is under way on a task has its taskId.
LEMMA IdOf ==
    ASSUME OpInv, NEW o \in Ops
    PROVE  /\ op[o] \in OpRecs /\ op[o].id \in Insts \union {None}
           /\ op[o].inst \in Insts \union {None} /\ op[o].parent \in Insts \union {None}
           /\ op[o].rest \in Seq(Insts)
           /\ op[o].pc \notin Anonymous => op[o].id \in Insts
           /\ op[o].pc = "cancel" => op[o].inst \in Insts
           /\ Known(op[o])
  BY DEF OpInv, OpRecs, IdIsKnown, Known

\* What an operation reads off a stack is an instance with a taskId.
LEMMA TopIsInst ==
    ASSUME StackInv, active # <<>>
    PROVE  /\ Last(active) \in Insts /\ task[Last(active)] \in Insts
           /\ Head(active) \in Insts /\ task[Head(active)] \in Insts
<1>1. active \in Seq(Insts)
  BY DEF StackInv
<1>2. Last(active) \in 1 .. born /\ Head(active) \in 1 .. born
  BY <1>1, FrontKeeps DEF StackInv, StacksAreBorn, UpTo
<1>3. Last(active) \in Insts /\ Head(active) \in Insts
  BY <1>1, FrontKeeps
<1> QED
  BY <1>2, <1>3 DEF StackInv, Insts

----------------------------------------------------------------------------
(* The invariant is inductive                                              *)

LEMMA StepKeeps ==
    ASSUME IInv, NEW o \in Ops, Click(o) \/ Agent(o) \/ Continue(o)
    PROVE  IInv'
<1> USE DEF IInv
<1>1. ASSUME NewTask(o) PROVE IInv'
  <2>1. StackInv'
    BY <1>1, StashKeeps DEF NewTask, stackVars, instVars, lifeVars, doneVars
  <2>2. FieldInv'
    BY <1>1 DEF NewTask, FieldInv, stackVars, instVars, lifeVars, doneVars
  <2>3. OpInv'
    BY <1>1, BeginsKeeps DEF NewTask, Pcs, Creating, Anonymous, None
  <2> QED
    BY <2>1, <2>2, <2>3
<1>2. ASSUME NEW i \in Insts, StartSubtask(o, i) PROVE IInv'
  <2>1. StackInv'
    BY <1>2, StashKeeps DEF StartSubtask, stackVars, instVars, lifeVars, doneVars
  <2>2. FieldInv'
    BY <1>2 DEF StartSubtask, FieldInv, stackVars, instVars, lifeVars, doneVars
  <2>3. OpInv'
    BY <1>2, BeginsKeeps DEF StartSubtask, Pcs, Creating, Anonymous, None
  <2> QED
    BY <2>1, <2>2, <2>3
<1>3. ASSUME CreateTask(o) PROVE IInv'
  <2>1. StackInv'
    <3>1. CASE Push(born + 1, op[o].parent)
      <4>1. born + 1 \in Insts
        BY <3>1, TSAssumption DEF StackInv, Push, Insts
      <4> QED
        BY <1>3, <3>1, <4>1, PushKeeps DEF CreateTask
    <3>2. CASE UNCHANGED <<active, instVars>>
      BY <1>3, <3>2, SameStacks DEF CreateTask, stackVars, instVars
    <3> QED
      BY <1>3, <3>1, <3>2 DEF CreateTask
  <2>2. FieldInv'
    <3>1. CASE Push(born + 1, op[o].parent)
      <4>1. born + 1 \in Insts /\ op[o].parent \in Insts \union {None}
        BY <3>1, IdOf, TSAssumption DEF StackInv, Push, Insts
      <4> QED
        BY <1>3, <3>1, <4>1 DEF CreateTask, Push, FieldInv, lifeVars, doneVars
    <3>2. CASE UNCHANGED <<instVars, history>>
      BY <1>3, <3>2 DEF CreateTask, FieldInv, stackVars, instVars, lifeVars, doneVars
    <3> QED
      BY <1>3, <3>1, <3>2 DEF CreateTask
  <2>3. OpInv'
    <3>1. CASE Push(born + 1, op[o].parent)
      <4> DEFINE r == [op[o] EXCEPT !.pc = "spawned", !.id = born + 1]
      <4>1. born + 1 \in Insts
        BY <3>1, TSAssumption DEF StackInv, Push, Insts
      <4>2. r \in OpRecs /\ Known(r)
        BY <4>1, IdOf DEF OpRecs, Known, Pcs, Anonymous
      <4>3. CASE op' = [op EXCEPT ![o].pc = "spawned", ![o].id = born + 1]
        <5>1. op' = [op EXCEPT ![o] = r]
          BY <4>3 DEF OpInv
        <5> HIDE DEF r
        <5> QED
          BY <4>2, <5>1, SetKeeps
      <4> QED
        BY <1>3, <4>3, EndsKeeps DEF CreateTask
    <3>2. CASE Ends(o)
      BY <3>2, EndsKeeps
    <3> QED
      BY <1>3, <3>1, <3>2 DEF CreateTask
  <2> QED
    BY <2>1, <2>2, <2>3
<1>4. ASSUME PauseParent(o) PROVE IInv'
  <2>1. StackInv'
    BY <1>4, SameStacks DEF PauseParent, stackVars, instVars, lifeVars, doneVars
  <2>2. FieldInv'
    BY <1>4, IdOf DEF PauseParent, FieldInv, stackVars, instVars, lifeVars, doneVars
  <2>3. OpInv'
    BY <1>4, EndsKeeps DEF PauseParent
  <2> QED
    BY <2>1, <2>2, <2>3
<1>5. ASSUME PlusButton(o) PROVE IInv'
  <2>1. StackInv'
    BY <1>5, StashKeeps DEF PlusButton, stackVars, instVars, lifeVars, doneVars
  <2>2. FieldInv'
    BY <1>5 DEF PlusButton, FieldInv, stackVars, instVars, lifeVars, doneVars
  <2>3. OpInv'
    BY <1>5, SameOps DEF PlusButton
  <2> QED
    BY <2>1, <2>2, <2>3
<1>6. ASSUME NEW id \in Insts, Activate(o, id) PROVE IInv'
  <2>1. StackInv'
    BY <1>6, ActivateKeeps
  <2>2. FieldInv'
    BY <1>6 DEF Activate, FieldInv, stackVars, instVars, lifeVars, doneVars
  <2>3. OpInv'
    BY <1>6, SameOps DEF Activate
  <2> QED
    BY <2>1, <2>2, <2>3
<1>7. ASSUME NEW id \in Insts, ShowTask(o, id) PROVE IInv'
  <2>1. StackInv'
    BY <1>7, SameStacks DEF ShowTask, stackVars, instVars, lifeVars, doneVars
  <2>2. FieldInv'
    BY <1>7 DEF ShowTask, FieldInv, stackVars, instVars, lifeVars, doneVars
  <2>3. OpInv'
    BY <1>7, BeginsKeeps DEF ShowTask, Pcs, Creating, Anonymous, None
  <2> QED
    BY <2>1, <2>2, <2>3
<1>8. ASSUME ShowFound(o) PROVE IInv'
  <2>1. StackInv'
    BY <1>8, StashKeeps, SameStacks DEF ShowFound, stackVars, instVars, lifeVars, doneVars
  <2>2. FieldInv'
    BY <1>8 DEF ShowFound, FieldInv, stackVars, instVars, lifeVars, doneVars
  <2>3. OpInv'
    BY <1>8, GoesKeeps, EndsKeeps, IdOf DEF ShowFound, At, Pcs, Creating, Anonymous
  <2> QED
    BY <2>1, <2>2, <2>3
<1>9. ASSUME ShowStashed(o) PROVE IInv'
  <2>1. StackInv'
    BY <1>9, RemoveTopKeeps DEF ShowStashed, stackVars, instVars, lifeVars, doneVars
  <2>2. FieldInv'
    BY <1>9, TopIsInst DEF ShowStashed, RemoveTop, FieldInv, stackVars, instVars, lifeVars, doneVars
  <2>3. OpInv'
    BY <1>9, GoesKeeps, EndsKeeps, IdOf DEF ShowStashed, At, Pcs, Creating, Anonymous
  <2> QED
    BY <2>1, <2>2, <2>3
<1>10. ASSUME Rehydrate(o) PROVE IInv'
  <2>1. StackInv'
    <3>1. op[o].id \in Insts
      BY <1>10, IdOf DEF Rehydrate, At, Anonymous
    <3> QED
      BY <1>10, <3>1, PushKeeps DEF Rehydrate
  <2>2. FieldInv'
    <3>1. op[o].id \in Insts /\ op[o].parent \in Insts \union {None}
      BY <1>10, IdOf DEF Rehydrate, At, Anonymous
    <3> QED
      BY <1>10, <3>1 DEF Rehydrate, Push, FieldInv, lifeVars, doneVars
  <2>3. OpInv'
    BY <1>10, EndsKeeps DEF Rehydrate
  <2> QED
    BY <2>1, <2>2, <2>3
<1>11. ASSUME NEW id \in Insts, CloseTask(o, id) PROVE IInv'
  <2>1. StackInv'
    BY <1>11, ClearKeeps, SameStacks DEF CloseTask, stackVars, instVars, lifeVars, doneVars
  <2>2. FieldInv'
    <3> DEFINE stack == IF active # <<>> /\ task[Head(active)] = id THEN active ELSE stashed[id]
    <3>1. stack \in Seq(Insts)
      BY DEF StackInv
    <3>2. stack # <<>> /\ aborted' = aborted \union {Last(stack)}
      BY <1>11 DEF CloseTask
    <3> HIDE DEF stack
    <3>3. Last(stack) \in Insts
      BY <3>1, <3>2, FrontKeeps
    <3> QED
      BY <1>11, <3>2, <3>3 DEF CloseTask, FieldInv, instVars, doneVars
  <2>3. OpInv'
    <3> DEFINE stack == IF active # <<>> /\ task[Head(active)] = id THEN active ELSE stashed[id]
               r == [NoOp EXCEPT !.pc = "close", !.id = id, !.rest = Front(stack)]
    <3>1. stack \in Seq(Insts)
      BY DEF StackInv
    <3>2. stack # <<>> /\ op' = [op EXCEPT ![o] = r]
      BY <1>11 DEF CloseTask
    <3> HIDE DEF stack
    <3>3. Front(stack) \in Seq(Insts)
      BY <3>1, <3>2, FrontKeeps
    <3>4. r \in OpRecs /\ Known(r)
      BY <3>3 DEF OpRecs, Known, NoOp, Pcs, None
    <3> HIDE DEF r
    <3> QED
      BY <3>2, <3>4, SetKeeps
  <2> QED
    BY <2>1, <2>2, <2>3
<1>12. ASSUME CloseNext(o) PROVE IInv'
  <2>1. StackInv'
    <3>1. op[o].id \in Insts
      BY <1>12, IdOf DEF CloseNext, At, Anonymous
    <3> QED
      BY <1>12, <3>1, DropKeeps, SameStacks DEF CloseNext, stackVars, instVars
  <2>2. FieldInv'
    <3>1. op[o].rest # <<>> => Last(op[o].rest) \in Insts
      BY IdOf, FrontKeeps
    <3> QED
      BY <1>12, <3>1 DEF CloseNext, FieldInv, instVars, doneVars
  <2>3. OpInv'
    <3>1. CASE op[o].rest # <<>>
      <4> DEFINE r == [op[o] EXCEPT !.rest = Front(op[o].rest)]
      <4>1. Front(op[o].rest) \in Seq(Insts)
        BY <3>1, IdOf, FrontKeeps
      <4>2. r \in OpRecs /\ Known(r)
        BY <4>1, IdOf DEF OpRecs, Known
      <4>3. op' = [op EXCEPT ![o] = r]
        BY <1>12, <3>1 DEF CloseNext, OpInv
      <4> HIDE DEF r
      <4> QED
        BY <4>2, <4>3, IdOf, SetKeeps
    <3>2. CASE op[o].rest = <<>>
      BY <1>12, <3>2, EndsKeeps DEF CloseNext
    <3> QED
      BY <3>1, <3>2
  <2> QED
    BY <2>1, <2>2, <2>3
<1>13. ASSUME NEW i \in Insts, FinishSubtask(o, i) PROVE IInv'
  <2>1. StackInv'
    BY <1>13, RemoveTopKeeps DEF FinishSubtask, stackVars, instVars, lifeVars, doneVars
  <2>2. FieldInv'
    BY <1>13, TopIsInst DEF FinishSubtask, RemoveTop, FieldInv, stackVars, instVars, lifeVars, doneVars
  <2>3. OpInv'
    BY <1>13, BeginsKeeps DEF FinishSubtask, Pcs, Creating, Anonymous, None
  <2> QED
    BY <2>1, <2>2, <2>3
<1>14. ASSUME ClearTask(o) PROVE IInv'
  <2>1. StackInv'
    BY <1>14, RemoveTopKeeps DEF ClearTask, stackVars, instVars, lifeVars, doneVars
  <2>2. FieldInv'
    BY <1>14, TopIsInst DEF ClearTask, RemoveTop, FieldInv, stackVars, instVars, lifeVars, doneVars
  <2>3. OpInv'
    BY <1>14, BeginsKeeps, SameOps DEF ClearTask, Pcs, Creating, Anonymous, None
  <2> QED
    BY <2>1, <2>2, <2>3
<1>15. ASSUME Finish(o) PROVE IInv'
  <2>1. StackInv'
    BY <1>15, SameStacks DEF Finish, stackVars, instVars, lifeVars, doneVars
  <2>2. FieldInv'
    BY <1>15, TopIsInst DEF Finish, CompleteSubtask, FieldInv, stackVars, instVars, lifeVars, doneVars, None
  <2>3. OpInv'
    BY <1>15, EndsKeeps DEF Finish
  <2> QED
    BY <2>1, <2>2, <2>3
<1>16. ASSUME NEW id \in Insts, DeleteTask(o, id) PROVE IInv'
  <2>1. StackInv'
    BY <1>16, SameStacks DEF DeleteTask, stackVars, instVars, lifeVars, doneVars
  <2>2. FieldInv'
    BY <1>16 DEF DeleteTask, FieldInv, stackVars, instVars, lifeVars, doneVars
  <2>3. OpInv'
    BY <1>16, BeginsKeeps DEF DeleteTask, Pcs, Creating, Anonymous, None
  <2> QED
    BY <2>1, <2>2, <2>3
<1>17. ASSUME DeleteFound(o) PROVE IInv'
  <2>1. StackInv'
    <3>1. op[o].id \in Insts
      BY <1>17, IdOf DEF DeleteFound, At, Anonymous
    <3> QED
      BY <1>17, <3>1, DropKeeps, RemoveTopKeeps, SameStacks DEF DeleteFound, Forget, DropFromHistory, instVars, stackVars
  <2>2. FieldInv'
    <3>1. CASE RemoveTop /\ history' = history
      BY <1>17, <3>1, TopIsInst DEF DeleteFound, RemoveTop, FieldInv, instVars, doneVars
    <3>2. CASE Forget(o)
      <4>1. op[o].id \in Insts
        BY <1>17, IdOf DEF DeleteFound, At, Anonymous
      <4>2. ToSet(stashed[op[o].id]) \subseteq Insts
        BY <4>1 DEF StackInv, ToSet
      <4> QED
        BY <1>17, <3>2, <4>2 DEF DeleteFound, Forget, DropFromHistory, FieldInv, instVars, doneVars
    <3> QED
      BY <1>17, <3>1, <3>2 DEF DeleteFound
  <2>3. OpInv'
    BY <1>17, GoesKeeps, EndsKeeps, IdOf DEF DeleteFound, At, Pcs, Creating, Anonymous, Forget, DropFromHistory
  <2> QED
    BY <2>1, <2>2, <2>3
<1>18. ASSUME DeleteFinish(o) PROVE IInv'
  <2>1. StackInv'
    BY <1>18, SameStacks DEF DeleteFinish, stackVars, instVars, lifeVars, doneVars
  <2>2. FieldInv'
    BY <1>18, TopIsInst DEF DeleteFinish, CompleteSubtask, FieldInv, stackVars, instVars, lifeVars, doneVars, None
  <2>3. OpInv'
    BY <1>18, GoesKeeps, EndsKeeps, IdOf DEF DeleteFinish, At, Pcs, Creating, Anonymous
  <2> QED
    BY <2>1, <2>2, <2>3
<1>19. ASSUME DeleteStash(o) PROVE IInv'
  <2>1. StackInv'
    <3>1. op[o].id \in Insts
      BY <1>19, IdOf DEF DeleteStash, At, Anonymous
    <3> QED
      BY <1>19, <3>1, DropKeeps, SameStacks DEF DeleteStash, Forget, DropFromHistory, instVars, stackVars
  <2>2. FieldInv'
    <3>1. op[o].id \in Insts
      BY <1>19, IdOf DEF DeleteStash, At, Anonymous
    <3>2. ToSet(stashed[op[o].id]) \subseteq Insts
      BY <3>1 DEF StackInv, ToSet
    <3> QED
      BY <1>19, <3>2 DEF DeleteStash, Forget, DropFromHistory, FieldInv, instVars, doneVars
  <2>3. OpInv'
    BY <1>19, GoesKeeps, EndsKeeps, IdOf DEF DeleteStash, At, Pcs, Creating, Anonymous, Forget, DropFromHistory
  <2> QED
    BY <2>1, <2>2, <2>3
<1>19a. ASSUME DeleteState(o) PROVE IInv'
  <2>1. StackInv'
    BY <1>19a, SameStacks DEF DeleteState, stackVars, instVars, lifeVars, doneVars
  <2>2. FieldInv'
    BY <1>19a DEF DeleteState, DropFromHistory, FieldInv, stackVars, instVars, lifeVars, doneVars
  <2>3. OpInv'
    BY <1>19a, EndsKeeps DEF DeleteState, DropFromHistory
  <2> QED
    BY <2>1, <2>2, <2>3
<1>20. ASSUME CancelTask(o) PROVE IInv'
  <2>1. StackInv'
    BY <1>20, SameStacks DEF CancelTask, stackVars, instVars, lifeVars, doneVars
  <2>2. FieldInv'
    BY <1>20 DEF CancelTask, FieldInv, stackVars, instVars, lifeVars, doneVars
  <2>3. OpInv'
    <3>1. /\ Last(active) \in Insts /\ task[Last(active)] \in Insts
          /\ parent[Last(active)] \in Insts \union {None}
      BY <1>20, TopIsInst DEF CancelTask, FieldInv
    <3>2. Begins(o, "cancel", Last(active), task[Last(active)], parent[Last(active)])
      BY <1>20 DEF CancelTask
    <3> QED
      BY <3>1, <3>2, BeginsKeeps DEF Pcs, Creating
  <2> QED
    BY <2>1, <2>2, <2>3
<1>21. ASSUME CancelAborts(o) PROVE IInv'
  <2>1. StackInv'
    BY <1>21, SameStacks DEF CancelAborts, stackVars, instVars, lifeVars, doneVars
  <2>2. FieldInv'
    <3>1. op[o].inst \in Insts
      BY <1>21, IdOf DEF CancelAborts, At
    <3> QED
      BY <1>21, <3>1 DEF CancelAborts, FieldInv, instVars, doneVars
  <2>3. OpInv'
    BY <1>21, GoesKeeps, EndsKeeps, IdOf DEF CancelAborts, At, Pcs, Creating, Anonymous
  <2> QED
    BY <2>1, <2>2, <2>3
<1>22. ASSUME CancelRehydrates(o) PROVE IInv'
  <2>1. StackInv'
    BY <1>22, RemoveTopKeeps, SameStacks DEF CancelRehydrates, stackVars, instVars, lifeVars, doneVars
  <2>2. FieldInv'
    BY <1>22, TopIsInst DEF CancelRehydrates, RemoveTop, FieldInv, stackVars, instVars, lifeVars, doneVars
  <2>3. OpInv'
    BY <1>22, GoesKeeps, EndsKeeps, IdOf DEF CancelRehydrates, At, Pcs, Creating, Anonymous
  <2> QED
    BY <2>1, <2>2, <2>3
<1>23. ASSUME NEW i \in Insts, StreamFails(o, i) PROVE IInv'
  <2>1. StackInv'
    BY <1>23, SameStacks DEF StreamFails, stackVars, instVars, lifeVars, doneVars
  <2>2. FieldInv'
    BY <1>23 DEF StreamFails, FieldInv, stackVars, instVars, lifeVars, doneVars
  <2>3. OpInv'
    <3>1. task[i] \in Insts /\ parent[i] \in Insts \union {None}
      BY <1>23 DEF StreamFails, Live, Born, StackInv, FieldInv, Insts
    <3>2. Begins(o, "failed", i, task[i], parent[i]) \/ op' = op
      BY <1>23 DEF StreamFails
    <3> QED
      BY <3>1, <3>2, BeginsKeeps, SameOps DEF Pcs, Creating
  <2> QED
    BY <2>1, <2>2, <2>3
<1>24. ASSUME FailedFound(o) PROVE IInv'
  <2>1. StackInv'
    BY <1>24, RemoveTopKeeps, SameStacks DEF FailedFound, stackVars, instVars, lifeVars, doneVars
  <2>2. FieldInv'
    BY <1>24, TopIsInst DEF FailedFound, RemoveTop, FieldInv, stackVars, instVars, lifeVars, doneVars
  <2>3. OpInv'
    BY <1>24, GoesKeeps, EndsKeeps, IdOf DEF FailedFound, At, Pcs, Creating, Anonymous
  <2> QED
    BY <2>1, <2>2, <2>3
<1> QED
  BY <1>1, <1>2, <1>3, <1>4, <1>5, <1>6, <1>7, <1>8, <1>9, <1>10, <1>11, <1>12,
     <1>13, <1>14, <1>15, <1>16, <1>17, <1>18, <1>19, <1>19a, <1>20, <1>21, <1>22, <1>23, <1>24
     DEF Click, Agent, Continue

LEMMA InitIInv == Init => IInv
<1> SUFFICES ASSUME Init PROVE IInv
  OBVIOUS
<1>1. StackInv
  BY TSAssumption, EmptyIsApart DEF Init, StackInv, StacksAreBorn, PlaceInv, Insts, None
<1>2. FieldInv
  BY DEF Init, FieldInv, None
<1>3. OpInv
  BY EmptyIsApart DEF Init, OpInv, OpRecs, IdIsKnown, Known, NoOp, Pcs, Anonymous, None
<1> QED
  BY <1>1, <1>2, <1>3 DEF IInv

LEMMA StepIInv == IInv /\ [Next]_vars => IInv'
<1> SUFFICES ASSUME IInv, [Next]_vars PROVE IInv'
  OBVIOUS
<1>1. CASE Next
  BY <1>1, StepKeeps DEF Next
<1>2. CASE UNCHANGED vars
  <2>1. StackInv'
    BY <1>2, SameStacks DEF IInv, vars, stackVars, instVars
  <2>2. FieldInv'
    BY <1>2 DEF IInv, FieldInv, vars, instVars, lifeVars, doneVars
  <2>3. OpInv'
    BY <1>2, SameOps DEF IInv, vars
  <2> QED
    BY <2>1, <2>2, <2>3 DEF IInv
<1> QED
  BY <1>1, <1>2

LEMMA Invariance == Spec => []IInv
<1> QED
  BY InitIInv, StepIInv, PTL DEF Spec

----------------------------------------------------------------------------
\* Whatever operations interleave, a Task instance is on one stack, once, and
\* each stack of taskStacks is under its root's taskId: stashCurrentTask,
\* activateTask, createTask and closeTask neither copy nor mix stacks.
THEOREM EachInOnePlace == Spec => []InOnePlace
<1>1. IInv => InOnePlace
  BY PlaceMeansInOnePlace DEF IInv
<1> QED
  BY Invariance, <1>1, PTL

\* The model's variables keep their types; a taskId is given once, when the
\* instance is constructed.
THEOREM StacksTypeCorrect == Spec => []TypeOK
<1>1. IInv => TypeOK
  BY DEF IInv, StackInv, FieldInv, OpInv, OpRecs, TypeOK
<1> QED
  BY Invariance, <1>1, PTL

----------------------------------------------------------------------------
(* Operations that never overlap                                           *)

\* Every stack is of one instance, as createTask stashes the caller of a subtask;
\* it is under that one's taskId, and not beside another one of its task.
Single(s) == s = <<>> \/ \E i \in Born : s = <<i>>
Tabs ==
    /\ Single(active) /\ \A id \in Insts : Single(stashed[id])
    /\ \A i \in Born : active = <<i>> => stashed[task[i]] = <<>>
    /\ \A id \in Insts, i \in Born : stashed[id] = <<i>> => task[i] = id
OnStack(i) == active = <<i>> \/ stashed[task[i]] = <<i>>

\* taskIds are those of instances that were constructed.
IdsInv == history \subseteq Born /\ \A i \in Born : task[i] \in Born

\* What the operation under way, with the local variables r, relies on.
OpNow(r) ==
    /\ r.pc # "failed"
    /\ r.pc \in {"create", "show", "rehydrate"} => active = <<>>
    /\ r.pc \in {"look", "show", "rehydrate"} => r.id \in Born /\ stashed[r.id] = <<>>
    /\ r.pc = "look" => \A i \in Born : active = <<i>> => task[i] # r.id
    /\ r.pc \in {"cancel", "abort"} =>
          r.inst \in Born /\ active = <<r.inst>> /\ r.id = task[r.inst]
    /\ r.pc = "close" =>
          /\ r.id \in Insts /\ r.rest = <<>>
          /\ \A i \in Born : active = <<i>> => task[i] # r.id

\* The instance that it has aborted and not yet taken off its stack.
Doomed(r, i) == \/ r.pc = "close" /\ stashed[r.id] = <<i>>
                \/ r.pc = "abort" /\ r.inst = i

\* An instance runs if and only if it is on a stack, apart from that one.
LivesOnStack(r) ==
    /\ aborted \subseteq Born
    /\ \A i \in Born : i \in aborted <=> (Doomed(r, i) \/ ~OnStack(i))
Mine(r) == OpNow(r) /\ LivesOnStack(r)

OneOp == \A o, p \in Ops : op[o] # NoOp /\ op[p] # NoOp => o = p
AloneInv ==
    /\ Tabs /\ IdsInv /\ OneOp
    /\ Quiet => Mine(NoOp)
    /\ \A o \in Ops : op[o] # NoOp => Mine(op[o])

LEMMA OneOnStack ==
    ASSUME NEW i \in Insts
    PROVE  /\ <<i>> # <<>> /\ Head(<<i>>) = i /\ Last(<<i>>) = i /\ Front(<<i>>) = <<>>
           /\ ToSet(<<i>>) = {i} /\ \A j : <<i>> = <<j>> => i = j
<1>1. <<i>> \in Seq(Insts) /\ Len(<<i>>) = 1 /\ <<i>>[1] = i /\ <<i>> # <<>>
  OBVIOUS
<1>2. Last(<<i>>) = i /\ Head(<<i>>) = i
  BY <1>1, FrontKeeps
<1>3. Front(<<i>>) \in Seq(Insts) /\ Len(Front(<<i>>)) = Len(<<i>>) - 1
  BY <1>1, FrontKeeps, Zenon
<1>4. Front(<<i>>) = <<>>
  BY <1>1, <1>3
<1>5. ToSet(<<i>>) = {i}
  BY <1>1 DEF ToSet
<1> QED
  BY <1>1, <1>2, <1>4, <1>5

LEMMA ToSetOfSingle ==
    ASSUME Born \subseteq Insts, NEW s, Single(s)
    PROVE  /\ \A i \in Born : i \in ToSet(s) <=> s = <<i>>
           /\ ToSet(s) \subseteq Born
<1>1. CASE s = <<>>
  <2>1. ToSet(s) = {}
    BY <1>1 DEF ToSet
  <2>2. \A i \in Born : <<i>> # <<>>
    BY OneOnStack
  <2> QED
    BY <1>1, <2>1, <2>2
<1>2. ASSUME NEW b \in Born, s = <<b>>
      PROVE  /\ \A i \in Born : i \in ToSet(s) <=> s = <<i>>
             /\ ToSet(s) \subseteq Born
  <2>1. ToSet(s) = {b} /\ \A i : <<b>> = <<i>> => b = i
    BY <1>2, OneOnStack
  <2> QED
    BY <1>2, <2>1
<1> QED
  BY <1>1, <1>2 DEF Single

LEMMA AloneTypes ==
    ASSUME IInv, IdsInv
    PROVE  /\ active \in Seq(Insts) /\ stashed \in [Insts -> Seq(Insts)]
           /\ born \in Nat /\ Born \subseteq Insts /\ aborted \subseteq Insts
           /\ task \in [Insts -> Insts \union {None}] /\ parent \in [Insts -> Insts \union {None}]
           /\ history \subseteq Insts /\ op \in [Ops -> OpRecs]
           /\ \A i \in Born : task[i] \in Insts
           /\ \A i \in Insts : i # None
  BY DEF IInv, StackInv, FieldInv, OpInv, IdsInv, Born, Insts, None

\* stashCurrentTask.
LEMMA StashMoves ==
    ASSUME IInv, Tabs, IdsInv, Stash, UNCHANGED instVars
    PROVE  /\ Tabs' /\ active' = <<>> /\ Born' = Born
           /\ \A i \in Born : OnStack(i)' <=> OnStack(i)
           /\ \A id \in Insts : \/ stashed'[id] = stashed[id]
                                \/ \E i \in Born : active = <<i>> /\ task[i] = id
<1>1. /\ active \in Seq(Insts) /\ stashed \in [Insts -> Seq(Insts)] /\ Born \subseteq Insts
      /\ \A i \in Born : task[i] \in Insts
  BY AloneTypes
<1>2. /\ active' = <<>> /\ Born' = Born /\ UNCHANGED <<task, born>>
  BY DEF Stash, instVars, Born
<1>3. CASE active = <<>>
  BY <1>2, <1>3 DEF Stash, Tabs, Single, OnStack, Born
<1>4. ASSUME NEW a \in Born, active = <<a>>
      PROVE  /\ Tabs'
             /\ \A i \in Born : OnStack(i)' <=> OnStack(i)
             /\ \A id \in Insts : stashed'[id] = stashed[id] \/ task[a] = id
  <2>1. a \in Insts /\ Head(active) = a /\ \A j : active = <<j>> => a = j
    BY <1>1, <1>4, OneOnStack
  <2>2. active # <<>> /\ stashed[task[a]] = <<>>
    BY <1>4, <2>1, OneOnStack DEF Tabs
  <2>3. \A id \in Insts : stashed'[id] = IF id = task[a] THEN <<a>> ELSE stashed[id]
    BY <1>1, <1>4, <2>1, <2>2 DEF Stash
  <2>4. Tabs'
    <3>1. Single(active)' /\ \A id \in Insts : Single(stashed[id])'
      BY <1>2, <2>3 DEF Tabs, Single
    <3>2. ASSUME NEW i \in Born PROVE active' # <<i>>
      BY <1>1, <1>2, OneOnStack
    <3>3. ASSUME NEW id \in Insts, NEW i \in Born, stashed'[id] = <<i>> PROVE task'[i] = id
      <4>1. CASE id = task[a]
        BY <1>2, <1>4, <2>1, <2>3, <3>3, <4>1
      <4>2. CASE id # task[a]
        BY <1>2, <2>3, <3>3, <4>2 DEF Tabs
      <4> QED
        BY <4>1, <4>2
    <3> QED
      BY <1>2, <3>1, <3>2, <3>3 DEF Tabs
  <2>5. \A i \in Born : OnStack(i)' <=> OnStack(i)
    BY <1>1, <1>2, <1>4, <2>1, <2>2, <2>3, OneOnStack DEF Tabs, OnStack
  <2> QED
    BY <2>3, <2>4, <2>5
<1> QED
  BY <1>2, <1>3, <1>4 DEF Tabs, Single

\* removeClineFromStack.
LEMMA TopMoves ==
    ASSUME IInv, Tabs, IdsInv, RemoveTop, UNCHANGED <<stashed, instVars>>
    PROVE  /\ Tabs' /\ active' = <<>> /\ Born' = Born
           /\ \A i \in Born : /\ OnStack(i)' <=> OnStack(i) /\ active # <<i>>
                              /\ i \in aborted' <=> i \in aborted \/ active = <<i>>
           /\ aborted' \subseteq aborted \union Born
<1>1. /\ active \in Seq(Insts) /\ Born \subseteq Insts /\ \A i \in Born : task[i] \in Insts
  BY AloneTypes
<1>2. Born' = Born /\ UNCHANGED <<task, born, stashed>>
  BY DEF instVars, Born
<1>3. CASE active = <<>>
  BY <1>1, <1>2, <1>3, OneOnStack DEF RemoveTop, Tabs, Single, OnStack
<1>4. ASSUME NEW a \in Born, active = <<a>>
      PROVE  /\ Tabs' /\ active' = <<>>
             /\ \A i \in Born : /\ OnStack(i)' <=> OnStack(i) /\ active # <<i>>
                                /\ i \in aborted' <=> i \in aborted \/ active = <<i>>
             /\ aborted' \subseteq aborted \union Born
  <2>1. a \in Insts /\ Last(active) = a /\ \A j : active = <<j>> => a = j
    BY <1>1, <1>4, OneOnStack
  <2>2. active # <<>> /\ stashed[task[a]] = <<>> /\ Front(active) = <<>>
    BY <1>1, <1>4, OneOnStack DEF Tabs
  <2>3. active' = <<>> /\ aborted' = aborted \union {a}
    BY <2>1, <2>2 DEF RemoveTop
  <2>4. Tabs'
    BY <1>1, <1>2, <2>3, OneOnStack DEF Tabs, Single
  <2>5. \A i \in Born : OnStack(i)' <=> OnStack(i) /\ active # <<i>>
    BY <1>1, <1>2, <1>4, <2>1, <2>2, <2>3, OneOnStack DEF Tabs, OnStack
  <2> QED
    BY <1>4, <2>1, <2>3, <2>4, <2>5
<1> QED
  BY <1>2, <1>3, <1>4 DEF Tabs, Single

\* A tab is closed or forgotten.
LEMMA DropMoves ==
    ASSUME IInv, Tabs, IdsInv, NEW id \in Insts, stashed' = [stashed EXCEPT ![id] = <<>>],
           UNCHANGED <<active, instVars>>
    PROVE  /\ Tabs' /\ Born' = Born
           /\ \A i \in Born : OnStack(i)' <=> OnStack(i) /\ stashed[id] # <<i>>
<1>1. /\ active \in Seq(Insts) /\ stashed \in [Insts -> Seq(Insts)] /\ Born \subseteq Insts
      /\ \A i \in Born : task[i] \in Insts
  BY AloneTypes
<1>2. Born' = Born /\ UNCHANGED <<task, born, active>>
  BY DEF instVars, Born
<1>3. \A jd \in Insts : stashed'[jd] = IF jd = id THEN <<>> ELSE stashed[jd]
  BY <1>1
<1>4. \A i \in Born : <<i>> # <<>>
  BY <1>1, OneOnStack
<1>5. Tabs'
  BY <1>1, <1>2, <1>3, <1>4 DEF Tabs, Single
<1>6. \A i \in Born : OnStack(i)' <=> OnStack(i) /\ stashed[id] # <<i>>
  BY <1>1, <1>2, <1>3, <1>4 DEF Tabs, OnStack
<1> QED
  BY <1>2, <1>5, <1>6

\* activateTask changes the places of two stacks.
LEMMA ActivateMoves ==
    ASSUME IInv, Tabs, IdsInv, NEW o \in Ops, NEW id \in Insts, Activate(o, id)
    PROVE  Tabs' /\ Born' = Born /\ \A i \in Born : OnStack(i)' <=> OnStack(i)
<1>1. /\ active \in Seq(Insts) /\ stashed \in [Insts -> Seq(Insts)] /\ Born \subseteq Insts
      /\ \A i \in Born : task[i] \in Insts
  BY AloneTypes
<1>2. Born' = Born /\ UNCHANGED <<task, born>>
  BY DEF Activate, instVars, Born
<1>3. \A i \in Born : <<i>> # <<>> /\ \A j : <<i>> = <<j>> => i = j
  BY <1>1, OneOnStack
<1>4. PICK b \in Born : stashed[id] = <<b>> /\ task[b] = id /\ active' = <<b>>
  BY DEF Activate, Tabs, Single
<1>5. CASE active = <<>>
  <2>1. \A jd \in Insts : stashed'[jd] = IF jd = id THEN <<>> ELSE stashed[jd]
    BY <1>1, <1>5 DEF Activate
  <2>2. Tabs'
    <3>1. Single(active)' /\ \A jd \in Insts : Single(stashed[jd])'
      BY <1>2, <1>4, <2>1 DEF Tabs, Single
    <3>2. ASSUME NEW i \in Born, active' = <<i>> PROVE stashed'[task'[i]] = <<>>
      BY <1>1, <1>2, <1>3, <1>4, <2>1, <3>2
    <3>3. ASSUME NEW jd \in Insts, NEW i \in Born, stashed'[jd] = <<i>> PROVE task'[i] = jd
      BY <1>1, <1>2, <1>3, <2>1, <3>3 DEF Tabs
    <3> QED
      BY <1>2, <3>1, <3>2, <3>3 DEF Tabs
  <2>3. \A i \in Born : OnStack(i)' <=> OnStack(i)
    BY <1>1, <1>2, <1>3, <1>4, <1>5, <2>1 DEF Tabs, OnStack
  <2> QED
    BY <1>2, <2>2, <2>3
<1>6. ASSUME NEW a \in Born, active = <<a>>
      PROVE  Tabs' /\ \A i \in Born : OnStack(i)' <=> OnStack(i)
  <2>1. Head(active) = a /\ active # <<>> /\ stashed[task[a]] = <<>> /\ task[a] # id
    BY <1>1, <1>3, <1>4, <1>6, OneOnStack DEF Tabs
  <2>2. stashed' = [stashed EXCEPT ![task[a]] = <<a>>, ![id] = <<>>]
    BY <1>6, <2>1 DEF Activate
  <2>3. \A jd \in Insts : stashed'[jd] = IF jd = id THEN <<>> ELSE IF jd = task[a] THEN <<a>> ELSE stashed[jd]
    BY <1>1, <1>6, <2>2
  <2>4. Tabs'
    <3>1. Single(active)' /\ \A jd \in Insts : Single(stashed[jd])'
      BY <1>2, <1>4, <2>3 DEF Tabs, Single
    <3>2. ASSUME NEW i \in Born, active' = <<i>> PROVE stashed'[task'[i]] = <<>>
      BY <1>1, <1>2, <1>3, <1>4, <2>3, <3>2
    <3>3. ASSUME NEW jd \in Insts, NEW i \in Born, stashed'[jd] = <<i>> PROVE task'[i] = jd
      <4>1. CASE jd = task[a]
        BY <1>2, <1>3, <1>6, <2>1, <2>3, <3>3, <4>1
      <4>2. CASE jd # task[a]
        BY <1>2, <1>3, <2>3, <3>3, <4>2 DEF Tabs
      <4> QED
        BY <4>1, <4>2
    <3> QED
      BY <1>2, <3>1, <3>2, <3>3 DEF Tabs
  <2>5. \A i \in Born : OnStack(i)' <=> OnStack(i)
    BY <1>1, <1>2, <1>3, <1>4, <1>6, <2>1, <2>3 DEF Tabs, OnStack
  <2> QED
    BY <2>4, <2>5
<1> QED
  BY <1>2, <1>5, <1>6 DEF Tabs, Single

\* A constructed instance is the only one on screen.
LEMMA PushMoves ==
    ASSUME IInv, Tabs, IdsInv, NEW id \in Born \union {born + 1}, NEW par, Push(id, par),
           active = <<>>, id \in Born => stashed[id] = <<>>, stashed' = stashed
    PROVE  /\ Tabs' /\ IdsInv' /\ Born' = Born \union {born + 1} /\ born + 1 \notin Born
           /\ \A i \in Born : OnStack(i)' <=> OnStack(i)
           /\ active' = <<born + 1>>
<1> DEFINE n == born + 1
<1>1. /\ stashed \in [Insts -> Seq(Insts)] /\ Born \subseteq Insts /\ born \in Nat
      /\ task \in [Insts -> Insts \union {None}] /\ \A i \in Born : task[i] \in Insts
  BY AloneTypes
<1>2. /\ n \in Insts /\ n \notin Born /\ born' = n /\ Born' = Born \union {n}
      /\ task' = [task EXCEPT ![n] = id] /\ history' = history \union {id}
  <2>1. /\ born < MaxInsts /\ MaxInsts \in Nat /\ born' = born + 1
        /\ task' = [task EXCEPT ![n] = id] /\ history' = history \union {id}
    BY TSAssumption DEF Push
  <2>2. n \in Insts /\ n \notin Born
    BY <1>1, <2>1 DEF Insts, Born
  <2>3. \A i \in Insts : i <= born' <=> i <= born \/ i = n
    BY <1>1, <2>1 DEF Insts
  <2>4. Born' = Born \union {n}
    BY <2>2, <2>3 DEF Born, Insts
  <2> QED
    BY <2>1, <2>2, <2>4
<1>3. active' = <<n>>
  BY DEF Push
<1> HIDE DEF n
<1>4. id \in Insts /\ id \in Born' /\ \A i \in Born : i # n /\ task'[i] = task[i]
  BY <1>1, <1>2 DEF n
<1>5. task'[n] = id
  BY <1>1, <1>2
<1>6. stashed[id] = <<>>
  <2>1. CASE id = n
    <3>1. \A i \in Born : task[i] # n
      BY <1>2 DEF IdsInv
    <3> QED
      BY <1>2, <2>1, <3>1 DEF Tabs, Single
  <2> QED
    BY <2>1 DEF n
<1>7. \A i \in Born' : <<i>> # <<>> /\ \A j : <<i>> = <<j>> => i = j
  BY <1>1, <1>2, OneOnStack
<1>8. \A jd \in Insts : stashed[jd] # <<n>>
  BY <1>2, <1>7 DEF Tabs, Single
<1>9. Tabs'
  <2>1. Single(active)' /\ \A jd \in Insts : Single(stashed[jd])'
    BY <1>2, <1>3 DEF Tabs, Single
  <2>2. ASSUME NEW i \in Born', active' = <<i>> PROVE stashed'[task'[i]] = <<>>
    BY <1>2, <1>3, <1>5, <1>6, <1>7, <2>2
  <2>3. ASSUME NEW jd \in Insts, NEW i \in Born', stashed'[jd] = <<i>> PROVE task'[i] = jd
    BY <1>2, <1>4, <1>8, <2>3 DEF Tabs
  <2> QED
    BY <2>1, <2>2, <2>3 DEF Tabs
<1>10. IdsInv'
  BY <1>2, <1>4, <1>5 DEF IdsInv
<1>11. \A i \in Born : OnStack(i)' <=> OnStack(i)
  BY <1>2, <1>3, <1>4, <1>7 DEF OnStack
<1> QED
  BY <1>2, <1>9, <1>10, <1>3, <1>11 DEF n

\* How the record of the operation under way changes.
Others(o) == \A p \in Ops \ {o} : op'[p] = op[p]

LEMMA OpMoves ==
    ASSUME IInv, IdsInv, NEW o \in Ops
    PROVE  /\ op' = op => Others(o)
           /\ Ends(o) => Others(o) /\ op'[o] = NoOp /\ op'[o].pc = "idle"
           /\ \A pc : Goes(o, pc) =>
                 /\ Others(o) /\ op'[o].pc = pc
                 /\ op'[o].inst = op[o].inst /\ op'[o].id = op[o].id /\ op'[o].rest = op[o].rest
           /\ \A pc, i, id, par : Begins(o, pc, i, id, par) =>
                 /\ Others(o) /\ op[o] = NoOp /\ op'[o].pc = pc
                 /\ op'[o].inst = i /\ op'[o].id = id /\ op'[o].rest = <<>>
<1>1. op \in [Ops -> OpRecs]
  BY AloneTypes
<1>2. op' = op => Others(o)
  BY DEF Others
<1>3. Ends(o) => Others(o) /\ op'[o] = NoOp /\ op'[o].pc = "idle"
  BY <1>1 DEF Others, Ends, NoOp
<1>4. ASSUME NEW pc, Goes(o, pc)
      PROVE  /\ Others(o) /\ op'[o].pc = pc
             /\ op'[o].inst = op[o].inst /\ op'[o].id = op[o].id /\ op'[o].rest = op[o].rest
  <2>1. op[o] \in OpRecs
    BY <1>1
  <2> DEFINE r == [op[o] EXCEPT !.pc = pc]
  <2>2. r.pc = pc /\ r.inst = op[o].inst /\ r.id = op[o].id /\ r.rest = op[o].rest
    BY <2>1 DEF OpRecs
  <2>3. op' = [op EXCEPT ![o] = r]
    BY <1>1, <1>4 DEF Goes
  <2> HIDE DEF r
  <2> QED
    BY <1>1, <2>2, <2>3 DEF Others
<1>5. ASSUME NEW pc, NEW i, NEW id, NEW par, Begins(o, pc, i, id, par)
      PROVE  /\ Others(o) /\ op[o] = NoOp /\ op'[o].pc = pc
             /\ op'[o].inst = i /\ op'[o].id = id /\ op'[o].rest = <<>>
  <2> DEFINE r == [NoOp EXCEPT !.pc = pc, !.inst = i, !.id = id, !.parent = par]
  <2>1. r.pc = pc /\ r.inst = i /\ r.id = id /\ r.rest = <<>>
    BY DEF NoOp
  <2>2. op' = [op EXCEPT ![o] = r] /\ op[o] = NoOp
    BY <1>5 DEF Begins
  <2> HIDE DEF r
  <2> QED
    BY <1>1, <2>1, <2>2 DEF Others
<1> QED
  BY <1>2, <1>3, <1>4, <1>5

\* One step of the only operation that is under way.
LEMMA AloneStep ==
    ASSUME ~Failures, IInv, Tabs, IdsInv, NEW o \in Ops, Mine(op[o]),
           Click(o) \/ Agent(o) \/ Continue(o)
    PROVE  Tabs' /\ IdsInv' /\ Mine(op[o])' /\ Others(o)
<1> DEFINE r == op[o]
           Done == Tabs' /\ IdsInv' /\ Mine(op[o])' /\ Others(o)
<1>0. NoOp.pc = "idle" /\ NoOp.rest = <<>>
  BY DEF NoOp
<1>1. /\ active \in Seq(Insts) /\ stashed \in [Insts -> Seq(Insts)] /\ Born \subseteq Insts
      /\ \A i \in Born : task[i] \in Insts
      /\ \A i \in Born : <<i>> # <<>> /\ Last(<<i>>) = i /\ Head(<<i>>) = i
                         /\ Front(<<i>>) = <<>> /\ ToSet(<<i>>) = {i} /\ \A j : <<i>> = <<j>> => i = j
      /\ op \in [Ops -> OpRecs]
  BY AloneTypes, OneOnStack
<1>2. OpNow(r) /\ LivesOnStack(r)
  BY DEF Mine
\* What is left alone.
<1>3. ASSUME UNCHANGED instVars PROVE Born' = Born /\ UNCHANGED <<task, born>>
  BY <1>3 DEF instVars, Born
<1>4. ASSUME UNCHANGED <<stackVars, instVars>>
      PROVE  Tabs' /\ Born' = Born /\ \A i \in Born : OnStack(i)' <=> OnStack(i)
  BY <1>4 DEF Tabs, Single, OnStack, stackVars, instVars, Born
<1>5. ASSUME UNCHANGED instVars, history' \subseteq history PROVE IdsInv'
  BY <1>3, <1>5 DEF IdsInv
\* An operation that is neither closing a tab nor waiting for a stream to stop.
<1>6. ASSUME r.pc \notin {"close", "abort"}
      PROVE  aborted \subseteq Born /\ \A i \in Born : i \in aborted <=> ~OnStack(i)
  BY <1>2, <1>6 DEF LivesOnStack, Doomed
<1>7. ASSUME op'[o].pc \notin {"close", "abort"}, aborted' \subseteq Born', \A i \in Born' : i \in aborted' <=> ~OnStack(i)'
      PROVE  LivesOnStack(op[o])'
  BY <1>7 DEF LivesOnStack, Doomed
<1>8. ASSUME op[o] = NoOp PROVE r.pc = "idle"
  BY <1>0, <1>8
<1>9. ASSUME op'[o].pc \in {"idle", "spawned", "finish", "delete", "deleteFinish", "deleteStash", "deleteState"}
      PROVE  OpNow(op[o])'
  BY <1>9 DEF OpNow
<1> HIDE DEF Done
<1>a. ASSUME NewTask(o) PROVE Done
  <2>1. Begins(o, "create", None, None, None) /\ Stash /\ UNCHANGED <<instVars, aborted, history>>
    BY <1>a DEF NewTask, lifeVars
  <2>2. r.pc = "idle" /\ op'[o].pc = "create" /\ Others(o)
    BY <1>8, <2>1, OpMoves
  <2>3. OpNow(op[o])'
    BY <2>1, <2>2, StashMoves DEF OpNow
  <2> QED
    BY <1>5, <1>6, <1>7, <2>1, <2>2, <2>3, StashMoves DEF Mine, Done
<1>b. ASSUME NEW i \in Insts, StartSubtask(o, i) PROVE Done
  <2>1. Begins(o, "create", None, None, i) /\ Stash /\ UNCHANGED <<instVars, aborted, history>>
    BY <1>b DEF StartSubtask, lifeVars
  <2>2. r.pc = "idle" /\ op'[o].pc = "create" /\ Others(o)
    BY <1>8, <2>1, OpMoves
  <2>3. OpNow(op[o])'
    BY <2>1, <2>2, StashMoves DEF OpNow
  <2> QED
    BY <1>5, <1>6, <1>7, <2>1, <2>2, <2>3, StashMoves DEF Mine, Done
<1>c. ASSUME PlusButton(o) PROVE Done
  <2>1. op' = op /\ r.pc = "idle" /\ Stash /\ UNCHANGED <<instVars, aborted, history>>
    BY <1>8, <1>c DEF PlusButton, lifeVars
  <2>2. Others(o) /\ op'[o].pc = "idle"
    BY <2>1, OpMoves
  <2> QED
    BY <1>5, <1>6, <1>7, <1>9, <2>1, <2>2, StashMoves DEF Mine, Done
<1>d. ASSUME NEW id \in Insts, Activate(o, id) PROVE Done
  <2>1. op' = op /\ r.pc = "idle" /\ UNCHANGED <<instVars, aborted, history>>
    BY <1>8, <1>d DEF Activate, lifeVars
  <2>2. Others(o) /\ op'[o].pc = "idle"
    BY <2>1, OpMoves
  <2> QED
    BY <1>5, <1>6, <1>7, <1>9, <1>d, <2>1, <2>2, ActivateMoves DEF Mine, Done
<1>e. ASSUME ClearTask(o) PROVE Done
  <2>1. RemoveTop /\ UNCHANGED <<stashed, instVars, history>>
    BY <1>e DEF ClearTask
  <2>2. r.pc = "idle" /\ op'[o].pc \in {"idle", "finish"} /\ Others(o)
    <3>1. CASE Begins(o, "finish", None, None, None)
      BY <1>8, <3>1, OpMoves
    <3>2. CASE op[o] = NoOp /\ op' = op
      BY <1>8, <3>2, OpMoves
    <3> QED
      BY <1>e, <3>1, <3>2 DEF ClearTask
  <2> QED
    BY <1>5, <1>6, <1>7, <1>9, <2>1, <2>2, TopMoves DEF Mine, Done
<1>f. ASSUME NEW c \in Insts, FinishSubtask(o, c) PROVE Done
  <2>1. RemoveTop /\ Begins(o, "finish", c, None, None) /\ UNCHANGED <<stashed, instVars, history>>
    BY <1>f DEF FinishSubtask
  <2>2. r.pc = "idle" /\ op'[o].pc = "finish" /\ Others(o)
    BY <1>8, <2>1, OpMoves
  <2> QED
    BY <1>5, <1>6, <1>7, <1>9, <2>1, <2>2, TopMoves DEF Mine, Done
<1>g. ASSUME NEW id \in Insts, ShowTask(o, id) PROVE Done
  <2>1. /\ Begins(o, "look", None, id, None) /\ UNCHANGED <<stackVars, instVars, aborted, history>>
        /\ id \in history /\ stashed[id] = <<>> /\ (active # <<>> => task[Last(active)] # id)
    BY <1>g DEF ShowTask, lifeVars
  <2>2. r.pc = "idle" /\ op'[o].pc = "look" /\ op'[o].id = id /\ Others(o)
    BY <1>8, <2>1, OpMoves
  <2>3. id \in Born /\ \A i \in Born : active = <<i>> => task[i] # id
    BY <1>1, <2>1 DEF IdsInv
  <2>4. OpNow(op[o])'
    BY <1>3, <2>1, <2>2, <2>3 DEF OpNow, stackVars
  <2> QED
    BY <1>4, <1>5, <1>6, <1>7, <2>1, <2>2, <2>4 DEF Mine, Done
<1>h. ASSUME NEW id \in Insts, DeleteTask(o, id) PROVE Done
  <2>1. /\ Begins(o, "delete", None, id, None) /\ UNCHANGED <<stackVars, instVars, aborted, history>>
    BY <1>h DEF DeleteTask, lifeVars
  <2>2. r.pc = "idle" /\ op'[o].pc = "delete" /\ Others(o)
    BY <1>8, <2>1, OpMoves
  <2> QED
    BY <1>4, <1>5, <1>6, <1>7, <1>9, <2>1, <2>2 DEF Mine, Done
<1>i. ASSUME CancelTask(o) PROVE Done
  <2>1. /\ active # <<>> /\ UNCHANGED <<stackVars, instVars, aborted, history>>
        /\ Begins(o, "cancel", Last(active), task[Last(active)], parent[Last(active)])
    BY <1>i DEF CancelTask, lifeVars
  <2>2. /\ r.pc = "idle" /\ op'[o].pc = "cancel" /\ Others(o)
        /\ op'[o].inst = Last(active) /\ op'[o].id = task[Last(active)]
    BY <1>8, <2>1, OpMoves
  <2>3. Last(active) \in Born /\ active = <<Last(active)>>
    BY <1>1, <2>1 DEF Tabs, Single
  <2>4. OpNow(op[o])'
    BY <1>3, <2>1, <2>2, <2>3 DEF OpNow, stackVars
  <2> QED
    BY <1>4, <1>5, <1>6, <1>7, <2>1, <2>2, <2>4 DEF Mine, Done
<1>j. ASSUME CreateTask(o) PROVE Done
  <2>1. r.pc = "create" /\ active = <<>> /\ stashed' = stashed /\ aborted' = aborted
    BY <1>2, <1>j DEF CreateTask, At, OpNow, lifeVars
  <2>2. CASE Push(born + 1, r.parent) /\ op' = [op EXCEPT ![o].pc = "spawned", ![o].id = born + 1]
    <3>1. op'[o].pc = "spawned" /\ Others(o)
      BY <1>1, <2>2 DEF Others, OpRecs
    <3>2. /\ Tabs' /\ IdsInv' /\ Born' = Born \union {born + 1} /\ active' = <<born + 1>>
          /\ \A i \in Born : OnStack(i)' <=> OnStack(i)
      <4>1. born + 1 \notin Born
        BY AloneTypes DEF Born
      <4> QED
        BY <2>1, <2>2, <4>1, PushMoves
    <3>3. born + 1 \notin aborted
      BY <1>6, <2>1, PushMoves, AloneTypes DEF Born
    <3> QED
      BY <1>6, <1>7, <1>9, <2>1, <3>1, <3>2, <3>3 DEF Mine, Done, OnStack
  <2>3. CASE Ends(o) /\ UNCHANGED <<active, instVars, history>>
    <3>1. Others(o) /\ op'[o].pc = "idle"
      BY <2>3, OpMoves
    <3> QED
      BY <1>4, <1>5, <1>6, <1>7, <1>9, <2>1, <2>3, <3>1 DEF Mine, Done, stackVars
  <2> QED
    BY <1>j, <2>2, <2>3 DEF CreateTask
<1>k. ASSUME PauseParent(o) PROVE Done
  <2>1. /\ r.pc = "spawned" /\ Ends(o) /\ UNCHANGED <<stackVars, instVars, aborted, history>>
    BY <1>k DEF PauseParent, At
  <2>2. Others(o) /\ op'[o].pc = "idle"
    BY <2>1, OpMoves
  <2> QED
    BY <1>4, <1>5, <1>6, <1>7, <1>9, <2>1, <2>2 DEF Mine, Done
<1>l. ASSUME ShowFound(o) PROVE Done
  <2>1. /\ r.pc = "look" /\ r.id \in Born /\ stashed[r.id] = <<>>
        /\ \A i \in Born : active = <<i>> => task[i] # r.id
        /\ UNCHANGED <<instVars, aborted, history>>
    BY <1>2, <1>l DEF ShowFound, At, OpNow, lifeVars
  <2>2. CASE Ends(o) /\ UNCHANGED stackVars
    <3>1. Others(o) /\ op'[o].pc = "idle"
      BY <2>2, OpMoves
    <3> QED
      BY <1>4, <1>5, <1>6, <1>7, <1>9, <2>1, <2>2, <3>1 DEF Mine, Done
  <2>3. CASE Stash /\ \E pc \in {"rehydrate", "show"} : Goes(o, pc)
    <3>1. Others(o) /\ op'[o].pc \in {"rehydrate", "show"} /\ op'[o].id = r.id
      BY <2>3, OpMoves
    <3>2. stashed'[r.id] = <<>> /\ active' = <<>>
      BY <1>1, <2>1, <2>3, StashMoves
    <3>3. OpNow(op[o])'
      BY <1>3, <2>1, <3>1, <3>2 DEF OpNow
    <3> QED
      BY <1>5, <1>6, <1>7, <2>1, <2>3, <3>1, <3>3, StashMoves DEF Mine, Done
  <2> QED
    BY <1>l, <2>2, <2>3 DEF ShowFound
<1>m. ASSUME ShowStashed(o) PROVE Done
  <2>1. /\ r.pc = "show" /\ r.id \in Born /\ stashed[r.id] = <<>>
        /\ RemoveTop /\ Goes(o, "rehydrate") /\ UNCHANGED <<stashed, instVars, history>>
    BY <1>2, <1>m DEF ShowStashed, At, OpNow
  <2>2. Others(o) /\ op'[o].pc = "rehydrate" /\ op'[o].id = r.id
    BY <2>1, OpMoves
  <2>3. OpNow(op[o])'
    BY <2>1, <2>2, TopMoves DEF OpNow
  <2> QED
    BY <1>5, <1>6, <1>7, <2>1, <2>2, <2>3, TopMoves DEF Mine, Done
<1>n. ASSUME Rehydrate(o) PROVE Done
  <2>1. /\ r.pc = "rehydrate" /\ r.id \in Born /\ stashed[r.id] = <<>> /\ active = <<>>
        /\ Push(r.id, r.parent) /\ Ends(o) /\ UNCHANGED <<stashed, aborted>>
    BY <1>2, <1>n DEF Rehydrate, At, OpNow, lifeVars
  <2>2. Others(o) /\ op'[o].pc = "idle"
    BY <2>1, OpMoves
  <2>3. /\ Tabs' /\ IdsInv' /\ Born' = Born \union {born + 1} /\ active' = <<born + 1>>
        /\ born + 1 \notin Born /\ \A i \in Born : OnStack(i)' <=> OnStack(i)
    BY <2>1, PushMoves
  <2> QED
    BY <1>6, <1>7, <1>9, <2>1, <2>2, <2>3 DEF Mine, Done, OnStack
<1>o. ASSUME NEW id \in Insts, CloseTask(o, id) PROVE Done
  <2> DEFINE shown == active # <<>> /\ task[Head(active)] = id
             stack == IF shown THEN active ELSE stashed[id]
  <2>1. /\ r.pc = "idle" /\ stack # <<>> /\ active' = IF shown THEN <<>> ELSE active
        /\ aborted' = aborted \union {Last(stack)}
        /\ op' = [op EXCEPT ![o] = [NoOp EXCEPT !.pc = "close", !.id = id, !.rest = Front(stack)]]
        /\ UNCHANGED <<stashed, instVars, history>>
    BY <1>8, <1>o DEF CloseTask
  <2>2. PICK b \in Born : stack = <<b>>
    BY <2>1 DEF Tabs, Single
  <2>3. Last(stack) = b /\ Front(stack) = <<>> /\ stack = <<b>>
    BY <1>1, <2>2
  <2>4. shown => active = <<b>> /\ task[b] = id
    BY <1>1, <2>2
  <2>5. ~shown => stashed[id] = <<b>> /\ \A i \in Born : active = <<i>> => task[i] # id
    BY <1>1, <2>2
  <2> HIDE DEF stack, shown
  <2>6. /\ Others(o) /\ op'[o].pc = "close" /\ op'[o].id = id /\ op'[o].rest = <<>>
    BY <1>1, <2>1, <2>3 DEF Others, NoOp
  <2>7. CASE shown
    <3>1. RemoveTop
      BY <1>1, <2>1, <2>3, <2>4, <2>7 DEF RemoveTop
    <3>2. stashed'[id] = <<>> /\ active' = <<>>
      BY <2>1, <2>4, <2>7 DEF Tabs
    <3>3. OpNow(op[o])'
      BY <1>1, <1>3, <2>1, <2>6, <3>2 DEF OpNow
    <3>4. LivesOnStack(op[o])'
      BY <1>1, <1>6, <2>1, <2>6, <3>1, <3>2, TopMoves DEF LivesOnStack, Doomed
    <3> QED
      BY <1>5, <2>1, <2>6, <3>1, <3>3, <3>4, TopMoves DEF Mine, Done
  <2>8. CASE ~shown
    <3>1. UNCHANGED stackVars
      BY <2>1, <2>8 DEF stackVars
    <3>2. OpNow(op[o])'
      BY <1>3, <2>1, <2>5, <2>6, <2>8 DEF OpNow
    <3>3. \A i \in Born : stashed'[id] = <<i>> <=> i = b
      BY <1>1, <2>1, <2>5, <2>8
    <3>4. LivesOnStack(op[o])'
      BY <1>1, <1>4, <1>6, <2>1, <2>3, <2>6, <3>1, <3>3 DEF LivesOnStack, Doomed
    <3> QED
      BY <1>4, <1>5, <2>1, <2>6, <3>1, <3>2, <3>4 DEF Mine, Done
  <2> QED
    BY <2>7, <2>8
<1>p. ASSUME CloseNext(o) PROVE Done
  <2>1. /\ r.pc = "close" /\ r.rest = <<>> /\ r.id \in Insts
        /\ stashed' = [stashed EXCEPT ![r.id] = <<>>] /\ Ends(o)
        /\ UNCHANGED <<active, instVars, aborted, history>>
    BY <1>2, <1>p DEF CloseNext, At, OpNow
  <2>2. Others(o) /\ op'[o].pc = "idle"
    BY <2>1, OpMoves
  <2>3. \A i \in Born : i \in aborted <=> (stashed[r.id] = <<i>> \/ ~OnStack(i))
    BY <1>2, <2>1 DEF LivesOnStack, Doomed
  <2>4. aborted \subseteq Born
    BY <1>2 DEF LivesOnStack
  <2> QED
    BY <1>5, <1>7, <1>9, <2>1, <2>2, <2>3, <2>4, DropMoves DEF Mine, Done
<1>q. ASSUME Finish(o) PROVE Done
  <2>1. /\ r.pc = "finish" /\ Ends(o) /\ UNCHANGED <<stackVars, instVars, aborted, history>>
    BY <1>q DEF Finish, At
  <2>2. Others(o) /\ op'[o].pc = "idle"
    BY <2>1, OpMoves
  <2> QED
    BY <1>4, <1>5, <1>6, <1>7, <1>9, <2>1, <2>2 DEF Mine, Done
\* The stack of a task is forgotten.
<1>r. ASSUME r.pc \in {"delete", "deleteStash"}, Forget(o), UNCHANGED <<active, instVars>> PROVE Done
  <2>1. r.id \in Insts
    BY <1>r, IdOf DEF IInv, Anonymous
  <2>2. Others(o) /\ op'[o].pc \in {"idle", "deleteState"}
    BY <1>r, OpMoves DEF Forget, DropFromHistory
  <2>3. CASE stashed[r.id] = <<>>
    <3>1. UNCHANGED <<stackVars, instVars, aborted>> /\ history' \subseteq history
      BY <1>r, <2>3 DEF Forget, DropFromHistory, stackVars
    <3> QED
      BY <1>4, <1>5, <1>6, <1>7, <1>9, <1>r, <2>2, <3>1 DEF Mine, Done
  <2>4. CASE stashed[r.id] # <<>>
    <3>1. /\ aborted' = aborted \union ToSet(stashed[r.id])
          /\ stashed' = [stashed EXCEPT ![r.id] = <<>>] /\ UNCHANGED <<active, instVars, history>>
      BY <1>r, <2>4 DEF Forget
    <3>2. /\ \A i \in Born : i \in ToSet(stashed[r.id]) <=> stashed[r.id] = <<i>>
          /\ ToSet(stashed[r.id]) \subseteq Born
      BY <1>1, <2>1, ToSetOfSingle DEF Tabs
    <3>3. /\ Tabs' /\ Born' = Born
          /\ \A i \in Born : OnStack(i)' <=> OnStack(i) /\ stashed[r.id] # <<i>>
      BY <2>1, <3>1, DropMoves
    <3>4. IdsInv'
      BY <1>5, <3>1
    <3> QED
      BY <1>6, <1>7, <1>9, <1>r, <2>2, <3>1, <3>2, <3>3, <3>4 DEF Mine, Done
  <2> QED
    BY <2>3, <2>4
<1>s. ASSUME DeleteFound(o) PROVE Done
  <2>1. r.pc = "delete" /\ UNCHANGED instVars
    BY <1>s DEF DeleteFound, At
  <2>2. CASE RemoveTop /\ Goes(o, "deleteFinish") /\ UNCHANGED <<stashed, history>>
    <3>1. Others(o) /\ op'[o].pc = "deleteFinish"
      BY <2>2, OpMoves
    <3> QED
      BY <1>5, <1>6, <1>7, <1>9, <2>1, <2>2, <3>1, TopMoves DEF Mine, Done
  <2>3. CASE Forget(o) /\ UNCHANGED active
    BY <1>r, <2>1, <2>3
  <2> QED
    BY <1>s, <2>2, <2>3 DEF DeleteFound
<1>t. ASSUME DeleteFinish(o) PROVE Done
  <2>1. /\ r.pc = "deleteFinish" /\ Goes(o, "deleteStash")
        /\ UNCHANGED <<stackVars, instVars, aborted, history>>
    BY <1>t DEF DeleteFinish, At
  <2>2. Others(o) /\ op'[o].pc = "deleteStash"
    BY <2>1, OpMoves
  <2> QED
    BY <1>4, <1>5, <1>6, <1>7, <1>9, <2>1, <2>2 DEF Mine, Done
<1>u. ASSUME DeleteStash(o) PROVE Done
  BY <1>r, <1>u DEF DeleteStash, At
<1>ua. ASSUME DeleteState(o) PROVE Done
  <2>1. /\ r.pc = "deleteState" /\ Ends(o) /\ history' \subseteq history
        /\ UNCHANGED <<stackVars, instVars, aborted>>
    BY <1>ua DEF DeleteState, DropFromHistory, At, lifeVars
  <2>2. Others(o) /\ op'[o].pc = "idle"
    BY <2>1, OpMoves
  <2> QED
    BY <1>4, <1>5, <1>6, <1>7, <1>9, <2>1, <2>2 DEF Mine, Done
<1>v. ASSUME CancelAborts(o) PROVE Done
  <2>1. /\ r.pc = "cancel" /\ r.inst \in Born /\ active = <<r.inst>> /\ r.id = task[r.inst]
        /\ UNCHANGED <<stackVars, instVars, history>>
    BY <1>2, <1>v DEF CancelAborts, At, OpNow
  <2>2. CASE Ends(o) /\ UNCHANGED aborted
    <3>1. Others(o) /\ op'[o].pc = "idle"
      BY <2>2, OpMoves
    <3> QED
      BY <1>4, <1>5, <1>6, <1>7, <1>9, <2>1, <2>2, <3>1 DEF Mine, Done
  <2>3. CASE aborted' = aborted \union {r.inst} /\ Goes(o, "abort")
    <3>1. Others(o) /\ op'[o].pc = "abort" /\ op'[o].inst = r.inst /\ op'[o].id = r.id
      BY <2>3, OpMoves
    <3>2. OpNow(op[o])'
      BY <1>3, <2>1, <3>1 DEF OpNow, stackVars
    <3>3. LivesOnStack(op[o])'
      BY <1>4, <1>6, <2>1, <2>3, <3>1 DEF LivesOnStack, Doomed
    <3> QED
      BY <1>4, <1>5, <2>1, <3>1, <3>2, <3>3 DEF Mine, Done
  <2> QED
    BY <1>v, <2>2, <2>3 DEF CancelAborts
<1>w. ASSUME CancelRehydrates(o) PROVE Done
  <2>1. /\ r.pc = "abort" /\ r.inst \in Born /\ active = <<r.inst>> /\ r.id = task[r.inst]
        /\ UNCHANGED <<stashed, instVars, history>>
    BY <1>2, <1>w DEF CancelRehydrates, At, OpNow
  <2>2. ~Replaced(o)
    BY <1>1, <2>1 DEF Replaced
  <2>3. RemoveTop /\ Goes(o, "rehydrate")
    BY <1>w, <2>2 DEF CancelRehydrates
  <2>4. Others(o) /\ op'[o].pc = "rehydrate" /\ op'[o].id = r.id
    BY <2>3, OpMoves
  <2>5. r.id \in Born /\ stashed[r.id] = <<>>
    BY <2>1 DEF Tabs, IdsInv
  <2>6. OpNow(op[o])'
    BY <2>1, <2>3, <2>4, <2>5, TopMoves DEF OpNow
  <2>7. aborted \subseteq Born /\ \A i \in Born : i \in aborted <=> (i = r.inst \/ ~OnStack(i))
    BY <1>2, <2>1 DEF LivesOnStack, Doomed
  <2>8. \A i \in Born : active = <<i>> <=> i = r.inst
    BY <1>1, <2>1
  <2> QED
    BY <1>5, <1>7, <2>1, <2>3, <2>4, <2>6, <2>7, <2>8, TopMoves DEF Mine, Done
<1>x. ASSUME FailedFound(o) PROVE Done
  BY <1>2, <1>x DEF FailedFound, At, OpNow
<1>y. ASSUME NEW i \in Insts, StreamFails(o, i) PROVE Done
  BY <1>y DEF StreamFails
<1>1a. CASE Click(o)
  BY <1>1a, <1>a, <1>c, <1>d, <1>e, <1>g, <1>h, <1>i, <1>o DEF Click, Done
<1>1b. CASE Agent(o)
  BY <1>1b, <1>b, <1>f, <1>y DEF Agent, Done
<1>1c. CASE Continue(o)
  BY <1>1c, <1>j, <1>k, <1>l, <1>m, <1>n, <1>p, <1>q, <1>s, <1>t, <1>u, <1>ua, <1>v, <1>w, <1>x DEF Continue, Done
<1> QED
  BY <1>1a, <1>1b, <1>1c DEF Done

LEMMA AloneInit == Init => AloneInv
<1> SUFFICES ASSUME Init PROVE AloneInv
  OBVIOUS
<1>1. Born = {} /\ aborted = {}
  <2>1. \A i \in Insts : ~(i <= 0)
    BY TSAssumption DEF Insts
  <2> QED
    BY <2>1 DEF Init, Born
<1>2. Tabs /\ IdsInv
  BY <1>1 DEF Init, Tabs, Single, IdsInv
<1>3. OneOp /\ \A o \in Ops : op[o] = NoOp
  BY DEF Init, OneOp
<1>4. Mine(NoOp)
  BY <1>1 DEF Mine, OpNow, LivesOnStack, NoOp
<1> QED
  BY <1>2, <1>3, <1>4 DEF AloneInv

LEMMA AloneKeeps == ~Failures /\ IInv /\ AloneInv /\ OneAtATime => AloneInv'
<1> SUFFICES ASSUME ~Failures, IInv, AloneInv, OneAtATime PROVE AloneInv'
  OBVIOUS
<1>1. PICK o \in Ops : /\ Click(o) \/ Agent(o) \/ Continue(o)
                       /\ \A p \in Ops \ {o} : op[p] = NoOp
  BY DEF OneAtATime
<1>2. Tabs /\ IdsInv /\ Mine(op[o])
  <2>1. CASE op[o] = NoOp
    BY <1>1, <2>1 DEF AloneInv, Quiet
  <2> QED
    BY <2>1 DEF AloneInv
<1>3. Tabs' /\ IdsInv' /\ Mine(op[o])' /\ Others(o)
  BY <1>1, <1>2, AloneStep
<1>4. \A p \in Ops \ {o} : op'[p] = NoOp
  BY <1>1, <1>3 DEF Others
<1>5. OneOp'
  BY <1>4 DEF OneOp
<1>6. (Quiet => Mine(NoOp))'
  <2> SUFFICES ASSUME Quiet' PROVE Mine(NoOp)'
    OBVIOUS
  <2>1. op'[o] = NoOp
    BY DEF Quiet
  <2> QED
    BY <1>3, <2>1 DEF Mine, OpNow, LivesOnStack, Doomed
<1>7. ASSUME NEW p \in Ops, op'[p] # NoOp PROVE Mine(op[p])'
  <2>1. p = o
    BY <1>4, <1>7
  <2> QED
    BY <1>3, <2>1
<1> QED
  BY <1>3, <1>5, <1>6, <1>7 DEF AloneInv

LEMMA AloneStutters == AloneInv /\ UNCHANGED vars => AloneInv'
<1> SUFFICES ASSUME AloneInv, UNCHANGED vars PROVE AloneInv'
  OBVIOUS
<1>1. UNCHANGED <<active, stashed, born, task, aborted, history, op>>
  BY DEF vars, stackVars, instVars, lifeVars
<1>2. Tabs' /\ IdsInv' /\ OneOp' /\ Quiet' = Quiet
  BY <1>1 DEF AloneInv, Tabs, Single, Born, IdsInv, OneOp, Quiet
<1>3. ASSUME NEW r, Mine(r) PROVE Mine(r)'
  BY <1>1, <1>3 DEF Mine, OpNow, LivesOnStack, Doomed, OnStack, Born
<1> QED
  BY <1>1, <1>2, <1>3 DEF AloneInv

\* A running instance is on a stack.
LEMMA LiveIsOnStack ==
    ASSUME AloneInv, NEW i \in Live
    PROVE  i \in Born /\ OnStack(i)
<1>1. i \in Born /\ i \notin aborted
  BY DEF Live
<1>2. PICK r : LivesOnStack(r)
  BY DEF AloneInv, Mine, Quiet
<1> QED
  BY <1>1, <1>2 DEF LivesOnStack

LEMMA AloneIsLive == IInv /\ AloneInv => TabsAreLive
<1> SUFFICES ASSUME IInv, AloneInv, Quiet, NEW i \in Born
             PROVE  i \in Live <=> \/ i \in ToSet(active)
                                   \/ \E id \in Insts : i \in ToSet(stashed[id])
  BY DEF TabsAreLive
<1>1. Born \subseteq Insts /\ task[i] \in Insts /\ Tabs
  BY AloneTypes DEF AloneInv
<1>2. i \in Live <=> OnStack(i)
  BY DEF AloneInv, Mine, LivesOnStack, Doomed, NoOp, Live
<1>3. i \in ToSet(active) <=> active = <<i>>
  BY <1>1, ToSetOfSingle DEF Tabs
<1>4. \A id \in Insts : i \in ToSet(stashed[id]) <=> stashed[id] = <<i>>
  BY <1>1, ToSetOfSingle DEF Tabs
<1>5. \A id \in Insts : stashed[id] = <<i>> => id = task[i]
  BY <1>1 DEF Tabs
<1> QED
  BY <1>1, <1>2, <1>3, <1>4, <1>5 DEF OnStack

LEMMA AloneIsOneCopy == IInv /\ AloneInv => OneCopy
<1> SUFFICES ASSUME IInv, AloneInv, NEW i \in Live, NEW j \in Live, task[i] = task[j]
             PROVE  i = j
  BY DEF OneCopy
<1>1. i \in Born /\ OnStack(i) /\ j \in Born /\ OnStack(j)
  BY LiveIsOnStack
<1>2. i \in Insts /\ j \in Insts
  BY <1>1, AloneTypes DEF AloneInv
<1> QED
  BY <1>1, <1>2, OneOnStack DEF OnStack, AloneInv, Tabs

\* What the proofs carry along a behaviour whose operations do not overlap.
AloneTask == IInv /\ AloneInv

LEMMA AloneInvariance ==
    ASSUME ~Failures
    PROVE  MCSpec => [](~overlap => AloneTask)
<1> DEFINE J == ~overlap => AloneTask
<1>1. MCInit => J
  BY InitIInv, AloneInit DEF MCInit, AloneTask
<1>2. J /\ [MCNext]_<<vars, overlap>> => J'
  <2> SUFFICES ASSUME AloneTask, ~overlap, ~overlap', [MCNext]_<<vars, overlap>> PROVE AloneTask'
    BY DEF MCNext
  <2>1. CASE OneAtATime
    <3>1. Next
      BY <2>1 DEF OneAtATime, Next
    <3> QED
      BY <2>1, <3>1, StepIInv, AloneKeeps DEF AloneTask
  <2>2. CASE UNCHANGED vars
    BY <2>2, StepIInv, AloneStutters DEF AloneTask
  <2> QED
    BY <2>1, <2>2 DEF MCNext
<1> QED
  BY <1>1, <1>2, PTL DEF MCSpec

\* While clicks wait for the operation before, and no stream fails, a tab shows
\* instances that run and an instance that runs is in a tab.
THEOREM AloneTabsStayLive ==
    ASSUME ~Failures
    PROVE  MCSpec => []AloneTabsAreLive
<1>1. (~overlap => AloneTask) => AloneTabsAreLive
  BY AloneIsLive DEF AloneTask, AloneTabsAreLive
<1> QED
  BY <1>1, AloneInvariance, PTL

\* In the same situation no two running instances share a taskId, at any time.
THEOREM AloneTasksAreSingle ==
    ASSUME ~Failures
    PROVE  MCSpec => []AloneOneCopy
<1>1. (~overlap => AloneTask) => AloneOneCopy
  BY AloneIsOneCopy DEF AloneTask, AloneOneCopy
<1> QED
  BY <1>1, AloneInvariance, PTL
=============================================================================
