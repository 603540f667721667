----------------------- MODULE StreamPresenterProofs -----------------------
(***************************************************************************)
(* One agent turn from inside, for any number of calls of the presenter,   *)
(* blocks and requests.  Whatever Events allows: the lock of               *)
(* presentAssistantMessage is never left behind, and the variables have    *)
(* their types.  In plain turns, in which a user may reject tools and      *)
(* nothing else goes wrong (PlainEvents, which only the last part uses):   *)
(* one call of the presenter at a time handles a block, a request leaves   *)
(* when no tool is running, and it carries the results in order.           *)
(***************************************************************************)
EXTENDS MCStreamPresenter, FiniteSetTheorems, SequenceTheorems, TLAPS

-----------------------------------------------------------------------------
(* The lock                                                                *)

\* Every call of the presenter is at some stage.
Staged ==
    /\ DOMAIN call = Calls
    /\ call = [c \in Calls |-> call[c]]
    /\ \A c \in Calls : "at" \in DOMAIN call[c]

\* The inductive invariant: a lock that is taken is a working call's.
LockInv ==
    /\ Staged
    /\ locked \in BOOLEAN
    /\ LockIsHeld

LEMMA NoCallIsStaged == "at" \in DOMAIN NoCall
  BY DEF NoCall

\* A call that changes its stage and keeps the rest: `at` becomes s.
LEMMA StageChanges ==
    ASSUME NEW c \in Calls, NEW s, Staged, call' = [call EXCEPT ![c].at = s]
    PROVE  /\ Staged'
           /\ call'[c].at = s
           /\ \A d \in Calls : d # c => call'[d] = call[d]
  BY DEF Staged

\* A call that gets a new record r, which has a stage.
LEMMA CallReplaced ==
    ASSUME NEW c \in Calls, NEW r, "at" \in DOMAIN r, Staged, call' = [call EXCEPT ![c] = r]
    PROVE  /\ Staged'
           /\ call'[c] = r
           /\ \A d \in Calls : d # c => call'[d] = call[d]
  BY DEF Staged

\* Entering the presenter: the lock is somebody else's, or it is taken by a
\* call that goes to work, or it is free.
LEMMA EnterKeepsLock ==
    ASSUME NEW c \in Calls, NEW lock \in BOOLEAN, NEW rdy,
           Staged, Enter(c, lock, rdy),
           lock => \E d \in Calls \ {c} : call[d].at \in Working
    PROVE  LockInv'
<1>0. CASE aborted /\ locked' = lock /\ call' = [call EXCEPT ![c] = NoCall]
  <2>1. Staged' /\ \A d \in Calls : d # c => call'[d] = call[d]
    BY <1>0, CallReplaced, NoCallIsStaged
  <2> QED BY <1>0, <2>1 DEF LockInv, LockIsHeld, Busy
<1> DEFINE last == RunEnd(content', index')
           inBounds == index' <= Len(content')
           parallel == inBounds /\ didComplete' /\ last > index'
           r == IF parallel THEN [at |-> "batch", i |-> index', last |-> last, ids |-> <<>>]
                            ELSE [at |-> "work", i |-> index', block |-> content'[index']]
<1>1. CASE lock /\ locked' = TRUE /\ call' = [call EXCEPT ![c] = NoCall]
  <2>1. Staged' /\ \A d \in Calls : d # c => call'[d] = call[d]
    BY <1>1, CallReplaced, NoCallIsStaged
  <2>2. PICK d \in Calls \ {c} : call[d].at \in Working
    BY <1>1
  <2> QED BY <1>1, <2>1, <2>2 DEF LockInv, LockIsHeld, Busy
<1>2. CASE locked' = FALSE /\ call' = [call EXCEPT ![c] = NoCall]
  BY <1>2, CallReplaced, NoCallIsStaged DEF LockInv, LockIsHeld
<1>3. CASE locked' = TRUE /\ call' = [call EXCEPT ![c] = r]
  <2>1. "at" \in DOMAIN r /\ r.at \in Working
    BY DEF Working
  <2> HIDE DEF r
  <2>2. Staged' /\ call'[c] = r
    BY <1>3, <2>1, CallReplaced
  <2> QED BY <1>3, <2>1, <2>2 DEF LockInv, LockIsHeld, Busy
<1> QED BY <1>0, <1>1, <1>2, <1>3 DEF Enter

\* A call that finishes a block frees the lock.
LEMMA FinishFreesLock ==
    ASSUME NEW c \in Calls, NEW rdy, Staged, Finish(c, rdy)
    PROVE  LockInv'
<1>1. PICK r \in {NoCall, [at |-> "yield"]} : call' = [call EXCEPT ![c] = r]
  BY DEF Finish
<1>2. "at" \in DOMAIN r
  BY DEF NoCall
<1>3. Staged'
  BY <1>1, <1>2, CallReplaced
<1> QED BY <1>3 DEF Finish, LockInv, LockIsHeld

\* A working call that goes on to another stage of its work keeps the lock.
LEMMA WorkGoesOn ==
    ASSUME NEW c \in Calls, NEW s \in Working, LockInv,
           call' = [call EXCEPT ![c].at = s], UNCHANGED locked
    PROVE  LockInv'
<1>1. Staged' /\ call'[c].at = s
  BY StageChanges DEF LockInv
<1> QED BY <1>1 DEF LockInv, LockIsHeld, Busy

\* The loop calls the presenter with a call that is free.
LEMMA NewCallEnters ==
    ASSUME NEW rdy, LockInv, Free # {}, Enter(NewCall, locked, rdy)
    PROVE  LockInv'
<1>1. NewCall \in Free
  BY DEF NewCall
<1>2. NewCall \in Calls /\ call[NewCall].at \notin Working
  BY <1>1 DEF Free, Working
<1>3. locked => \E d \in Calls \ {NewCall} : call[d].at \in Working
  BY <1>2 DEF LockInv, LockIsHeld, Busy
<1> HIDE DEF NewCall
<1> QED BY <1>2, <1>3, EnterKeepsLock DEF LockInv

LEMMA InitLock == Init => LockInv
  BY NoCallIsStaged DEF Init, LockInv, Staged, LockIsHeld

LEMMA LoopKeepsLock == LockInv /\ Loop => LockInv'
<1> SUFFICES ASSUME LockInv, Loop PROVE LockInv'
  OBVIOUS
<1>1. ASSUME NEW new, Chunk(new) PROVE LockInv'
  <2>1. Free # {}
    BY <1>1, FS_EmptySet DEF Chunk
  <2> QED BY <1>1, <2>1, NewCallEnters DEF Chunk
<1>2. CASE Reset
  BY <1>2 DEF Reset, LockInv, Staged, LockIsHeld
<1>3. CASE StreamEnds
  <2>1. CASE Enter(NewCall, locked, ready)
    BY <1>3, <2>1, NewCallEnters DEF StreamEnds
  <2>2. CASE UNCHANGED <<locked, call>>
    BY <2>2 DEF LockInv, Staged, LockIsHeld, Busy
  <2> QED BY <1>3, <2>1, <2>2 DEF StreamEnds
<1>4. CASE Saved \/ Proceed \/ AbortTask \/ TurnAborts
  BY <1>4 DEF Saved, Proceed, AbortTask, TurnAborts, LockInv, Staged, LockIsHeld, Busy
<1> QED BY <1>1, <1>2, <1>3, <1>4 DEF Loop, Request, Restart, TextChunk, CallChunk, MoreChunk

LEMMA PresentKeepsLock ==
    ASSUME NEW c \in Calls, LockInv, Present(c)
    PROVE  LockInv'
<1>1. CASE Wake(c)
  <2>1. call[c].at \notin Working
    BY <1>1 DEF Wake, Working
  <2>2. locked => \E d \in Calls \ {c} : call[d].at \in Working
    BY <2>1 DEF LockInv, LockIsHeld, Busy
  <2> QED BY <1>1, <2>2, EnterKeepsLock DEF Wake, LockInv
<1>2. CASE Preview(c) \/ Begin(c) \/ FirstResult(c)
  <2>1. PICK s \in Working : call' = [call EXCEPT ![c].at = s]
    BY <1>2 DEF Preview, Begin, FirstResult, Working
  <2> QED BY <1>2, <2>1, WorkGoesOn DEF Preview, Begin, FirstResult
<1>3. CASE Refuse(c) \/ Shown(c) \/ Skip(c) \/ Duplicate(c) \/ Return(c) \/ Reject(c)
  BY <1>3, FinishFreesLock DEF Refuse, Shown, Skip, Duplicate, Return, Reject, LockInv
<1>4. CASE RunBatch(c)
  <2>1. PICK ids : call' = [call EXCEPT ![c].at = "batched", ![c].ids = ids]
    BY <1>4 DEF RunBatch
  <2>2. Staged' /\ call'[c].at = "batched"
    BY <2>1 DEF LockInv, Staged
  <2> QED BY <1>4, <2>2 DEF RunBatch, LockInv, LockIsHeld, Busy, Working
<1>5. CASE CommitBatch(c)
  <2>1. CASE Enter(c, FALSE, ready)
    BY <2>1, EnterKeepsLock DEF LockInv
  <2>2. CASE locked' = FALSE /\ call' = [call EXCEPT ![c] = NoCall]
    BY <2>2, CallReplaced, NoCallIsStaged DEF LockInv, LockIsHeld
  <2> QED BY <1>5, <2>1, <2>2 DEF CommitBatch
<1>6. CASE BatchThrows(c)
  BY <1>6, CallReplaced, NoCallIsStaged DEF BatchThrows, LockInv, LockIsHeld
<1> QED BY <1>1, <1>2, <1>3, <1>4, <1>5, <1>6 DEF Present

\* The lock of presentAssistantMessage is never left behind, whatever happens
\* to the stream, the tools and the requests.
THEOREM LockNeverLeftBehind == Spec => []LockIsHeld
<1>1. LockInv /\ [Next]_vars => LockInv'
  <2> SUFFICES ASSUME LockInv, [Next]_vars PROVE LockInv'
    OBVIOUS
  <2>1. CASE UNCHANGED vars
    BY <2>1 DEF vars, LockInv, Staged, LockIsHeld, Busy
  <2> QED BY <2>1, LoopKeepsLock, PresentKeepsLock DEF Next
<1> QED BY InitLock, <1>1, PTL DEF Spec, LockInv

-----------------------------------------------------------------------------
(* Numbers in order, and the run of reads                                  *)

\* How many of the numbers P are at most p; and a sequence that grows.
Rank(P, p) == Cardinality({q \in P : q <= p})
Increasing(s) == \A a, b \in 1 .. Len(s) : a < b => s[a] < s[b]

\* Ranks count from 1 and grow with the number.
LEMMA RankIncreases ==
    ASSUME NEW P, IsFiniteSet(P), P \subseteq Nat
    PROVE  /\ Cardinality(P) \in Nat
           /\ \A p \in P : Rank(P, p) \in 1 .. Cardinality(P)
           /\ \A p, q \in P : p < q => Rank(P, p) < Rank(P, q)
<1>1. Cardinality(P) \in Nat
  BY FS_CardinalityType
<1>2. ASSUME NEW p \in P
      PROVE  IsFiniteSet({q \in P : q <= p}) /\ Rank(P, p) \in 1 .. Cardinality(P)
  <2> DEFINE Q == {q \in P : q <= p}
  <2>1. IsFiniteSet(Q) /\ Cardinality(Q) <= Cardinality(P)
    <3>1. Q \in SUBSET P
      OBVIOUS
    <3> QED BY <3>1, FS_Subset
  <2>2. p \in Q
    OBVIOUS
  <2>3. Cardinality(Q) \in Nat /\ Cardinality(Q) # 0
    BY <2>1, <2>2, FS_CardinalityType, FS_EmptySet
  <2> QED BY <1>1, <2>1, <2>3 DEF Rank
<1>3. ASSUME NEW p \in P, NEW q \in P, p < q
      PROVE  Rank(P, p) < Rank(P, q)
  <2> DEFINE A == {x \in P : x <= p}
             B == {x \in P : x <= q}
  <2>1. p \in Nat /\ q \in Nat /\ \A x \in P : x \in Nat
    OBVIOUS
  <2>3. A \in SUBSET B
    <3>1. \A x \in P : x <= p => x <= q
      BY <1>3, <2>1
    <3> QED BY <3>1
  <2>4. q \in B /\ q \notin A
    BY <1>3, <2>1
  <2>2. Cardinality(A) <= Cardinality(B) /\ Cardinality(B) # Cardinality(A)
    BY <1>2, <2>3, <2>4, FS_Subset
  <2>5. Cardinality(A) \in Nat /\ Cardinality(B) \in Nat
    BY <1>2, FS_CardinalityType
  <2> QED BY <2>2, <2>5 DEF Rank
<1> QED BY <1>1, <1>2, <1>3

\* Every number up to their count is the rank of one of the numbers P.
LEMMA RanksAreAllThere ==
    ASSUME NEW P, IsFiniteSet(P), P \subseteq Nat, NEW n \in 1 .. Cardinality(P)
    PROVE  \E p \in P : Rank(P, p) = n
<1> DEFINE N == 1 .. Cardinality(P)
           f == [p \in P |-> Rank(P, p)]
<1>0. /\ Cardinality(P) \in Nat
      /\ \A p \in P : Rank(P, p) \in 1 .. Cardinality(P)
      /\ \A p, q \in P : p < q => Rank(P, p) < Rank(P, q)
  BY RankIncreases
<1>1. IsFiniteSet(N) /\ Cardinality(N) = Cardinality(P)
  BY <1>0, FS_Interval
<1>2. f \in Injection(P, N)
  <2>1. f \in [P -> N]
    BY <1>0
  <2>2. ASSUME NEW p \in P, NEW q \in P, f[p] = f[q] PROVE p = q
    <3>1. Rank(P, p) = Rank(P, q) /\ Rank(P, p) \in Nat
      BY <1>0, <2>2
    <3>2. ~(p < q) /\ ~(q < p)
      BY <1>0, <3>1
    <3> QED BY <3>2
  <2> QED BY <2>1, <2>2 DEF Injection, IsInjective
<1>3. f \in Surjection(P, N)
  <2> HIDE DEF f, N
  <2> QED BY <1>1, <1>2, FS_Injection
<1> QED BY <1>3 DEF Surjection

\* Nth lists the numbers P in increasing order, each of them once.
LEMMA NthIsInOrder ==
    ASSUME NEW P, IsFiniteSet(P), P \subseteq Nat
    PROVE  /\ \A n \in 1 .. Cardinality(P) : Nth(P, n) \in P /\ Rank(P, Nth(P, n)) = n
           /\ \A p \in P : \E n \in 1 .. Cardinality(P) : Nth(P, n) = p
           /\ \A k, n \in 1 .. Cardinality(P) : k < n => Nth(P, k) < Nth(P, n)
<1>0. /\ Cardinality(P) \in Nat
      /\ \A p \in P : Rank(P, p) \in 1 .. Cardinality(P)
      /\ \A p, q \in P : p < q => Rank(P, p) < Rank(P, q)
  BY RankIncreases
<1>1. ASSUME NEW n \in 1 .. Cardinality(P)
      PROVE  Nth(P, n) \in P /\ Rank(P, Nth(P, n)) = n
  <2>1. \E p \in P : Cardinality({q \in P : q <= p}) = n
    BY RanksAreAllThere DEF Rank
  <2> QED BY <2>1 DEF Nth, Rank
<1>2. ASSUME NEW p \in P, NEW q \in P, Rank(P, p) = Rank(P, q) PROVE p = q
  <2>0. Rank(P, p) \in Nat
    BY <1>0
  <2>1. ~(p < q) /\ ~(q < p)
    BY <1>0, <1>2, <2>0
  <2> QED BY <2>1
<1>3. \A p \in P : \E n \in 1 .. Cardinality(P) : Nth(P, n) = p
  BY <1>0, <1>1, <1>2
<1>4. ASSUME NEW k \in 1 .. Cardinality(P), NEW n \in 1 .. Cardinality(P), k < n
      PROVE  Nth(P, k) < Nth(P, n)
  <2> DEFINE p == Nth(P, k)
             q == Nth(P, n)
  <2>1. p \in P /\ q \in P /\ Rank(P, p) = k /\ Rank(P, q) = n
    BY <1>1
  <2> HIDE DEF p, q
  <2>2. ~(q < p) /\ q # p /\ p \in Nat /\ q \in Nat
    BY <1>0, <1>4, <2>1
  <2>3. p < q
    BY <2>2
  <2> QED BY <2>3 DEF p, q
<1> QED BY <1>1, <1>3, <1>4

\* An increasing sequence of numbers is given by its elements.
LEMMA IncreasingCounts ==
    ASSUME NEW s \in Seq(Nat), Increasing(s), NEW n \in 1 .. Len(s)
    PROVE  /\ IsFiniteSet(Elements(s)) /\ Cardinality(Elements(s)) = Len(s)
           /\ Rank(Elements(s), s[n]) = n
<1>1. ASSUME NEW k \in 0 .. Len(s)
      PROVE  LET S == {s[j] : j \in 1 .. k} IN IsFiniteSet(S) /\ Cardinality(S) = k
  <2> DEFINE S == {s[j] : j \in 1 .. k}
             f == [j \in 1 .. k |-> s[j]]
  <2>1. IsFiniteSet(1 .. k) /\ Cardinality(1 .. k) = k
    BY FS_Interval
  <2>2. f \in Surjection(1 .. k, S)
    BY DEF Surjection
  <2>3. f \in Injection(1 .. k, S)
    <3>1. ASSUME NEW a \in 1 .. k, NEW b \in 1 .. k, f[a] = f[b] PROVE a = b
      <4>1. ~(a < b) /\ ~(b < a)
        BY <3>1 DEF Increasing
      <4> QED BY <4>1
    <3> QED BY <3>1 DEF Injection, IsInjective
  <2> HIDE DEF f, S
  <2>4. IsFiniteSet(S) /\ Cardinality(S) = k
    BY <2>1, <2>2, <2>3, FS_Surjection
  <2> QED BY <2>4 DEF S
<1>2. Elements(s) = {s[j] : j \in 1 .. Len(s)}
  BY DEF Elements
<1>3. {q \in Elements(s) : q <= s[n]} = {s[j] : j \in 1 .. n}
  <2>1. ASSUME NEW j \in 1 .. Len(s) PROVE s[j] <= s[n] <=> j <= n
    <3>1. s[j] \in Nat /\ s[n] \in Nat
      OBVIOUS
    <3> QED BY <2>1, <3>1 DEF Increasing
  <2> QED BY <1>2, <2>1
<1>4. n \in 0 .. Len(s) /\ Len(s) \in 0 .. Len(s)
  OBVIOUS
<1> QED BY <1>1, <1>2, <1>3, <1>4 DEF Rank

\* So two increasing sequences with the same elements are the same sequence.
LEMMA IncreasingAreEqual ==
    ASSUME NEW s \in Seq(Nat), NEW t \in Seq(Nat), Increasing(s), Increasing(t),
           Elements(s) = Elements(t)
    PROVE  s = t
<1>1. Elements(s) \subseteq Nat
  BY DEF Elements
<1>2. Len(s) = Len(t)
  <2>0. Len(s) \in Nat /\ Len(t) \in Nat
    OBVIOUS
  <2>1. CASE Len(s) = 0 /\ Len(t) # 0
    <3>1. 1 \in 1 .. Len(t)
      BY <2>0, <2>1
    <3>2. t[1] \in Elements(s)
      BY <3>1 DEF Elements
    <3> QED BY <2>1, <3>2 DEF Elements
  <2>2. CASE Len(s) # 0 /\ Len(t) = 0
    <3>1. 1 \in 1 .. Len(s)
      BY <2>0, <2>2
    <3>2. s[1] \in Elements(t)
      BY <3>1 DEF Elements
    <3> QED BY <2>2, <3>2 DEF Elements
  <2>3. CASE Len(s) # 0 /\ Len(t) # 0
    <3>1. 1 \in 1 .. Len(s) /\ 1 \in 1 .. Len(t)
      BY <2>3
    <3> QED BY <3>1, IncreasingCounts
  <2> QED BY <2>1, <2>2, <2>3
<1>3. ASSUME NEW n \in 1 .. Len(s) PROVE s[n] = t[n]
  <2> DEFINE E == Elements(s)
  <2>1. IsFiniteSet(E) /\ Rank(E, s[n]) = n /\ Rank(E, t[n]) = n /\ s[n] \in E /\ t[n] \in E
    BY <1>2, IncreasingCounts DEF Elements
  <2>2. s[n] \in Nat /\ t[n] \in Nat /\ ~(s[n] < t[n]) /\ ~(t[n] < s[n])
    BY <1>1, <2>1, RankIncreases
  <2> QED BY <2>2
<1> QED BY <1>2, <1>3, SeqEqual

\* The run of complete read-only calls that starts at block i.
LEMMA RunIsComplete ==
    ASSUME NEW s \in Seq(Blocks), NEW i \in 1 .. Len(s)
    PROVE  /\ RunEnd(s, i) \in (i - 1) .. Len(s)
           /\ \A k \in i .. RunEnd(s, i) : s[k].kind = "read" /\ ~s[k].partial
<1> DEFINE InRun(j) == \A k \in i .. j : s[k].kind = "read" /\ ~s[k].partial
           D == {j \in i .. Len(s) : InRun(j)}
           m == i - 1 + Cardinality(D)
<1>1. IsFiniteSet(D) /\ Cardinality(D) \in 0 .. (Len(s) - i + 1)
  <2>1. IsFiniteSet(i .. Len(s)) /\ Cardinality(i .. Len(s)) = Len(s) - i + 1
    BY FS_Interval
  <2>2. D \in SUBSET (i .. Len(s))
    OBVIOUS
  <2> HIDE DEF D
  <2>3. IsFiniteSet(D) /\ Cardinality(D) <= Len(s) - i + 1
    BY <2>1, <2>2, FS_Subset
  <2>4. Cardinality(D) \in Nat
    BY <2>3, FS_CardinalityType
  <2> QED BY <2>3, <2>4
<1>2. ASSUME NEW j \in D PROVE j <= m
  <2>1. i .. j \in SUBSET D
    OBVIOUS
  <2>2. Cardinality(i .. j) = j - i + 1
    <3>1. i \in Int /\ j \in Int /\ i <= j
      OBVIOUS
    <3> QED BY <3>1, FS_Interval
  <2> HIDE DEF D
  <2>3. Cardinality(i .. j) <= Cardinality(D)
    BY <1>1, <2>1, FS_Subset
  <2>4. j \in i .. Len(s) /\ Len(s) \in Nat
    BY DEF D
  <2> QED BY <1>1, <2>2, <2>3, <2>4
<1>3. ASSUME NEW j \in i .. m PROVE j \in D
  <2>1. SUFFICES ASSUME j \notin D PROVE FALSE
    OBVIOUS
  <2>2. D \in SUBSET (i .. (j - 1))
    BY <1>1, <2>1
  <2>3. IsFiniteSet(i .. (j - 1)) /\ Cardinality(i .. (j - 1)) = j - i
    <3>1. i \in Int /\ j \in Int /\ i <= j
      BY <1>1
    <3> HIDE DEF m, D
    <3>2. j - 1 \in Int
      BY <3>1
    <3>3. Cardinality(i .. (j - 1)) = IF i > j - 1 THEN 0 ELSE (j - 1) - i + 1
      BY <3>1, <3>2, FS_Interval
    <3> QED BY <3>1, <3>2, <3>3, FS_Interval
  <2> HIDE DEF D
  <2>4. Cardinality(D) <= j - i
    BY <2>2, <2>3, FS_Subset
  <2> QED BY <1>1, <2>4
<1>4. m \in (i - 1) .. Len(s)
  BY <1>1
<1>5. InRun(m)
  <2> HIDE DEF m
  <2>1. CASE m >= i
    BY <1>3, <1>4, <2>1
  <2> QED BY <1>4, <2>1
<1>6. m = Len(s) \/ ~InRun(m + 1)
  <2>1. SUFFICES ASSUME m # Len(s), InRun(m + 1) PROVE FALSE
    OBVIOUS
  <2>2. m + 1 \in D
    <3> HIDE DEF m
    <3> QED BY <1>4, <2>1
  <2> QED BY <1>1, <1>2, <2>2
<1>7. \E j \in (i - 1) .. Len(s) : InRun(j) /\ (j = Len(s) \/ ~InRun(j + 1))
  BY <1>4, <1>5, <1>6
<1> HIDE DEF D, m
<1> QED BY <1>7 DEF RunEnd

-----------------------------------------------------------------------------
(* Type correctness                                                        *)

\* The ids listed for some positions are ids of the blocks there.
LEMMA IdsAtTypes ==
    ASSUME content \in Seq(Blocks), NEW P \in SUBSET (1 .. Len(content))
    PROVE  /\ IsFiniteSet(P) /\ P \subseteq Nat /\ Cardinality(P) \in Nat
           /\ IdsAt(P) \in Seq(Ids) /\ Len(IdsAt(P)) = Cardinality(P)
<1>0. Len(content) \in Nat
  OBVIOUS
<1>1. IsFiniteSet(1 .. Len(content))
  BY <1>0, FS_Interval
<1>2. IsFiniteSet(P) /\ P \subseteq Nat
  <2>1. IsFiniteSet(P)
    BY <1>1, FS_Subset
  <2>2. 1 .. Len(content) \subseteq Nat
    OBVIOUS
  <2> QED BY <2>1, <2>2
<1>3. Cardinality(P) \in Nat
  BY <1>2, FS_CardinalityType
<1>4. \A n \in 1 .. Cardinality(P) : Nth(P, n) \in P
  BY <1>2, NthIsInOrder
<1>5. \A n \in 1 .. Cardinality(P) : content[Nth(P, n)].id \in Ids
  <2>1. ASSUME NEW k \in 1 .. Len(content) PROVE content[k].id \in Ids
    <3>1. content[k] \in Blocks
      OBVIOUS
    <3> QED BY <3>1 DEF Blocks
  <2> QED BY <1>4, <2>1
<1> QED BY <1>2, <1>3, <1>5 DEF IdsAt

\* The end of the stream leaves blocks, whatever it drops.
LEMMA FinalizedTypes ==
    ASSUME content \in Seq(Blocks), NEW Lost
    PROVE  Finalized(Lost) \in Seq(Blocks)
<1> DEFINE Done(P) == [n \in 1 .. Cardinality(P) |-> [content[Nth(P, n)] EXCEPT !.partial = FALSE]]
<1>1. ASSUME NEW P \in SUBSET (1 .. Len(content)) PROVE Done(P) \in Seq(Blocks)
  <2>1. IsFiniteSet(P) /\ P \subseteq Nat /\ Cardinality(P) \in Nat
    BY IdsAtTypes
  <2>2. \A n \in 1 .. Cardinality(P) : Nth(P, n) \in 1 .. Len(content)
    BY <2>1, NthIsInOrder
  <2>3. ASSUME NEW k \in 1 .. Len(content)
        PROVE  [content[k] EXCEPT !.partial = FALSE] \in Blocks
    <3>1. content[k] \in Blocks
      OBVIOUS
    <3> QED BY <3>1 DEF Blocks
  <2> QED BY <2>1, <2>2, <2>3
<1>2. /\ (1 .. Len(content)) \ OpenCalls \in SUBSET (1 .. Len(content))
      /\ {k \in OpenCalls : content[k].id \notin Lost} \in SUBSET (1 .. Len(content))
  BY DEF OpenCalls, Partials
<1>3. /\ Done((1 .. Len(content)) \ OpenCalls) \in Seq(Blocks)
      /\ Done({k \in OpenCalls : content[k].id \notin Lost}) \in Seq(Blocks)
  BY <1>1, <1>2
<1> HIDE DEF Done
<1>4. Done((1 .. Len(content)) \ OpenCalls) \o Done({k \in OpenCalls : content[k].id \notin Lost})
         \in Seq(Blocks)
  BY <1>3
<1> QED BY <1>4 DEF Finalized, Done

\* What a call is at, by its stage.
LEMMA StageTypes ==
    ASSUME NEW r \in Stages
    PROVE  /\ "at" \in DOMAIN r
           /\ r.at \in {"none", "yield"} \union Working
           /\ r.at \in {"work", "preview", "running", "answered"} =>
                 r \in AtBlocks /\ r.i \in Nat /\ r.block \in Blocks
           /\ r.at \in {"batch", "batched"} =>
                 r \in AtBatches /\ r.i \in Nat /\ r.last \in Nat /\ r.ids \in Seq(Ids)
  BY DEF Stages, NoCall, AtBlocks, AtBatches, Working

\* A call that goes to another stage r; the others stay where they are.
LEMMA CallsStay ==
    ASSUME NEW c \in Calls, NEW r \in Stages, call \in [Calls -> Stages],
           call' = [call EXCEPT ![c] = r]
    PROVE  /\ call' \in [Calls -> Stages]
           /\ call'[c] = r
           /\ \A d \in Calls : d # c => call'[d] = call[d]
  OBVIOUS

\* A call that goes on with its block.
LEMMA BlockStage ==
    ASSUME NEW c \in Calls, NEW s \in {"work", "preview", "running", "answered"},
           call \in [Calls -> Stages], call[c] \in AtBlocks, call' = [call EXCEPT ![c].at = s]
    PROVE  /\ call' \in [Calls -> Stages]
           /\ call'[c].at = s /\ call'[c].i = call[c].i /\ call'[c].block = call[c].block
           /\ \A d \in Calls : d # c => call'[d] = call[d]
<1> DEFINE r == [call[c] EXCEPT !.at = s]
<1>1. r \in Stages /\ r.at = s /\ r.i = call[c].i /\ r.block = call[c].block
  BY DEF Stages, AtBlocks
<1>2. call' = [call EXCEPT ![c] = r]
  OBVIOUS
<1> HIDE DEF r
<1> QED BY <1>1, <1>2, CallsStay

\* The variables that entering the presenter sets.
LEMMA EnterTypes ==
    ASSUME NEW c \in Calls, NEW lock \in BOOLEAN, NEW rdy \in BOOLEAN, Enter(c, lock, rdy),
           call \in [Calls -> Stages], content' \in Seq(Blocks), index' \in Nat \ {0},
           didComplete' \in BOOLEAN, pending \in BOOLEAN
    PROVE  call' \in [Calls -> Stages] /\ locked' \in BOOLEAN /\ pending' \in BOOLEAN /\ ready' \in BOOLEAN
<1> DEFINE last == RunEnd(content', index')
           inBounds == index' <= Len(content')
           parallel == inBounds /\ didComplete' /\ last > index'
           r == IF parallel THEN [at |-> "batch", i |-> index', last |-> last, ids |-> <<>>]
                            ELSE [at |-> "work", i |-> index', block |-> content'[index']]
<1>1. NoCall \in Stages
  BY DEF Stages
<1>2. ASSUME inBounds PROVE r \in Stages
  <2>1. index' \in 1 .. Len(content')
    BY <1>2
  <2>2. last \in Nat
    <3>1. RunEnd(content', index') \in (index' - 1) .. Len(content')
      BY <2>1, RunIsComplete
    <3> QED BY <2>1, <3>1
  <2> HIDE DEF last
  <2>3. content'[index'] \in Blocks
    BY <2>1
  <2>4. <<>> \in Seq(Ids)
    OBVIOUS
  <2> QED BY <2>1, <2>2, <2>3, <2>4 DEF Stages, AtBlocks, AtBatches
<1>3. PICK q \in Stages : call' = [call EXCEPT ![c] = q]
  <2> HIDE DEF r
  <2>1. call' = [call EXCEPT ![c] = NoCall] \/ (inBounds /\ call' = [call EXCEPT ![c] = r])
    BY DEF Enter, r
  <2> QED BY <1>1, <1>2, <2>1
<1>4. locked' \in BOOLEAN /\ pending' \in BOOLEAN /\ ready' \in BOOLEAN
  BY DEF Enter
<1> QED BY <1>3, <1>4, CallsStay

\* The variables that the end of a handler sets.
LEMMA FinishTypes ==
    ASSUME NEW c \in Calls, NEW rdy \in BOOLEAN, Finish(c, rdy), TypeOK,
           call[c] \in AtBlocks, {rejected', used'} \subseteq BOOLEAN
    PROVE  /\ call' \in [Calls -> Stages] /\ index' \in Nat \ {0}
           /\ locked' \in BOOLEAN /\ pending' \in BOOLEAN /\ ready' \in BOOLEAN
<1>1. call[c].i \in Nat
  BY DEF AtBlocks
<1>2. PICK q \in {NoCall, [at |-> "yield"]} : call' = [call EXCEPT ![c] = q]
  BY DEF Finish
<1>3. q \in Stages
  BY DEF Stages
<1>4. call \in [Calls -> Stages]
  BY DEF TypeOK
<1>5. index' \in Nat \ {0}
  BY <1>1 DEF Finish, TypeOK
<1>6. locked' \in BOOLEAN /\ pending' \in BOOLEAN
  BY DEF Finish, TypeOK
<1>7. ready' \in BOOLEAN
  <2>1. ready \in BOOLEAN /\ didComplete \in BOOLEAN /\ used' \in BOOLEAN
    BY DEF TypeOK
  <2> QED BY <2>1 DEF Finish
<1> QED BY <1>2, <1>3, <1>4, <1>5, <1>6, <1>7, CallsStay

\* The loop takes a call that is not in use.
LEMMA NewCallIsFree ==
    ASSUME Free # {}
    PROVE  NewCall \in Calls /\ call[NewCall].at = "none"
  BY DEF NewCall, Free

\* The variables have their types at the start...
LEMMA InitTypes == Init => TypeOK
<1> SUFFICES ASSUME Init PROVE TypeOK
  OBVIOUS
<1>1. NoCall \in Stages
  BY DEF Stages
<1>2. call \in [Calls -> Stages]
  BY <1>1 DEF Init
<1>3. MaxBlocks \in Nat /\ MaxRequests \in Nat
  BY SPAssumption
<1>4. {aborted, didComplete, dropped, locked, pending, ready, rejected, used} \subseteq BOOLEAN
  BY DEF Init
<1>5. content \in Seq(Blocks) /\ uses \in Seq(Ids) /\ results \in Seq(Ids)
  BY DEF Init
<1> QED BY <1>2, <1>3, <1>4, <1>5 DEF Init, TypeOK

\* What a chunk makes of the blocks.
LEMMA ChunkTypes ==
    ASSUME TypeOK
    PROVE  /\ \A kind \in Kinds, partial \in BOOLEAN :
                 streamed < MaxBlocks => NextBlock(kind, partial) \in Blocks
           /\ CompleteText \in Seq(Blocks) /\ Len(CompleteText) = Len(content)
           /\ \A k \in OpenCalls : [content EXCEPT ![k].partial = FALSE] \in Seq(Blocks)
<1>1. ASSUME NEW kind \in Kinds, NEW partial \in BOOLEAN, streamed < MaxBlocks
      PROVE  NextBlock(kind, partial) \in Blocks
  BY <1>1, SPAssumption DEF NextBlock, Blocks, Ids, TypeOK
<1>2. ASSUME NEW k \in 1 .. Len(content)
      PROVE  content[k] \in Blocks /\ [content[k] EXCEPT !.partial = FALSE] \in Blocks
  <2>1. content[k] \in Blocks
    BY DEF TypeOK
  <2> QED BY <2>1 DEF Blocks
<1>3. Len(content) \in Nat /\ content \in Seq(Blocks)
  BY DEF TypeOK
<1>4. CompleteText \in Seq(Blocks) /\ Len(CompleteText) = Len(content)
  BY <1>2, <1>3 DEF CompleteText
<1>5. ASSUME NEW k \in OpenCalls PROVE [content EXCEPT ![k].partial = FALSE] \in Seq(Blocks)
  <2>1. k \in 1 .. Len(content)
    BY DEF OpenCalls, Partials
  <2>2. [content EXCEPT ![k].partial = FALSE] = [content EXCEPT ![k] = [content[k] EXCEPT !.partial = FALSE]]
    OBVIOUS
  <2> QED BY <1>2, <1>3, <2>1, <2>2
<1> QED BY <1>1, <1>4, <1>5

\* A chunk, whatever blocks it leaves, and the call of the presenter that follows.
LEMMA ChunkKeepsTypes ==
    ASSUME TypeOK, NEW new \in Seq(Blocks), Chunk(new), streamed' \in 0 .. MaxBlocks
    PROVE  TypeOK'
<1>1. Free # {}
  <2>1. Free = {} => Cardinality(Free) = 0
    BY FS_EmptySet, Zenon
  <2>2. Cardinality(Free) > 1
    BY DEF Chunk
  <2> QED BY <2>1, <2>2
<1>2. /\ locked \in BOOLEAN /\ ready \in BOOLEAN /\ pending \in BOOLEAN
      /\ call \in [Calls -> Stages]
  BY DEF TypeOK
<1>3. /\ Enter(NewCall, locked, ready /\ Len(new) = Len(content))
      /\ content' = new /\ index' = index /\ didComplete' = didComplete
  BY DEF Chunk
<1>4. index' \in Nat \ {0} /\ didComplete' \in BOOLEAN
  BY <1>3 DEF TypeOK
<1>5. call' \in [Calls -> Stages] /\ locked' \in BOOLEAN /\ pending' \in BOOLEAN /\ ready' \in BOOLEAN
  <2>1. NewCall \in Calls
    BY <1>1, NewCallIsFree
  <2> HIDE DEF NewCall
  <2> QED BY <1>2, <1>3, <1>4, <2>1, EnterTypes
<1>6. loop' \in {"streaming", "broken"}
  BY DEF Chunk
<1> QED BY <1>3, <1>5, <1>6 DEF TypeOK, Chunk, toolVars

\* ... after a step of the loop...
LEMMA LoopKeepsTypes == TypeOK /\ Loop => TypeOK'
<1> SUFFICES ASSUME TypeOK, Loop PROVE TypeOK'
  OBVIOUS
<1>0. /\ content \in Seq(Blocks) /\ index \in Nat \ {0} /\ call \in [Calls -> Stages]
      /\ locked \in BOOLEAN /\ ready \in BOOLEAN /\ pending \in BOOLEAN
  BY DEF TypeOK
<1>1. CASE Request \/ Restart
  <2>1. Reset
    BY <1>1 DEF Request, Restart
  <2>2. content' \in Seq(Blocks) /\ uses' \in Seq(Ids) /\ results' \in Seq(Ids)
    BY <2>1 DEF Reset
  <2>3. requests' \in 0 .. MaxRequests
    BY <2>1, SPAssumption DEF Reset, TypeOK
  <2>4. loop' \in {"request", "streaming"} /\ didComplete' \in BOOLEAN
    BY <1>1 DEF Request, Restart, TypeOK
  <2>5. {aborted', didComplete', dropped', locked', pending', ready', rejected', used'} \subseteq BOOLEAN
    BY <2>1, <2>4 DEF Reset, TypeOK
  <2>6. index' \in Nat \ {0} /\ signatures' \subseteq Ids /\ call' \in [Calls -> Stages]
        /\ streamed' \in 0 .. MaxBlocks
    BY <2>1 DEF Reset, TypeOK
  <2> QED BY <2>2, <2>3, <2>4, <2>5, <2>6 DEF TypeOK
<1>2. CASE TextChunk
  <2>1. NextBlock("text", TRUE) \in Blocks
    BY <1>2, ChunkTypes DEF TextChunk, Kinds
  <2>0. PICK b \in Blocks : b = NextBlock("text", TRUE)
    BY <2>1
  <2>2. Append(content, b) \in Seq(Blocks) /\ Chunk(Append(content, b))
    BY <1>0, <1>2, <2>0, AppendProperties DEF TextChunk
  <2>3. streamed' \in 0 .. MaxBlocks
    BY <1>2, SPAssumption DEF TextChunk, TypeOK
  <2> QED BY <2>2, <2>3, ChunkKeepsTypes
<1>3. CASE CallChunk
  <2>1. PICK kind \in {"read", "act"}, partial \in BOOLEAN :
           Chunk(Append(CompleteText, NextBlock(kind, partial)))
    BY <1>3 DEF CallChunk
  <2>2. NextBlock(kind, partial) \in Blocks /\ CompleteText \in Seq(Blocks)
    BY <1>3, ChunkTypes DEF CallChunk, Kinds
  <2>3. Append(CompleteText, NextBlock(kind, partial)) \in Seq(Blocks)
    BY <2>2
  <2>4. streamed' \in 0 .. MaxBlocks
    BY <1>3, SPAssumption DEF CallChunk, TypeOK
  <2> QED BY <2>1, <2>3, <2>4, ChunkKeepsTypes
<1>4. CASE MoreChunk
  <2>1. streamed' \in 0 .. MaxBlocks
    BY <1>4 DEF MoreChunk, TypeOK
  <2>2. CASE Chunk(content)
    BY <1>0, <2>1, <2>2, ChunkKeepsTypes
  <2>3. CASE \E k \in OpenCalls : Chunk([content EXCEPT ![k].partial = FALSE])
    <3>1. PICK k \in OpenCalls : Chunk([content EXCEPT ![k].partial = FALSE])
      BY <2>3
    <3>2. [content EXCEPT ![k].partial = FALSE] \in Seq(Blocks)
      BY ChunkTypes
    <3> QED BY <2>1, <3>1, <3>2, ChunkKeepsTypes
  <2> QED BY <1>4, <2>2, <2>3 DEF MoreChunk
<1>5. CASE StreamEnds
  <2>1. PICK Lost \in SUBSET {content[k].id : k \in OpenCalls} :
           /\ uses' = IdsAt({k \in Tools : content[k].id \notin Lost})
           /\ content' = Finalized(Lost)
           /\ dropped' = (Lost # {})
    BY <1>5 DEF StreamEnds
  <2>2. uses' \in Seq(Ids)
    <3>1. {k \in Tools : content[k].id \notin Lost} \in SUBSET (1 .. Len(content))
      BY DEF Tools
    <3> QED BY <1>0, <2>1, <3>1, IdsAtTypes
  <2>3. content' \in Seq(Blocks)
    BY <1>0, <2>1, FinalizedTypes
  <2>4. /\ didComplete' = TRUE /\ loop' = "saving" /\ Free # {}
        /\ UNCHANGED <<aborted, requests, streamed, index, toolVars>>
    BY <1>5 DEF StreamEnds
  <2>5. call' \in [Calls -> Stages] /\ locked' \in BOOLEAN /\ pending' \in BOOLEAN /\ ready' \in BOOLEAN
    <3>1. CASE Enter(NewCall, locked, ready)
      <4>1. NewCall \in Calls
        BY <2>4, NewCallIsFree
      <4>2. index' \in Nat \ {0} /\ didComplete' \in BOOLEAN
        BY <1>0, <2>4
      <4> HIDE DEF NewCall
      <4> QED BY <1>0, <2>3, <3>1, <4>1, <4>2, EnterTypes
    <3>2. CASE UNCHANGED <<locked, pending, ready, call>>
      BY <1>0, <3>2
    <3> QED BY <1>5, <3>1, <3>2 DEF StreamEnds
  <2>6. dropped' \in BOOLEAN
    BY <2>1
  <2> QED BY <2>2, <2>3, <2>4, <2>5, <2>6 DEF TypeOK, toolVars
<1>6. CASE Saved \/ Proceed \/ TurnAborts \/ AbortTask
  <2>1. /\ loop' \in {"request", "waiting", "done", loop}
        /\ aborted' \in BOOLEAN
        /\ UNCHANGED <<requests, streamed, content, didComplete, dropped, uses, toolVars,
                       index, locked, pending, ready, call>>
    BY <1>6 DEF Saved, Proceed, TurnAborts, AbortTask, TypeOK
  <2> QED BY <2>1 DEF TypeOK, toolVars
<1> QED BY <1>1, <1>2, <1>3, <1>4, <1>5, <1>6 DEF Loop

\* A result that is pushed is the result of a call.
LEMMA AnsweredTypes ==
    ASSUME TypeOK, NEW id \in Ids
    PROVE  Answered(id) \in Seq(Ids)
  BY DEF Answered, TypeOK

\* A block's handler comes to its end.
LEMMA FinishKeepsTypes ==
    ASSUME TypeOK, NEW c \in Calls, NEW rdy \in BOOLEAN, Finish(c, rdy), call[c] \in AtBlocks,
           {rejected', used'} \subseteq BOOLEAN, signatures' \subseteq Ids, results' \in Seq(Ids)
    PROVE  TypeOK'
<1>1. /\ call' \in [Calls -> Stages] /\ index' \in Nat \ {0}
      /\ locked' \in BOOLEAN /\ pending' \in BOOLEAN /\ ready' \in BOOLEAN
  BY FinishTypes
<1>2. UNCHANGED loopVars
  BY DEF Finish
<1> QED BY <1>1, <1>2 DEF TypeOK, loopVars

\* ... and after a step of a call of the presenter.
LEMMA PresentKeepsTypes ==
    ASSUME TypeOK, NEW c \in Calls, Present(c)
    PROVE  TypeOK'
<1>0. /\ content \in Seq(Blocks) /\ index \in Nat \ {0} /\ call \in [Calls -> Stages]
      /\ didComplete \in BOOLEAN
      /\ locked \in BOOLEAN /\ ready \in BOOLEAN /\ pending \in BOOLEAN
      /\ {rejected, used} \subseteq BOOLEAN /\ signatures \subseteq Ids /\ results \in Seq(Ids)
  BY DEF TypeOK
<1>1. ASSUME call[c].at \in {"work", "preview", "running", "answered"}
      PROVE  call[c] \in AtBlocks /\ call[c].i \in Nat /\ call[c].block.id \in Ids
  BY <1>0, <1>1, StageTypes DEF Blocks
<1>2. ASSUME call[c].at \in {"batch", "batched"}
      PROVE  call[c] \in AtBatches /\ call[c].last \in Nat /\ call[c].ids \in Seq(Ids)
  BY <1>0, <1>2, StageTypes
<1>3. CASE Wake(c)
  <2>1. Enter(c, locked, ready) /\ UNCHANGED <<loopVars, toolVars, index>>
    BY <1>3 DEF Wake
  <2>2. content' \in Seq(Blocks) /\ index' \in Nat \ {0} /\ didComplete' \in BOOLEAN
    BY <1>0, <2>1 DEF loopVars
  <2>3. call' \in [Calls -> Stages] /\ locked' \in BOOLEAN /\ pending' \in BOOLEAN /\ ready' \in BOOLEAN
    BY <1>0, <2>1, <2>2, EnterTypes
  <2> QED BY <2>1, <2>3 DEF TypeOK, loopVars, toolVars
<1>4. CASE Preview(c) \/ Begin(c) \/ FirstResult(c)
  <2>1. /\ call[c].at \in {"work", "running"}
        /\ \E s \in {"preview", "running", "answered"} : call' = [call EXCEPT ![c].at = s]
        /\ UNCHANGED <<loopVars, index, locked, pending, rejected>>
    BY <1>4 DEF Preview, Begin, FirstResult, AtCall, AtBlock, toolVars
  <2>2. call[c] \in AtBlocks /\ call[c].block.id \in Ids /\ call[c].i \in Nat
    BY <1>1, <2>1
  <2>3. call' \in [Calls -> Stages]
    BY <1>0, <2>1, <2>2, BlockStage
  <2>4. results' \in Seq(Ids) /\ signatures' \subseteq Ids /\ used' \in BOOLEAN /\ ready' \in BOOLEAN
    <3>1. CASE Preview(c)
      BY <1>0, <3>1 DEF Preview, toolVars
    <3>2. CASE Begin(c)
      BY <1>0, <2>2, <3>2 DEF Begin
    <3>3. CASE FirstResult(c)
      BY <1>0, <2>2, <3>3, AnsweredTypes DEF FirstResult, AtEnd
    <3> QED BY <1>4, <3>1, <3>2, <3>3
  <2> QED BY <2>1, <2>3, <2>4 DEF TypeOK, loopVars
<1>5. CASE Refuse(c) \/ Shown(c) \/ Skip(c) \/ Duplicate(c) \/ Return(c) \/ Reject(c)
  <2>1. call[c].at \in {"work", "preview", "running", "answered"}
    BY <1>5 DEF Refuse, Shown, Skip, Duplicate, Return, Reject, AtCall, AtBlock
  <2>2. call[c] \in AtBlocks /\ call[c].block.id \in Ids /\ call[c].i \in Nat
    BY <1>1, <2>1
  <2>3. AtEnd(call[c].i) \in BOOLEAN
    BY <1>0 DEF AtEnd
  <2>4. {rejected', used'} \subseteq BOOLEAN /\ signatures' \subseteq Ids
    BY <1>0, <1>5 DEF Refuse, Shown, Skip, Duplicate, Return, Reject, toolVars
  <2>5. results' \in Seq(Ids)
    BY <1>0, <1>5, <2>2, AnsweredTypes DEF Refuse, Shown, Skip, Duplicate, Return, Reject, toolVars
  <2>6. Finish(c, FALSE) \/ Finish(c, AtEnd(call[c].i))
    BY <1>5 DEF Refuse, Shown, Skip, Duplicate, Return, Reject
  <2> QED BY <2>2, <2>3, <2>4, <2>5, <2>6, FinishKeepsTypes
<1>6. CASE RunBatch(c)
  <2> DEFINE P == {k \in Tools : k \in call[c].i .. call[c].last /\ ~content[k].partial}
             r == [call[c] EXCEPT !.at = "batched", !.ids = IdsAt(P)]
  <2>1. IdsAt(P) \in Seq(Ids)
    BY <1>0, IdsAtTypes DEF Tools
  <2>2. r \in Stages
    <3>1. call[c] \in AtBatches
      BY <1>2, <1>6 DEF RunBatch
    <3> QED BY <2>1, <3>1 DEF AtBatches, Stages
  <2>3. call' = [call EXCEPT ![c] = r]
    BY <1>0, <1>6 DEF RunBatch
  <2>4. call' \in [Calls -> Stages]
    BY <1>0, <2>2, <2>3
  <2>5. Elements(IdsAt(P)) \subseteq Ids
    BY <2>1 DEF Elements
  <2>6. used' \in BOOLEAN /\ signatures' \subseteq Ids /\ ready' \in BOOLEAN
    <3> HIDE DEF P
    <3>1. AtEnd(call[c].last) \in BOOLEAN
      BY <1>0 DEF AtEnd
    <3>2. \/ UNCHANGED <<used, signatures, ready>>
          \/ /\ used' = TRUE
             /\ signatures' = signatures \union Elements(IdsAt(P))
             /\ ready' = (ready \/ AtEnd(call[c].last))
      BY <1>6 DEF RunBatch, P
    <3> QED BY <1>0, <2>5, <3>1, <3>2
  <2>7. UNCHANGED <<loopVars, rejected, results, index, locked, pending>>
    BY <1>6 DEF RunBatch
  <2> HIDE DEF r, P
  <2> QED BY <2>4, <2>6, <2>7 DEF TypeOK, loopVars
<1>7. CASE CommitBatch(c)
  <2>1. call[c] \in AtBatches /\ call[c].last \in Nat /\ call[c].ids \in Seq(Ids)
    BY <1>2, <1>7 DEF CommitBatch
  <2>2. results' \in Seq(Ids) /\ index' \in Nat \ {0} /\ UNCHANGED <<loopVars, rejected, used, signatures>>
    BY <1>0, <1>7, <2>1 DEF CommitBatch
  <2>3. content' \in Seq(Blocks) /\ didComplete' \in BOOLEAN
    BY <1>0, <2>2 DEF loopVars
  <2>4. call' \in [Calls -> Stages] /\ locked' \in BOOLEAN /\ pending' \in BOOLEAN /\ ready' \in BOOLEAN
    <3>1. CASE Enter(c, FALSE, ready)
      BY <1>0, <2>2, <2>3, <3>1, EnterTypes
    <3>2. CASE ready' = TRUE /\ locked' = FALSE /\ call' = [call EXCEPT ![c] = NoCall] /\ UNCHANGED pending
      <4>1. NoCall \in Stages
        BY DEF Stages
      <4> QED BY <1>0, <3>2, <4>1, CallsStay
    <3> QED BY <1>7, <3>1, <3>2 DEF CommitBatch
  <2> QED BY <2>2, <2>4 DEF TypeOK, loopVars
<1>8. CASE BatchThrows(c)
  <2>1. NoCall \in Stages
    BY DEF Stages
  <2>2. call' \in [Calls -> Stages]
    BY <1>0, <1>8, <2>1, CallsStay DEF BatchThrows
  <2> QED BY <1>8, <2>2 DEF BatchThrows, TypeOK, loopVars, toolVars
<1> QED BY <1>3, <1>4, <1>5, <1>6, <1>7, <1>8 DEF Present

\* Type correctness, for any number of calls, blocks and requests and whatever
\* Events allows.
THEOREM StreamPresenterTypes == Spec => []TypeOK
<1>1. TypeOK /\ [Next]_vars => TypeOK'
  <2> SUFFICES ASSUME TypeOK, [Next]_vars PROVE TypeOK'
    OBVIOUS
  <2>1. CASE UNCHANGED vars
    BY <2>1 DEF vars, loopVars, toolVars, TypeOK
  <2> QED BY <2>1, LoopKeepsTypes, PresentKeepsTypes DEF Next
<1> QED BY InitTypes, <1>1, PTL DEF Spec

-----------------------------------------------------------------------------
(* Plain turns: the inductive invariant                                    *)

\* The calls of the message and those that have a result; no call at a .. b.
CallIds == {content[k].id : k \in Tools}
Answers == Elements(results)
Quiet(a, b) == \A k \in a .. b : k \notin Tools

\* Nothing is cancelled or dropped; the blocks are complete when, and only when,
\* the stream is over; and a request leaves when nobody is at work any more.
Course ==
    /\ ~aborted /\ ~dropped
    /\ loop \in {"streaming", "broken"} => ~didComplete
    /\ loop \in {"saving", "waiting"} => didComplete
    /\ loop = "request" => Busy = {} /\ index > Len(content)

\* The calls of the message have the order of their ids, and while it is being
\* streamed only the last of them can be open.
InOrder ==
    /\ \A k \in 1 .. Len(content) : content[k].id <= streamed
    /\ \A a, b \in Tools : a < b => content[a].id < content[b].id
    /\ ~didComplete => \A a \in OpenCalls, b \in Tools : b <= a

\* The results are those of the first calls, in their order.  The calls before
\* the index have one; a later call has one only if it is the one that the end
\* of the stream moved behind the text that followed it.
Answering ==
    /\ index <= Len(content) + 1
    /\ Increasing(results)
    /\ Answers \subseteq CallIds
    /\ \A a, b \in Tools : a < b /\ content[b].id \in Answers => content[a].id \in Answers
    /\ \A k \in Tools : k < index => content[k].id \in Answers
    /\ \A k \in Tools : k >= index /\ content[k].id \in Answers
          => didComplete /\ k = Len(content) /\ Quiet(index, k - 1)

\* Where the block of a call is now: at p.
HoldsCall(i, b, p) ==
    /\ p >= i /\ content[p].id = b.id /\ Quiet(i, p - 1)
    /\ p # i => didComplete /\ p = Len(content)

\* What a call of the presenter knows of the message: at a block...
AtItsBlock(i, at, b) ==
    /\ IF IsTool(b) THEN \E p \in Tools : HoldsCall(i, b, p)
                    ELSE i \in Tools => content[i].id \in Answers
    /\ at # "work" => IsTool(b)
    /\ at = "preview" => ~rejected /\ b.partial
    /\ at = "running" => ~b.partial

\* ... and at a batch of reads, which it runs only once the stream is over.
AtItsBatch(i, at, last, ids) ==
    /\ didComplete
    /\ i < last /\ last <= Len(content)
    /\ \A k \in i .. last : k \in Tools /\ ~content[k].partial
    /\ at = "batched" => Increasing(ids) /\ Elements(ids) = {content[k].id : k \in i .. last}

\* The call of the presenter that is at work is at the index.
AtWork(r) ==
    /\ r.at # "answered"
    /\ r.i = index /\ index <= Len(content)
    /\ IF r.at \in {"batch", "batched"} THEN AtItsBatch(r.i, r.at, r.last, r.ids)
                                        ELSE AtItsBlock(r.i, r.at, r.block)

\* The lock is taken exactly when a call is at work, and then by one call only.
Alone ==
    /\ \A c, d \in Busy : c = d
    /\ locked <=> Busy # {}
    /\ \A c \in Busy : AtWork(call[c])

\* userMessageContentReady is set when everything is presented, or by the last
\* workers of a batch whose results are about to be committed.
Readiness ==
    ready => \/ index > Len(content)
             \/ \E c \in Busy : call[c].at = "batched" /\ call[c].last = Len(content)

\* The calls as they are saved with the message, once the stream is over.
Recorded == loop \in {"saving", "waiting"} => Increasing(uses) /\ Elements(uses) = CallIds

\* The inductive invariant of the plain turns.
PlainInv == TypeOK /\ Course /\ InOrder /\ Answering /\ Alone /\ Readiness /\ Recorded

\* What the type invariant says of the calls of a message.
LEMMA ToolsHaveIds ==
    ASSUME TypeOK
    PROVE  /\ Len(content) \in Nat /\ index \in Nat \ {0}
           /\ \A k \in Tools : k \in 1 .. Len(content) /\ content[k].id \in Ids /\ content[k].id \in Nat
<1>1. ASSUME NEW k \in 1 .. Len(content) PROVE content[k].id \in Ids
  <2>1. content[k] \in Blocks
    BY DEF TypeOK
  <2> QED BY <2>1 DEF Blocks
<1>2. Len(content) \in Nat /\ index \in Nat \ {0}
  BY DEF TypeOK
<1>3. Ids \subseteq Nat
  BY SPAssumption DEF Ids
<1> QED BY <1>1, <1>2, <1>3 DEF Tools

\* No two tool calls of a message have the same id.
LEMMA ToolsDiffer ==
    ASSUME TypeOK, InOrder, NEW a \in Tools, NEW b \in Tools, content[a].id = content[b].id
    PROVE  a = b
<1>1. a \in Nat /\ b \in Nat /\ content[a].id \in Nat /\ content[b].id \in Nat
  BY ToolsHaveIds
<1>2. ~(a < b) /\ ~(b < a)
  BY <1>1 DEF InOrder
<1> QED BY <1>1, <1>2

\* The ids listed for some calls are those calls' ids, in order.
LEMMA IdsInOrder ==
    ASSUME TypeOK, InOrder, NEW P \in SUBSET Tools
    PROVE  Increasing(IdsAt(P)) /\ Elements(IdsAt(P)) = {content[k].id : k \in P}
<1>1. P \in SUBSET (1 .. Len(content)) /\ content \in Seq(Blocks)
  BY DEF Tools, TypeOK
<1>2. /\ IsFiniteSet(P) /\ P \subseteq Nat /\ Cardinality(P) \in Nat
      /\ Len(IdsAt(P)) = Cardinality(P)
  BY <1>1, IdsAtTypes
<1>3. /\ \A n \in 1 .. Cardinality(P) : Nth(P, n) \in P
      /\ \A p \in P : \E n \in 1 .. Cardinality(P) : Nth(P, n) = p
      /\ \A k, n \in 1 .. Cardinality(P) : k < n => Nth(P, k) < Nth(P, n)
  BY <1>2, NthIsInOrder
<1>4. \A n \in 1 .. Cardinality(P) : IdsAt(P)[n] = content[Nth(P, n)].id
  BY DEF IdsAt
<1>5. Increasing(IdsAt(P))
  <2> SUFFICES ASSUME NEW a \in 1 .. Cardinality(P), NEW b \in 1 .. Cardinality(P), a < b
               PROVE  IdsAt(P)[a] < IdsAt(P)[b]
    BY <1>2 DEF Increasing
  <2>1. Nth(P, a) \in Tools /\ Nth(P, b) \in Tools /\ Nth(P, a) < Nth(P, b)
    BY <1>3
  <2> QED BY <1>4, <2>1 DEF InOrder
<1>6. Elements(IdsAt(P)) = {IdsAt(P)[n] : n \in 1 .. Cardinality(P)}
  BY <1>2 DEF Elements
<1> HIDE DEF IdsAt
<1>7. Elements(IdsAt(P)) = {content[k].id : k \in P}
  BY <1>3, <1>4, <1>6
<1> QED BY <1>5, <1>7

\* What the type invariant says of the results.
LEMMA ResultTypes ==
    ASSUME TypeOK
    PROVE  /\ results \in Seq(Nat) /\ Len(results) \in Nat
           /\ \A n \in 1 .. Len(results) : results[n] \in Answers /\ results[n] \in Nat
           /\ \A r \in Answers : r \in Nat /\ \E n \in 1 .. Len(results) : results[n] = r
<1>1. results \in Seq(Ids) /\ Ids \subseteq Nat
  BY SPAssumption DEF TypeOK, Ids
<1>2. Len(results) \in Nat /\ \A n \in 1 .. Len(results) : results[n] \in Ids
  BY <1>1
<1>3. results \in Seq(Nat)
  BY <1>1, SeqMonotonic
<1> QED BY <1>1, <1>2, <1>3 DEF Answers, Elements

\* The result of the call that is next in order.
LEMMA NextAnswer ==
    ASSUME TypeOK, InOrder, Answering, NEW b \in Blocks, NEW p \in Tools, HoldsCall(index, b, p)
    PROVE  /\ \A a \in Tools : a < p => content[a].id \in Answers
           /\ Increasing(Answered(b.id))
           /\ Elements(Answered(b.id)) = Answers \union {b.id}
<1> DEFINE id == b.id
<1>0. /\ id = content[p].id /\ id \in Nat /\ p \in Nat /\ index \in Nat
      /\ p >= index /\ Quiet(index, p - 1)
  BY ToolsHaveIds DEF HoldsCall
<1>1. ASSUME NEW a \in Tools, a < p PROVE content[a].id \in Answers
  <2>1. a \in Nat
    BY ToolsHaveIds
  <2>2. ~(a >= index)
    <3>1. a >= index => a \in index .. (p - 1)
      BY <1>0, <1>1, <2>1
    <3> QED BY <1>0, <3>1 DEF Quiet
  <2>3. a < index
    BY <1>0, <2>1, <2>2
  <2> QED BY <2>3 DEF Answering
<1>2. CASE id \in Answers
  <2>1. Answered(id) = results
    BY <1>2 DEF Answered, Answers
  <2> QED BY <1>1, <1>2, <2>1 DEF Answering, Answers
<1>3. CASE id \notin Answers
  <2>1. Answered(id) = Append(results, id)
    BY <1>3 DEF Answered, Answers
  <2>2. ASSUME NEW r \in Answers PROVE r < id
    <3>1. PICK a \in Tools : content[a].id = r
      BY DEF Answering, CallIds
    <3>2. ~(p < a)
      BY <1>0, <1>3, <3>1 DEF Answering
    <3>3. a # p /\ a \in Nat
      BY <1>0, <1>3, <3>1, ToolsHaveIds
    <3>4. a < p
      BY <1>0, <3>2, <3>3
    <3> QED BY <1>0, <3>1, <3>4 DEF InOrder
  <2> DEFINE s == Append(results, id)
  <2>3. /\ results \in Seq(Nat) /\ Len(results) \in Nat
        /\ \A n \in 1 .. Len(results) : results[n] \in Answers
        /\ \A r \in Answers : \E n \in 1 .. Len(results) : results[n] = r
    BY ResultTypes
  <2>4. /\ Len(s) = Len(results) + 1 /\ s[Len(results) + 1] = id
        /\ \A n \in 1 .. Len(results) : s[n] = results[n]
    BY <1>0, <2>3, AppendProperties
  <2>5. Elements(s) = {s[n] : n \in 1 .. Len(results) + 1}
    BY <2>4 DEF Elements
  <2> HIDE DEF s, id
  <2>6. Elements(s) = Answers \union {id}
    <3>1. ASSUME NEW n \in 1 .. Len(results) + 1 PROVE s[n] \in Answers \union {id}
      <4>1. n \in 1 .. Len(results) \/ n = Len(results) + 1
        BY <2>3
      <4> QED BY <2>3, <2>4, <4>1
    <3>2. Len(results) + 1 \in 1 .. Len(results) + 1
      BY <2>3
    <3>3. ASSUME NEW r \in Answers PROVE \E n \in 1 .. Len(results) + 1 : s[n] = r
      <4>1. PICK n \in 1 .. Len(results) : results[n] = r
        BY <2>3
      <4>2. n \in 1 .. Len(results) + 1
        BY <2>3
      <4> QED BY <2>4, <4>1, <4>2
    <3> QED BY <2>4, <2>5, <3>1, <3>2, <3>3
  <2>7. Increasing(s)
    <3> SUFFICES ASSUME NEW a \in 1 .. Len(results) + 1, NEW n \in 1 .. Len(results) + 1, a < n
                 PROVE  s[a] < s[n]
      BY <2>4 DEF Increasing
    <3>1. a \in 1 .. Len(results)
      BY <2>3
    <3>2. CASE n \in 1 .. Len(results)
      BY <2>4, <3>1, <3>2 DEF Answering, Increasing
    <3>3. CASE n = Len(results) + 1
      BY <2>2, <2>3, <2>4, <3>1, <3>3
    <3> QED BY <2>3, <3>2, <3>3
  <2> QED BY <1>1, <2>1, <2>6, <2>7 DEF s, id
<1> QED BY <1>2, <1>3

\* What a call is at, in a plain turn.
LEMMA WorkingCall ==
    ASSUME PlainInv, NEW c \in Busy
    PROVE  /\ c \in Calls /\ Busy = {c} /\ locked /\ AtWork(call[c]) /\ call[c].i = index
           /\ index \in 1 .. Len(content) /\ loop # "request"
           /\ call[c].at # "batched" => ~ready
           /\ call[c].at = "batched" /\ ready => call[c].last = Len(content)
<1>1. c \in Calls /\ Busy = {c} /\ locked /\ AtWork(call[c]) /\ loop # "request"
  BY DEF PlainInv, Alone, Busy, Course
<1>2. call[c].i = index /\ index \in 1 .. Len(content)
  BY <1>1, ToolsHaveIds DEF AtWork, PlainInv
<1>3. ready => call[c].at = "batched" /\ call[c].last = Len(content)
  <2>1. ~(index > Len(content))
    BY <1>2, ToolsHaveIds DEF PlainInv
  <2> QED BY <1>1, <2>1 DEF PlainInv, Readiness
<1> QED BY <1>1, <1>2, <1>3

\* A call whose handler has come to its end: the results and the index stay in step.
LEMMA FinishAnswers ==
    ASSUME PlainInv, NEW c \in Busy, NEW rdy \in BOOLEAN, Finish(c, rdy),
           call[c].at \in {"work", "preview", "running"},
           rejected => rejected',
           LET advance == ~call[c].block.partial \/ rejected'
           IN  /\ rdy => AtEnd(index) /\ advance
               /\ IF advance /\ IsTool(call[c].block) THEN results' = Answered(call[c].block.id)
                                                      ELSE results' = results
    PROVE  Answering'
<1> DEFINE b == call[c].block
           i == index
           advance == ~b.partial \/ rejected'
<1>1. /\ c \in Calls /\ Busy = {c} /\ call[c].i = i /\ i \in 1 .. Len(content)
      /\ AtItsBlock(i, call[c].at, b)
  BY WorkingCall DEF AtWork
<1>2. TypeOK /\ InOrder /\ Answering /\ Len(content) \in Nat
  BY ToolsHaveIds DEF PlainInv
<1>3. b \in Blocks
  BY <1>2, StageTypes DEF TypeOK, Busy
<1>4. UNCHANGED <<content, didComplete>> /\ index' = IF advance THEN i + 1 ELSE i
  BY <1>1 DEF Finish, loopVars
<1>9. index' <= Len(content') + 1
  BY <1>1, <1>2, <1>4
<1>5. Tools' = Tools /\ CallIds' = CallIds /\ (\A x, y : Quiet(x, y)' = Quiet(x, y))
  BY <1>4 DEF Tools, CallIds, Quiet
<1>6. CASE ~advance
  <2>1. results' = results /\ index' = index
    BY <1>4, <1>6
  <2> QED BY <1>2, <1>4, <1>5, <2>1 DEF Answering, Answers
<1>7. CASE advance /\ ~IsTool(b)
  <2>1. results' = results /\ index' = i + 1
    BY <1>4, <1>7
  <2>2. i \in Tools => content[i].id \in Answers
    BY <1>1, <1>7 DEF AtItsBlock
  <2>3. ASSUME NEW k \in Tools, k < i + 1 PROVE content[k].id \in Answers
    <3>1. k < i \/ k = i
      BY <1>1, <1>2, <2>3, ToolsHaveIds
    <3> QED BY <1>2, <2>2, <3>1 DEF Answering
  <2>4. ASSUME NEW k \in Tools, k >= i + 1, content[k].id \in Answers
        PROVE  didComplete /\ k = Len(content) /\ Quiet(i + 1, k - 1)
    <3>1. k >= i
      BY <1>1, <1>2, <2>4, ToolsHaveIds
    <3>2. didComplete /\ k = Len(content) /\ Quiet(i, k - 1)
      BY <1>2, <2>4, <3>1 DEF Answering
    <3> QED BY <1>1, <3>2 DEF Quiet
  <2> QED BY <1>2, <1>4, <1>5, <1>9, <2>1, <2>3, <2>4 DEF Answering, Answers
<1>8. CASE advance /\ IsTool(b)
  <2>1. results' = Answered(b.id) /\ index' = i + 1
    BY <1>4, <1>8
  <2>2. PICK p \in Tools : HoldsCall(i, b, p)
    BY <1>1, <1>8 DEF AtItsBlock
  <2>3. /\ \A a \in Tools : a < p => content[a].id \in Answers
        /\ Increasing(results') /\ Answers' = Answers \union {b.id}
    BY <1>2, <1>3, <2>1, <2>2, NextAnswer DEF Answers
  <2>4. /\ p >= i /\ content[p].id = b.id /\ Quiet(i, p - 1) /\ p \in Nat
        /\ p # i => didComplete /\ p = Len(content)
    BY <1>2, <2>2, ToolsHaveIds DEF HoldsCall
  <2>5. ASSUME NEW a \in Tools, NEW k \in Tools, a < k, content[k].id \in Answers'
        PROVE  content[a].id \in Answers'
    <3>1. CASE content[k].id \in Answers
      BY <1>2, <2>3, <2>5, <3>1 DEF Answering
    <3>2. CASE content[k].id = b.id
      <4>1. k = p
        BY <1>2, <2>4, <3>2, ToolsDiffer
      <4> QED BY <2>3, <2>5, <4>1
    <3> QED BY <2>3, <2>5, <3>1, <3>2
  <2>6. ASSUME NEW k \in Tools, k < i + 1 PROVE content[k].id \in Answers'
    <3>1. k < i \/ k = i
      BY <1>1, <1>2, <2>6, ToolsHaveIds
    <3>2. CASE k = i
      <4>1. p = i
        <5>1. p # i => i \in i .. (p - 1)
          BY <1>1, <2>4
        <5> QED BY <2>4, <2>6, <3>2, <5>1 DEF Quiet
      <4> QED BY <2>3, <2>4, <3>2, <4>1
    <3> QED BY <1>2, <2>3, <3>1, <3>2 DEF Answering
  <2>7. ASSUME NEW k \in Tools, k >= i + 1, content[k].id \in Answers'
        PROVE  didComplete /\ k = Len(content) /\ Quiet(i + 1, k - 1)
    <3>1. k > i /\ k \in Nat
      BY <1>1, <1>2, <2>7, ToolsHaveIds
    <3>2. didComplete /\ k = Len(content) /\ Quiet(i, k - 1)
      <4>1. CASE content[k].id \in Answers
        BY <1>1, <1>2, <3>1, <4>1 DEF Answering
      <4>2. CASE content[k].id = b.id
        <5>1. k = p
          BY <1>2, <2>4, <4>2, ToolsDiffer
        <5> QED BY <1>1, <2>4, <3>1, <5>1
      <4> QED BY <2>3, <2>7, <4>1, <4>2
    <3> QED BY <1>1, <3>2 DEF Quiet
  <2>8. Answers' \subseteq CallIds
    BY <1>2, <2>3, <2>4 DEF Answering, CallIds
  <2> QED BY <1>4, <1>5, <1>9, <2>1, <2>3, <2>5, <2>6, <2>7, <2>8 DEF Answering
<1> QED BY <1>6, <1>7, <1>8

-----------------------------------------------------------------------------
(* Plain turns: a chunk and the calls of the presenter                     *)

\* Entering the presenter: at most one call is at work, and it took the lock.
LEMMA EnterAlone ==
    ASSUME NEW c \in Calls, NEW lock \in BOOLEAN, NEW rdy \in BOOLEAN, Enter(c, lock, rdy), ~aborted,
           call \in [Calls -> Stages], content' \in Seq(Blocks), index' \in Nat \ {0},
           \A d, e \in Busy \ {c} : d = e,
           lock <=> Busy \ {c} # {},
           \A d \in Busy \ {c}, r \in Stages : r = call[d] => AtWork(r)',
           rdy => \/ index' > Len(content')
                  \/ \E d \in Busy \ {c} : call[d].at = "batched" /\ call[d].last = Len(content')
    PROVE  /\ Alone' /\ Readiness'
           /\ index' > Len(content') => Busy' = Busy \ {c}
<1> DEFINE last == RunEnd(content', index')
           inBounds == index' <= Len(content')
           parallel == inBounds /\ didComplete' /\ last > index'
           w == IF parallel THEN [at |-> "batch", i |-> index', last |-> last, ids |-> <<>>]
                            ELSE [at |-> "work", i |-> index', block |-> content'[index']]
<1>0. Len(content') \in Nat /\ NoCall \in Stages /\ NoCall.at \notin Working
  BY DEF Stages, NoCall, Working
<1>1. ASSUME NEW d \in Busy \ {c}, call'[d] = call[d] PROVE AtWork(call[d])'
  <2>1. call[d] \in Stages
    BY DEF Busy
  <2>2. PICK r \in Stages : r = call[d]
    BY <2>1
  <2>3. AtWork(r)'
    BY <2>2
  <2>4. call'[d] = r
    BY <1>1, <2>2
  <2> QED BY <2>3, <2>4 DEF AtWork, AtItsBlock, AtItsBatch, HoldsCall
<1>2. CASE lock /\ locked' = TRUE /\ ready' = rdy /\ call' = [call EXCEPT ![c] = NoCall]
  <2>1. call'[c] = NoCall /\ \A d \in Calls : d # c => call'[d] = call[d]
    BY <1>0, <1>2, CallsStay
  <2>2. Busy' = Busy \ {c}
    BY <1>0, <2>1 DEF Busy
  <2>3. \A d \in Busy' : AtWork(call[d])'
    BY <1>1, <2>1, <2>2 DEF Busy
  <2>4. Alone'
    BY <1>2, <2>2, <2>3 DEF Alone
  <2>5. Readiness'
    BY <1>2, <2>1, <2>2 DEF Readiness, Busy
  <2> QED BY <2>2, <2>4, <2>5
<1>3. CASE ~lock /\ ~inBounds /\ locked' = FALSE /\ call' = [call EXCEPT ![c] = NoCall]
  <2>1. call'[c] = NoCall /\ \A d \in Calls : d # c => call'[d] = call[d]
    BY <1>0, <1>3, CallsStay
  <2>2. Busy' = {} /\ Busy \ {c} = {}
    BY <1>0, <1>3, <2>1 DEF Busy
  <2>3. index' > Len(content')
    BY <1>0, <1>3
  <2> QED BY <1>3, <2>2, <2>3 DEF Alone, Readiness
<1>4. CASE ~lock /\ inBounds /\ locked' = TRUE /\ ready' = rdy /\ call' = [call EXCEPT ![c] = w]
  <2>0. index' \in 1 .. Len(content') /\ Busy \ {c} = {}
    BY <1>0, <1>4
  <2>1. last \in Nat /\ last <= Len(content')
        /\ \A k \in index' .. last : content'[k].kind = "read" /\ ~content'[k].partial
    <3>1. /\ RunEnd(content', index') \in (index' - 1) .. Len(content')
          /\ \A k \in index' .. RunEnd(content', index') :
                content'[k].kind = "read" /\ ~content'[k].partial
      BY <2>0, RunIsComplete
    <3> QED BY <2>0, <3>1
  <2> HIDE DEF last
  <2>2. w \in Stages /\ w.at \in {"work", "batch"}
    <3>1. content'[index'] \in Blocks
      BY <2>0
    <3>2. <<>> \in Seq(Ids)
      OBVIOUS
    <3>3. CASE parallel
      <4>1. [at |-> "batch", i |-> index', last |-> last, ids |-> <<>>] \in AtBatches
        BY <2>0, <2>1, <3>2 DEF AtBatches
      <4> QED BY <3>3, <4>1 DEF Stages
    <3>4. CASE ~parallel
      <4>1. [at |-> "work", i |-> index', block |-> content'[index']] \in AtBlocks
        BY <2>0, <3>1 DEF AtBlocks
      <4> QED BY <3>4, <4>1 DEF Stages
    <3> QED BY <3>3, <3>4
  <2>3. call'[c] = w /\ \A d \in Calls : d # c => call'[d] = call[d]
    <3> HIDE DEF w
    <3> QED BY <1>4, <2>2, CallsStay
  <2>4. Busy' = {c}
    <3> HIDE DEF w
    <3> QED BY <2>0, <2>2, <2>3 DEF Busy, Working
  <2>5. AtWork(call[c])'
    <3>1. CASE parallel
      <4>1. call'[c] = [at |-> "batch", i |-> index', last |-> last, ids |-> <<>>]
        BY <2>3, <3>1
      <4>2. \A k \in index' .. last : k \in Tools'
        BY <2>0, <2>1 DEF Tools, IsTool
      <4> QED BY <2>0, <2>1, <3>1, <4>1, <4>2 DEF AtWork, AtItsBatch
    <3>2. CASE ~parallel
      <4>1. call'[c] = [at |-> "work", i |-> index', block |-> content'[index']]
        BY <2>3, <3>2
      <4>2. IsTool(content'[index']) <=> index' \in Tools'
        BY <2>0 DEF Tools
      <4>3. \A k \in index' .. (index' - 1) : k \notin Tools'
        <5>1. \A m \in Nat : \A k \in m .. (m - 1) : FALSE
          OBVIOUS
        <5> QED BY <5>1
      <4> QED BY <2>0, <4>1, <4>2, <4>3 DEF AtWork, AtItsBlock, HoldsCall, Quiet
    <3> QED BY <3>1, <3>2
  <2>6. Alone'
    BY <1>4, <2>4, <2>5 DEF Alone
  <2>7. ~rdy
    BY <1>0, <1>4, <2>0
  <2>8. ~(index' > Len(content'))
    BY <1>0, <1>4
  <2> QED BY <1>4, <2>6, <2>7, <2>8 DEF Readiness
<1> QED BY <1>2, <1>3, <1>4 DEF Enter

\* The loop calls the presenter with a call that is not at work.
LEMMA NewCallAlone ==
    ASSUME PlainInv, Free # {}, NEW rdy \in BOOLEAN, Enter(NewCall, locked, rdy),
           content' \in Seq(Blocks), index' = index,
           \A d \in Busy, r \in Stages : r = call[d] => AtWork(r)',
           rdy => \/ index' > Len(content')
                  \/ \E d \in Busy : call[d].at = "batched" /\ call[d].last = Len(content')
    PROVE  Alone' /\ Readiness'
<1>1. NewCall \in Calls /\ Busy \ {NewCall} = Busy
  BY NewCallIsFree DEF Busy, Working
<1>2. /\ call \in [Calls -> Stages] /\ index' \in Nat \ {0} /\ locked \in BOOLEAN /\ ~aborted
      /\ \A d, e \in Busy : d = e
      /\ locked <=> Busy # {}
  BY DEF PlainInv, TypeOK, Course, Alone
<1> HIDE DEF NewCall
<1> QED BY <1>1, <1>2, EnterAlone

\* A chunk: the blocks there are stay what they are, and at most one is new.
LEMMA ChunkStaysPlain ==
    ASSUME PlainInv, TypeOK', NEW new \in Seq(Blocks), Chunk(new),
           \A k \in 1 .. Len(content) : /\ new[k].id = content[k].id /\ new[k].kind = content[k].kind
                                        /\ new[k].partial => content[k].partial,
           \/ Len(new) = Len(content) /\ streamed' = streamed
           \/ /\ Len(new) = Len(content) + 1 /\ streamed' = streamed + 1
              /\ new[Len(new)].id = streamed + 1
              /\ IsTool(new[Len(new)]) => OpenCalls = {}
    PROVE  PlainInv'
<1> DEFINE n == Len(content)
<1>0. /\ TypeOK /\ InOrder /\ Answering /\ Course /\ Alone /\ Readiness
      /\ n \in Nat /\ index \in Nat \ {0} /\ streamed \in Nat
  BY ToolsHaveIds DEF PlainInv, TypeOK
<1>1. /\ content' = new /\ loop = "streaming" /\ ~didComplete /\ loop' \in {"streaming", "broken"}
      /\ UNCHANGED <<aborted, requests, didComplete, dropped, uses, index, toolVars>>
      /\ Enter(NewCall, locked, ready /\ Len(new) = Len(content))
  BY <1>0 DEF Chunk, Course
<1>2. Course' /\ Recorded'
  BY <1>0, <1>1 DEF Course, Recorded
<1>3. ASSUME NEW k \in 1 .. n
      PROVE  (k \in Tools' <=> k \in Tools) /\ content'[k].id = content[k].id /\ k \in 1 .. Len(new)
  BY <1>0, <1>1, <1>3 DEF Tools, IsTool
<1>4. ASSUME NEW k \in Tools', k \notin Tools
      PROVE  /\ k = n + 1 /\ content'[k].id = streamed + 1 /\ streamed' = streamed + 1 /\ OpenCalls = {}
  <2>1. k \in 1 .. Len(new) /\ IsTool(new[k])
    BY <1>1 DEF Tools
  <2>2. k \notin 1 .. n
    BY <1>3, <1>4
  <2> QED BY <1>0, <1>1, <2>1, <2>2
<1>5. Tools \subseteq Tools' /\ (\A k \in Tools : k \in 1 .. n /\ content'[k].id = content[k].id)
  BY <1>3 DEF Tools
<1>6. InOrder'
  <2>1. ASSUME NEW k \in 1 .. Len(new) PROVE content'[k].id <= streamed'
    <3>1. k \in 1 .. n \/ (k = n + 1 /\ Len(new) = n + 1)
      BY <1>0
    <3>2. CASE k \in 1 .. n
      <4>1. content[k].id <= streamed /\ content[k].id \in Nat
        <5>1. content[k] \in Blocks /\ Ids \subseteq Nat
          BY <1>0, <3>2, SPAssumption DEF TypeOK, Ids
        <5> QED BY <1>0, <3>2, <5>1 DEF InOrder, Blocks
      <4> QED BY <1>0, <1>3, <3>2, <4>1
    <3> QED BY <1>0, <1>1, <3>1, <3>2
  <2>2. ASSUME NEW a \in Tools', NEW b \in Tools', a < b PROVE content'[a].id < content'[b].id
    <3>1. CASE b \in Tools
      <4>1. a \in Tools
        BY <1>0, <1>4, <1>5, <2>2, <3>1
      <4> QED BY <1>0, <1>5, <2>2, <3>1, <4>1 DEF InOrder
    <3>2. CASE b \notin Tools
      <4>1. b = n + 1 /\ content'[b].id = streamed + 1
        BY <1>4, <3>2
      <4>2. a \in Tools
        BY <1>0, <1>4, <2>2, <4>1
      <4>3. content'[a].id = content[a].id /\ content[a].id <= streamed /\ content[a].id \in Nat
        BY <1>0, <1>5, <4>2, ToolsHaveIds DEF InOrder
      <4> QED BY <1>0, <4>1, <4>3
    <3> QED BY <3>1, <3>2
  <2>3. ASSUME NEW a \in OpenCalls', NEW b \in Tools' PROVE b <= a
    <3>1. a \in Tools' /\ new[a].partial
      BY <1>1 DEF OpenCalls, Partials, Tools
    <3>2. CASE a \in Tools
      <4>1. a \in OpenCalls
        BY <1>5, <3>1, <3>2 DEF OpenCalls, Partials, Tools
      <4>2. b \in Tools
        BY <1>4, <4>1
      <4> QED BY <1>0, <1>1, <4>1, <4>2 DEF InOrder
    <3>3. CASE a \notin Tools
      BY <1>0, <1>4, <1>5, <3>1, <3>3
    <3> QED BY <3>2, <3>3
  <2> QED BY <1>1, <2>1, <2>2, <2>3 DEF InOrder
<1>7. Answering'
  <2>0. Answers' = Answers /\ index' = index /\ results' = results /\ didComplete' = didComplete
    BY <1>1 DEF toolVars, Answers
  <2>1. Answers \subseteq CallIds'
    BY <1>0, <1>5 DEF Answering, CallIds
  <2>2. ASSUME NEW k \in Tools', content'[k].id \in Answers PROVE k \in Tools /\ content[k].id \in Answers
    <3>1. SUFFICES ASSUME k \notin Tools PROVE FALSE
      BY <1>5, <2>2
    <3>2. content'[k].id = streamed + 1
      BY <1>4, <3>1
    <3>3. PICK a \in Tools : content[a].id = streamed + 1
      BY <1>0, <2>2, <3>2 DEF Answering, CallIds
    <3> QED BY <1>0, <1>5, <3>3 DEF InOrder
  <2>3. ASSUME NEW a \in Tools', NEW b \in Tools', a < b, content'[b].id \in Answers
        PROVE  content'[a].id \in Answers
    <3>1. b \in Tools /\ content[b].id \in Answers
      BY <2>2, <2>3
    <3>2. a \in Tools
      BY <1>0, <1>4, <1>5, <2>3, <3>1
    <3> QED BY <1>0, <1>5, <2>3, <3>1, <3>2 DEF Answering
  <2>4. ASSUME NEW k \in Tools', k < index PROVE content'[k].id \in Answers
    <3>1. k \in Tools
      BY <1>0, <1>4, <2>4 DEF Answering
    <3> QED BY <1>0, <1>5, <2>4, <3>1 DEF Answering
  <2>5. ASSUME NEW k \in Tools', k >= index, content'[k].id \in Answers PROVE FALSE
    BY <1>0, <1>1, <2>2, <2>5 DEF Answering
  <2>6. index' <= Len(content') + 1
    BY <1>0, <1>1 DEF Answering
  <2>7. Increasing(results)
    BY <1>0 DEF Answering
  <2> QED BY <2>0, <2>1, <2>3, <2>4, <2>5, <2>6, <2>7 DEF Answering
<1>8. ASSUME NEW d \in Busy, NEW r \in Stages, r = call[d] PROVE AtWork(r)'
  <2>1. AtWork(r) /\ r.i = index /\ index \in 1 .. n
    BY <1>8, WorkingCall
  <2>2. r.at \notin {"batch", "batched"} /\ AtItsBlock(r.i, r.at, r.block)
    BY <1>1, <2>1 DEF AtWork, AtItsBatch
  <2>3. index \in Tools' <=> index \in Tools
    BY <1>3, <2>1
  <2>4. content'[index].id = content[index].id
    BY <1>3, <2>1
  <2>5. Answers' = Answers /\ rejected' = rejected /\ index' = index /\ didComplete' = didComplete
    BY <1>1 DEF toolVars, Answers
  <2>6. AtItsBlock(index, r.at, r.block)'
    <3>1. IsTool(r.block) => index \in Tools' /\ HoldsCall(index, r.block, index)'
      <4>1. SUFFICES ASSUME IsTool(r.block) PROVE index \in Tools' /\ HoldsCall(index, r.block, index)'
        OBVIOUS
      <4>2. PICK p \in Tools : HoldsCall(index, r.block, p)
        BY <2>1, <2>2, <4>1 DEF AtItsBlock
      <4>3. p = index
        BY <1>1, <2>1, <4>2 DEF HoldsCall
      <4>4. \A k \in index .. (index - 1) : k \notin Tools'
        BY <2>1
      <4> QED BY <2>1, <2>3, <2>4, <2>5, <4>2, <4>3, <4>4 DEF HoldsCall, Quiet
    <3> QED BY <2>1, <2>2, <2>3, <2>4, <2>5, <3>1 DEF AtItsBlock
  <2>7. index <= Len(content')
    BY <1>0, <1>1, <2>1
  <2> QED BY <2>1, <2>2, <2>5, <2>6, <2>7 DEF AtWork
<1>9. Alone' /\ Readiness'
  <2>1. Free # {}
    <3>1. Free = {} => Cardinality(Free) = 0
      BY FS_EmptySet, Zenon
    <3>2. Cardinality(Free) > 1
      BY DEF Chunk
    <3> QED BY <3>1, <3>2
  <2>2. (ready /\ Len(new) = Len(content)) \in BOOLEAN /\ content' \in Seq(Blocks) /\ index' = index
    BY <1>1
  <2>3. ready /\ Len(new) = Len(content) => index' > Len(content')
    <3>1. SUFFICES ASSUME ready, ~(index > n) PROVE FALSE
      BY <1>1
    <3>2. PICK d \in Busy : call[d].at = "batched"
      BY <1>0, <3>1 DEF Readiness
    <3> QED BY <1>0, <1>1, <3>2, WorkingCall DEF AtWork, AtItsBatch
  <2> QED BY <1>1, <1>8, <2>1, <2>2, <2>3, NewCallAlone
<1> QED BY <1>2, <1>6, <1>7, <1>9 DEF PlainInv

-----------------------------------------------------------------------------
(* Plain turns: the end of the stream                                      *)

\* A number of rank n is the n-th.
LEMMA NthOfRank ==
    ASSUME NEW P, IsFiniteSet(P), P \subseteq Nat, NEW p \in P, NEW n \in 1 .. Cardinality(P),
           Rank(P, p) = n
    PROVE  Nth(P, n) = p
<1>1. Nth(P, n) \in P /\ Rank(P, Nth(P, n)) = n
  BY NthIsInOrder
<1>2. \A a, b \in P : a < b => Rank(P, a) < Rank(P, b)
  BY RankIncreases
<1>3. n \in Nat
  BY RankIncreases
<1> DEFINE q == Nth(P, n)
<1> HIDE DEF q
<1>4. q \in P /\ Rank(P, q) = n
  BY <1>1 DEF q
<1>5. ~(p < q) /\ ~(q < p)
  BY <1>2, <1>3, <1>4
<1>6. p = q
  BY <1>4, <1>5
<1> QED BY <1>6 DEF q

\* Two blocks that are the same call or the same text.
SameBlock(a, b) == a.id = b.id /\ a.kind = b.kind

\* When at most one call is open, and it is the last call, the end of the
\* stream moves it to the end of the message and changes nothing else.
LEMMA PlainFinalized ==
    ASSUME TypeOK, InOrder, ~didComplete
    PROVE  LET n == Len(content)
               F == Finalized({})
           IN  /\ Len(F) = n
               /\ \E o \in 1 .. (n + 1) :
                     /\ o <= n => /\ o \in Tools /\ \A k \in Tools : k <= o
                                  /\ SameBlock(F[n], content[o])
                     /\ \A k \in 1 .. n : k < o => SameBlock(F[k], content[k])
                     /\ \A k \in 1 .. n : o <= k /\ k < n => SameBlock(F[k], content[k + 1])
<1> DEFINE n == Len(content)
           F == Finalized({})
           Done(P) == [k \in 1 .. Cardinality(P) |-> [content[Nth(P, k)] EXCEPT !.partial = FALSE]]
           W == (1 .. n) \ OpenCalls
<1>0. /\ content \in Seq(Blocks) /\ n \in Nat
      /\ OpenCalls \in SUBSET Tools /\ Tools \in SUBSET (1 .. n)
      /\ \A a, b \in OpenCalls : b <= a
  <2>1. content \in Seq(Blocks) /\ n \in Nat
    BY DEF TypeOK
  <2>2. OpenCalls \subseteq Tools /\ Tools \subseteq 1 .. n
    BY DEF OpenCalls, Partials, Tools
  <2>3. \A a, b \in OpenCalls : b <= a
    BY <2>2 DEF InOrder
  <2> QED BY <2>1, <2>2, <2>3
<1>1. F = Done(W) \o Done(OpenCalls)
  <2>1. {k \in OpenCalls : content[k].id \notin {}} = OpenCalls
    OBVIOUS
  <2> QED BY <2>1 DEF Finalized
<1>2. ASSUME NEW P \in SUBSET (1 .. n)
      PROVE  /\ IsFiniteSet(P) /\ P \subseteq Nat /\ Cardinality(P) \in Nat
             /\ Done(P) \in Seq(Blocks) /\ Len(Done(P)) = Cardinality(P)
             /\ \A k \in 1 .. Cardinality(P) : Nth(P, k) \in P /\ SameBlock(Done(P)[k], content[Nth(P, k)])
  <2>1. IsFiniteSet(P) /\ P \subseteq Nat /\ Cardinality(P) \in Nat
    BY <1>0, IdsAtTypes
  <2>2. \A k \in 1 .. Cardinality(P) : Nth(P, k) \in P
    BY <2>1, NthIsInOrder
  <2>3. ASSUME NEW k \in 1 .. Cardinality(P)
        PROVE  /\ [content[Nth(P, k)] EXCEPT !.partial = FALSE] \in Blocks
               /\ SameBlock([content[Nth(P, k)] EXCEPT !.partial = FALSE], content[Nth(P, k)])
    <3>0. Nth(P, k) \in 1 .. n
      BY <2>2
    <3>1. content[Nth(P, k)] \in Blocks
      BY <1>0, <3>0
    <3> QED BY <3>1 DEF Blocks, SameBlock
  <2> QED BY <2>1, <2>2, <2>3
<1>3. ASSUME NEW k \in 0 .. n PROVE IsFiniteSet(1 .. k) /\ Cardinality(1 .. k) = k
  <2>1. k \in Int /\ 1 \in Int /\ k >= 0
    BY <1>0
  <2>2. IsFiniteSet(1 .. k) /\ Cardinality(1 .. k) = IF 1 > k THEN 0 ELSE k - 1 + 1
    BY <2>1, FS_Interval
  <2> QED BY <2>1, <2>2
<1>4. CASE OpenCalls = {}
  <2>1. W = 1 .. n /\ Cardinality(W) = n /\ Cardinality(OpenCalls) = 0
    BY <1>0, <1>3, <1>4, FS_EmptySet
  <2>2. ASSUME NEW k \in 1 .. n PROVE Nth(W, k) = k
    <3>1. {q \in W : q <= k} = 1 .. k
      BY <1>0, <2>1
    <3>2. Rank(W, k) = Cardinality(1 .. k)
      BY <3>1, Zenon DEF Rank
    <3>3. Rank(W, k) = k
      BY <1>0, <1>3, <3>2
    <3>4. IsFiniteSet(W) /\ W \subseteq Nat /\ k \in W
      BY <1>2, <2>1
    <3> HIDE DEF W
    <3> QED BY <2>1, <3>3, <3>4, NthOfRank
  <2>3. /\ Done(W) \in Seq(Blocks) /\ Len(Done(W)) = n
        /\ Done(OpenCalls) \in Seq(Blocks) /\ Len(Done(OpenCalls)) = 0
        /\ \A k \in 1 .. n : SameBlock(Done(W)[k], content[k])
    <3>1. W \in SUBSET (1 .. n) /\ OpenCalls \in SUBSET (1 .. n)
      BY <1>0
    <3>2. /\ Done(W) \in Seq(Blocks) /\ Len(Done(W)) = n
          /\ \A k \in 1 .. n : SameBlock(Done(W)[k], content[Nth(W, k)])
      BY <1>2, <2>1, <3>1
    <3>3. Done(OpenCalls) \in Seq(Blocks) /\ Len(Done(OpenCalls)) = 0
      BY <1>2, <2>1, <3>1
    <3> HIDE DEF Done, W
    <3> QED BY <2>2, <3>2, <3>3
  <2> HIDE DEF Done, W, F
  <2>4. Len(F) = n /\ \A k \in 1 .. n : F[k] = Done(W)[k]
    BY <1>0, <1>1, <2>3, ConcatProperties
  <2>5. n + 1 \in 1 .. (n + 1) /\ ~(n + 1 <= n) /\ \A k \in 1 .. n : ~(n + 1 <= k)
    BY <1>0
  <2> QED BY <2>3, <2>4, <2>5 DEF F
<1>5. CASE OpenCalls # {}
  <2>1. PICK o \in OpenCalls : TRUE
    BY <1>5
  <2>2. OpenCalls = {o} /\ o \in 1 .. n /\ o \in Tools
    <3>1. \A b \in OpenCalls : b = o
      <4>1. \A b \in OpenCalls : b <= o /\ o <= b /\ b \in 1 .. n
        BY <1>0, <2>1
      <4> QED BY <1>0, <2>1, <4>1
    <3> QED BY <1>0, <2>1, <3>1
  <2>3. W = (1 .. n) \ {o} /\ Cardinality(W) = n - 1 /\ Cardinality(OpenCalls) = 1
    <3>0. IsFiniteSet(1 .. n) /\ Cardinality(1 .. n) = n
      <4>1. n \in 0 .. n
        BY <1>0
      <4> QED BY <1>3, <4>1
    <3>1. Cardinality((1 .. n) \ {o}) = n - 1
      BY <2>2, <3>0, FS_RemoveElement
    <3>2. Cardinality({o}) = 1
      BY FS_Singleton
    <3> QED BY <2>2, <3>1, <3>2
  <2>4. ASSUME NEW k \in 1 .. n, k < o PROVE k \in 1 .. (n - 1) /\ Nth(W, k) = k
    <3>1. {q \in W : q <= k} = 1 .. k
      BY <1>0, <2>2, <2>3, <2>4
    <3>0. Rank(W, k) = Cardinality(1 .. k)
      BY <3>1, Zenon DEF Rank
    <3>2. Rank(W, k) = k
      BY <1>0, <1>3, <3>0
    <3>3. k \in W /\ k \in 1 .. (n - 1)
      BY <1>0, <2>2, <2>3, <2>4
    <3>4. IsFiniteSet(W) /\ W \subseteq Nat
      BY <1>2
    <3> HIDE DEF W
    <3> QED BY <2>3, <3>2, <3>3, <3>4, NthOfRank
  <2>5. ASSUME NEW k \in 1 .. n, o <= k, k < n PROVE k \in 1 .. (n - 1) /\ Nth(W, k) = k + 1
    <3>1. {q \in W : q <= k + 1} = (1 .. (k + 1)) \ {o}
      BY <1>0, <2>2, <2>3, <2>5
    <3>2. k + 1 \in 0 .. n /\ o \in 1 .. (k + 1)
      BY <1>0, <2>2, <2>5
    <3>3. Cardinality((1 .. (k + 1)) \ {o}) = k
      <4>1. IsFiniteSet(1 .. (k + 1)) /\ Cardinality(1 .. (k + 1)) = k + 1
        BY <1>3, <3>2
      <4>2. Cardinality((1 .. (k + 1)) \ {o}) = (k + 1) - 1
        BY <3>2, <4>1, FS_RemoveElement
      <4> QED BY <4>2
    <3>4. Rank(W, k + 1) = k
      BY <3>1, <3>3 DEF Rank
    <3>5. k + 1 \in W /\ k \in 1 .. (n - 1)
      BY <1>0, <2>2, <2>3, <2>5
    <3>6. IsFiniteSet(W) /\ W \subseteq Nat
      BY <1>2
    <3> HIDE DEF W
    <3> QED BY <2>3, <3>4, <3>5, <3>6, NthOfRank
  <2>6. Nth(OpenCalls, 1) = o
    <3>1. Nth(OpenCalls, 1) \in OpenCalls
      <4>1. OpenCalls \in SUBSET (1 .. n) /\ 1 \in 1 .. Cardinality(OpenCalls)
        BY <1>0, <2>3
      <4> QED BY <1>2, <4>1
    <3> QED BY <2>2, <3>1
  <2>7. /\ Done(W) \in Seq(Blocks) /\ Len(Done(W)) = n - 1
        /\ Done(OpenCalls) \in Seq(Blocks) /\ Len(Done(OpenCalls)) = 1
        /\ SameBlock(Done(OpenCalls)[1], content[o])
        /\ \A k \in 1 .. (n - 1) : SameBlock(Done(W)[k], content[Nth(W, k)])
    <3>1. W \in SUBSET (1 .. n) /\ OpenCalls \in SUBSET (1 .. n) /\ 1 \in 1 .. Cardinality(OpenCalls)
      BY <1>0, <2>3
    <3>2. /\ Done(W) \in Seq(Blocks) /\ Len(Done(W)) = n - 1
          /\ \A k \in 1 .. (n - 1) : SameBlock(Done(W)[k], content[Nth(W, k)])
      BY <1>2, <2>3, <3>1
    <3>3. /\ Done(OpenCalls) \in Seq(Blocks) /\ Len(Done(OpenCalls)) = 1
          /\ SameBlock(Done(OpenCalls)[1], content[Nth(OpenCalls, 1)])
      BY <1>2, <2>3, <3>1
    <3> HIDE DEF Done, W
    <3> QED BY <2>6, <3>2, <3>3
  <2> HIDE DEF Done, W, F
  <2>8. /\ Len(F) = n /\ F[n] = Done(OpenCalls)[1]
        /\ \A k \in 1 .. (n - 1) : F[k] = Done(W)[k]
    <3>1. /\ Len(Done(W) \o Done(OpenCalls)) = (n - 1) + 1
          /\ \A k \in 1 .. (n - 1) + 1 : (Done(W) \o Done(OpenCalls))[k] =
                IF k <= n - 1 THEN Done(W)[k] ELSE Done(OpenCalls)[k - (n - 1)]
      <4>1. /\ Len(Done(W) \o Done(OpenCalls)) = Len(Done(W)) + Len(Done(OpenCalls))
            /\ \A k \in 1 .. Len(Done(W)) + Len(Done(OpenCalls)) : (Done(W) \o Done(OpenCalls))[k] =
                  IF k <= Len(Done(W)) THEN Done(W)[k] ELSE Done(OpenCalls)[k - Len(Done(W))]
        BY <2>7, ConcatProperties
      <4> QED BY <2>7, <4>1
    <3>2. n \in 1 .. (n - 1) + 1 /\ ~(n <= n - 1) /\ n - (n - 1) = 1 /\ (n - 1) + 1 = n
      BY <1>0, <2>2
    <3>3. \A k \in 1 .. (n - 1) : k \in 1 .. (n - 1) + 1 /\ k <= n - 1
      BY <1>0
    <3> QED BY <1>1, <3>1, <3>2, <3>3
  <2>9. \A k \in Tools : k <= o
    BY <2>1 DEF InOrder
  <2>10. o \in 1 .. (n + 1)
    BY <1>0, <2>2
  <2> QED BY <2>2, <2>4, <2>5, <2>7, <2>8, <2>9, <2>10 DEF F
<1> QED BY <1>4, <1>5

\* Without faults the end of the stream drops nothing: Lost is empty.
LEMMA StreamEndsStaysPlain ==
    ASSUME PlainInv, TypeOK', StreamEnds
    PROVE  PlainInv'
<1> DEFINE n == Len(content)
<1>0. /\ TypeOK /\ InOrder /\ Answering /\ Course /\ Alone /\ Readiness
      /\ n \in Nat /\ index \in Nat \ {0} /\ streamed \in Nat
  BY ToolsHaveIds DEF PlainInv, TypeOK
<1>1. /\ loop' = "saving" /\ didComplete' = TRUE /\ ~didComplete
      /\ content' = Finalized({}) /\ dropped' = FALSE
      /\ uses' = IdsAt(Tools)
      /\ UNCHANGED <<aborted, requests, streamed, index, toolVars>>
  <2>1. PICK Lost \in SUBSET {content[k].id : k \in OpenCalls} :
           /\ Lost = {} \/ "malformed" \in Events
           /\ uses' = IdsAt({k \in Tools : content[k].id \notin Lost})
           /\ content' = Finalized(Lost)
           /\ dropped' = (Lost # {})
    BY DEF StreamEnds
  <2>2. Lost = {}
    BY <2>1, PlainEvents
  <2>3. {k \in Tools : content[k].id \notin {}} = Tools
    OBVIOUS
  <2>4. uses' = IdsAt(Tools) /\ content' = Finalized({}) /\ dropped' = FALSE
    BY <2>1, <2>2, <2>3
  <2>5. /\ loop' = "saving" /\ didComplete' = TRUE /\ loop \in {"streaming", "broken"}
        /\ UNCHANGED <<aborted, requests, streamed, index, toolVars>>
    BY DEF StreamEnds
  <2> QED BY <1>0, <2>4, <2>5 DEF Course
<1>2. PICK o \in 1 .. (n + 1) :
         /\ Len(content') = n
         /\ o <= n => /\ o \in Tools /\ \A k \in Tools : k <= o
                      /\ SameBlock(content'[n], content[o])
         /\ \A k \in 1 .. n : k < o => SameBlock(content'[k], content[k])
         /\ \A k \in 1 .. n : o <= k /\ k < n => SameBlock(content'[k], content[k + 1])
  BY <1>0, <1>1, PlainFinalized
<1>3. ASSUME NEW k \in 1 .. n
      PROVE  /\ k < o => (k \in Tools' <=> k \in Tools) /\ content'[k].id = content[k].id
             /\ o <= k /\ k < n => k \notin Tools'
             /\ k = n /\ o <= n => k \in Tools' /\ content'[k].id = content[o].id
  <2>1. k \in Tools' <=> content'[k].kind # "text"
    BY <1>2 DEF Tools, IsTool
  <2>2. \A j \in 1 .. n : j \in Tools <=> content[j].kind # "text"
    BY DEF Tools, IsTool
  <2>3. ASSUME o <= k, k < n PROVE k \notin Tools'
    <3>1. k + 1 \in 1 .. n /\ ~(k + 1 <= o)
      BY <1>0, <2>3
    <3>2. k + 1 \notin Tools
      BY <1>0, <1>2, <2>3, <3>1
    <3> QED BY <1>2, <2>1, <2>2, <2>3, <3>1, <3>2 DEF SameBlock
  <2>4. ASSUME k = n, o <= n PROVE k \in Tools' /\ content'[k].id = content[o].id
    <3>1. o \in 1 .. n
      BY <1>0, <2>4
    <3> QED BY <1>2, <2>1, <2>2, <2>4, <3>1 DEF SameBlock
  <2>5. ASSUME k < o PROVE (k \in Tools' <=> k \in Tools) /\ content'[k].id = content[k].id
    BY <1>2, <2>1, <2>2, <2>5 DEF SameBlock
  <2> QED BY <2>3, <2>4, <2>5
<1>4. ASSUME NEW k \in Tools'
      PROVE  /\ k \in 1 .. n
             /\ \/ k < o /\ k \in Tools /\ content'[k].id = content[k].id
                \/ k = n /\ o <= n /\ o \in Tools /\ content'[k].id = content[o].id
  <2>1. k \in 1 .. n
    BY <1>2 DEF Tools
  <2>2. k < o \/ (o <= k /\ k < n) \/ (k = n /\ o <= n)
    BY <1>0, <2>1
  <2> QED BY <1>2, <1>3, <1>4, <2>1, <2>2
<1>5. ASSUME NEW k \in Tools
      PROVE  \/ k < o /\ k \in Tools' /\ content'[k].id = content[k].id
             \/ k = o /\ o <= n /\ n \in Tools' /\ content'[n].id = content[k].id
  <2>1. k \in 1 .. n
    BY ToolsHaveIds, <1>0
  <2>2. k < o \/ (k = o /\ o <= n)
    BY <1>0, <1>2, <2>1
  <2>3. n \in 1 .. n
    BY <1>0, <2>1
  <2> QED BY <1>3, <1>5, <2>1, <2>2, <2>3
<1>6. CallIds' = CallIds
  <2>1. ASSUME NEW x \in CallIds PROVE x \in CallIds'
    <3>1. PICK k \in Tools : x = content[k].id
      BY DEF CallIds
    <3> QED BY <1>5, <3>1 DEF CallIds
  <2>2. ASSUME NEW x \in CallIds' PROVE x \in CallIds
    <3>1. PICK k \in Tools' : x = content'[k].id
      BY DEF CallIds
    <3> QED BY <1>4, <3>1 DEF CallIds
  <2> QED BY <2>1, <2>2
<1>7. Course' /\ Recorded'
  <2>1. Increasing(uses') /\ Elements(uses') = CallIds
    BY <1>0, <1>1, IdsInOrder DEF CallIds
  <2> QED BY <1>0, <1>1, <1>6, <2>1 DEF Course, Recorded
<1>8. InOrder'
  <2>1. ASSUME NEW k \in 1 .. n PROVE content'[k].id <= streamed
    <3>1. \A j \in 1 .. n : content[j].id <= streamed
      BY <1>0 DEF InOrder
    <3>2. CASE k < o
      BY <1>2, <3>1, <3>2 DEF SameBlock
    <3>3. CASE o <= k /\ k < n
      <4>1. k + 1 \in 1 .. n
        BY <1>0, <3>3
      <4> QED BY <1>2, <3>1, <3>3, <4>1 DEF SameBlock
    <3>4. CASE k = n /\ o <= n
      <4>1. o \in 1 .. n
        BY <1>0, <3>4
      <4> QED BY <1>2, <3>1, <3>4, <4>1 DEF SameBlock
    <3> QED BY <1>0, <3>2, <3>3, <3>4
  <2>2. ASSUME NEW a \in Tools', NEW b \in Tools', a < b PROVE content'[a].id < content'[b].id
    <3>1. a \in 1 .. n /\ b \in 1 .. n /\ a < o /\ a \in Tools /\ content'[a].id = content[a].id
      BY <1>0, <1>4, <2>2
    <3>2. CASE b \in Tools /\ content'[b].id = content[b].id
      BY <1>0, <2>2, <3>1, <3>2 DEF InOrder
    <3>3. CASE o \in Tools /\ content'[b].id = content[o].id
      BY <1>0, <3>1, <3>3 DEF InOrder
    <3> QED BY <1>4, <3>2, <3>3
  <2> QED BY <1>1, <1>2, <2>1, <2>2 DEF InOrder
<1>9. Answering'
  <2>0. Answers' = Answers /\ index' = index /\ results' = results
    BY <1>1 DEF toolVars, Answers
  <2>1. \A k \in Tools : k >= index => content[k].id \notin Answers
    BY <1>0, <1>1 DEF Answering
  <2>2. ASSUME NEW a \in Tools', NEW b \in Tools', a < b, content'[b].id \in Answers
        PROVE  content'[a].id \in Answers
    <3>1. a \in 1 .. n /\ b \in 1 .. n /\ a < o /\ a \in Tools /\ content'[a].id = content[a].id
      BY <1>0, <1>4, <2>2
    <3>2. CASE b \in Tools /\ content'[b].id = content[b].id
      BY <1>0, <2>2, <3>1, <3>2 DEF Answering
    <3>3. CASE o \in Tools /\ content'[b].id = content[o].id
      BY <1>0, <2>2, <3>1, <3>3 DEF Answering
    <3> QED BY <1>4, <3>2, <3>3
  <2>3. ASSUME NEW k \in Tools', k < index PROVE content'[k].id \in Answers
    <3>1. CASE k \in Tools /\ content'[k].id = content[k].id
      BY <1>0, <2>3, <3>1 DEF Answering
    <3>2. CASE k = n /\ o <= n /\ o \in Tools /\ content'[k].id = content[o].id
      <4>1. o < index
        BY <1>0, <2>3, <3>2
      <4> QED BY <1>0, <3>2, <4>1 DEF Answering
    <3> QED BY <1>4, <3>1, <3>2
  <2>4. ASSUME NEW k \in Tools', k >= index, content'[k].id \in Answers
        PROVE  k = n /\ Quiet(index, k - 1)'
    <3>1. k = n /\ o <= n /\ o \in Tools /\ content[o].id \in Answers
      BY <1>4, <2>1, <2>4
    <3>2. o < index
      BY <1>0, <2>1, <3>1
    <3>3. ASSUME NEW j \in index .. (n - 1) PROVE j \notin Tools'
      <4>1. j \in 1 .. n /\ o <= j /\ j < n
        BY <1>0, <3>2
      <4> QED BY <1>3, <4>1
    <3> QED BY <2>0, <3>1, <3>3 DEF Quiet
  <2>5. /\ Increasing(results) /\ Answers \subseteq CallIds' /\ index' <= Len(content') + 1
    BY <1>0, <1>2, <1>6, <2>0 DEF Answering
  <2> QED BY <1>1, <1>2, <2>0, <2>2, <2>3, <2>4, <2>5 DEF Answering
<1>10. ASSUME NEW d \in Busy, NEW r \in Stages, r = call[d] PROVE AtWork(r)'
  <2>0. PICK i \in 1 .. n : i = index
    BY <1>10, WorkingCall
  <2>1. AtWork(r) /\ r.i = i
    BY <1>10, <2>0, WorkingCall
  <2>2. r.at \notin {"batch", "batched"} /\ AtItsBlock(i, r.at, r.block)
    BY <1>1, <2>1 DEF AtWork, AtItsBatch
  <2>3. Answers' = Answers /\ rejected' = rejected /\ index' = i
    BY <1>1, <2>0 DEF toolVars, Answers
  <2>4. ASSUME IsTool(r.block) PROVE \E p \in Tools' : HoldsCall(i, r.block, p)'
    <3>1. PICK p \in Tools : HoldsCall(i, r.block, p)
      BY <2>2, <2>4 DEF AtItsBlock
    <3>2. p = i /\ content[i].id = r.block.id /\ i \in Tools
      BY <1>1, <3>1 DEF HoldsCall
    <3>3. CASE i < o /\ i \in Tools' /\ content'[i].id = content[i].id
      <4>1. \A k \in i .. (i - 1) : k \notin Tools'
        BY <1>0
      <4>2. HoldsCall(i, r.block, i)'
        BY <2>1, <2>3, <3>2, <3>3, <4>1 DEF HoldsCall, Quiet
      <4> QED BY <3>3, <4>2
    <3>4. CASE i = o /\ o <= n /\ n \in Tools' /\ content'[n].id = content[i].id
      <4>0. PICK m \in 1 .. n : m = n
        BY <1>0
      <4>1. ASSUME NEW k \in i .. (m - 1) PROVE k \notin Tools'
        <5>1. k \in 1 .. n /\ o <= k /\ k < n
          BY <1>0, <3>4, <4>0
        <5> QED BY <1>3, <5>1
      <4>2. HoldsCall(i, r.block, m)'
        BY <1>0, <1>1, <1>2, <2>3, <3>2, <3>4, <4>0, <4>1 DEF HoldsCall, Quiet
      <4> QED BY <3>4, <4>0, <4>2
    <3> QED BY <1>5, <3>2, <3>3, <3>4
  <2>5. ASSUME ~IsTool(r.block), i \in Tools' PROVE content'[i].id \in Answers
    <3>1. i \in Tools => content[i].id \in Answers
      BY <2>2, <2>5 DEF AtItsBlock
    <3>2. CASE i = n /\ o <= n /\ o \in Tools /\ content'[i].id = content[o].id
      <4>1. o = i \/ o < i
        BY <1>0, <3>2
      <4> QED BY <1>0, <2>0, <3>1, <3>2, <4>1 DEF Answering
    <3> QED BY <1>4, <2>5, <3>1, <3>2
  <2>6. AtItsBlock(i, r.at, r.block)'
    BY <2>2, <2>3, <2>4, <2>5 DEF AtItsBlock
  <2>7. i <= Len(content')
    BY <1>0, <1>2
  <2> QED BY <2>1, <2>2, <2>3, <2>6, <2>7 DEF AtWork
<1>11. Alone' /\ Readiness'
  <2>1. ready => index > n
    <3>1. SUFFICES ASSUME ready, ~(index > n) PROVE FALSE
      OBVIOUS
    <3>2. PICK d \in Busy : call[d].at = "batched"
      BY <1>0, <3>1 DEF Readiness
    <3> QED BY <1>0, <1>1, <3>2, WorkingCall DEF AtWork, AtItsBatch
  <2>2. CASE Enter(NewCall, locked, ready)
    <3>1. Free # {} /\ content' \in Seq(Blocks) /\ index' = index /\ ready \in BOOLEAN
      BY <1>0, <1>1 DEF StreamEnds, TypeOK
    <3>2. ready => index' > Len(content')
      BY <1>2, <2>1, <3>1
    <3> QED BY <1>10, <2>2, <3>1, <3>2, NewCallAlone
  <2>3. CASE UNCHANGED <<locked, pending, ready, call>>
    <3>1. Busy' = Busy
      BY <2>3 DEF Busy
    <3>2. ASSUME NEW d \in Busy PROVE AtWork(call[d])'
      <4>1. call[d] \in Stages
        BY <1>0 DEF TypeOK, Busy
      <4>2. PICK r \in Stages : r = call[d]
        BY <4>1
      <4>3. AtWork(r)' /\ call'[d] = r
        BY <1>10, <2>3, <4>2
      <4> QED BY <4>3 DEF AtWork, AtItsBlock, AtItsBatch, HoldsCall
    <3>3. Alone'
      BY <1>0, <2>3, <3>1, <3>2 DEF Alone
    <3>4. Readiness'
      BY <1>1, <1>2, <2>1, <2>3 DEF Readiness
    <3> QED BY <3>3, <3>4
  <2> QED BY <2>2, <2>3 DEF StreamEnds
<1> QED BY <1>7, <1>8, <1>9, <1>11 DEF PlainInv

-----------------------------------------------------------------------------
(* Plain turns: the loop                                                   *)

\* The next request leaves when every result is there: nobody is at work then,
\* and the results are those of the calls, in their order.
LEMMA ProceedIsDue ==
    ASSUME PlainInv, Proceed
    PROVE  Busy = {} /\ index > Len(content) /\ results = uses
<1>0. /\ TypeOK /\ InOrder /\ Answering /\ Course /\ Alone /\ Readiness /\ Recorded
      /\ ready /\ loop = "waiting"
      /\ Elements(uses) \subseteq Answers /\ Increasing(uses) /\ Elements(uses) = CallIds
  BY DEF PlainInv, Proceed, Recorded, Course, Answers
<1>1. index > Len(content)
  <2>1. SUFFICES ASSUME ~(index > Len(content)) PROVE FALSE
    OBVIOUS
  <2>2. PICK d \in Busy : call[d].at = "batched"
    BY <1>0, <2>1 DEF Readiness
  <2>3. AtWork(call[d]) /\ call[d].i = index /\ index \in 1 .. Len(content)
    BY <2>2, WorkingCall
  <2>4. /\ index < call[d].last /\ call[d].last <= Len(content)
        /\ \A k \in index .. call[d].last : k \in Tools
    BY <2>2, <2>3 DEF AtWork, AtItsBatch
  <2>5. call[d].last \in Nat
    BY <1>0, <2>2, StageTypes DEF TypeOK, Busy
  <2>6. index \in Tools
    BY <2>3, <2>4, <2>5
  <2>7. content[index].id \in Answers
    BY <1>0, <2>6 DEF CallIds
  <2>8. index = Len(content)
    BY <1>0, <2>3, <2>6, <2>7 DEF Answering
  <2> QED BY <2>3, <2>4, <2>5, <2>8
<1>2. Busy = {}
  <2>1. ASSUME NEW d \in Busy PROVE FALSE
    BY <1>0, <1>1, WorkingCall, ToolsHaveIds
  <2> QED BY <2>1
<1>3. results = uses
  <2>1. results \in Seq(Nat) /\ uses \in Seq(Nat)
    <3>1. results \in Seq(Ids) /\ uses \in Seq(Ids) /\ Ids \subseteq Nat
      BY <1>0, SPAssumption DEF TypeOK, Ids
    <3> QED BY <3>1, SeqMonotonic
  <2>2. Elements(results) = Elements(uses)
    BY <1>0 DEF Answering, Answers
  <2>3. Increasing(results)
    BY <1>0 DEF Answering
  <2> QED BY <1>0, <2>1, <2>2, <2>3, IncreasingAreEqual
<1> QED BY <1>1, <1>2, <1>3

\* A step of the loop that leaves the blocks and the presenter alone.
LEMMA LoopWaits ==
    ASSUME PlainInv, TypeOK',
           UNCHANGED <<aborted, streamed, content, didComplete, dropped, uses, toolVars,
                       index, locked, pending, ready, call>>,
           loop' \in {"saving", "waiting"} => loop \in {"saving", "waiting"},
           loop' \notin {"streaming", "broken"},
           loop' = "request" => Busy = {} /\ index > Len(content)
    PROVE  PlainInv'
<1>1. Busy' = Busy
  BY DEF Busy
<1>2. Course'
  BY <1>1 DEF PlainInv, Course
<1>3. InOrder'
  BY DEF PlainInv, InOrder, Tools, OpenCalls, Partials
<1>4. Answering'
  BY DEF PlainInv, Answering, Tools, Answers, CallIds, Quiet, toolVars
<1>5. Alone'
  <2>1. ASSUME NEW c \in Busy PROVE AtWork(call[c])'
    <3>1. AtWork(call[c])
      BY DEF PlainInv, Alone
    <3> QED BY <3>1 DEF AtWork, AtItsBlock, AtItsBatch, HoldsCall, Quiet, Tools, Answers, toolVars
  <2> QED BY <1>1, <2>1 DEF PlainInv, Alone
<1>6. Readiness'
  BY <1>1 DEF PlainInv, Readiness
<1>7. Recorded'
  BY DEF PlainInv, Recorded, CallIds, Tools
<1> QED BY <1>2, <1>3, <1>4, <1>5, <1>6, <1>7 DEF PlainInv

\* Every step of the stream loop keeps the plain turn's invariant.
LEMMA LoopStaysPlain ==
    ASSUME PlainInv, TypeOK', Loop
    PROVE  PlainInv'
<1>0. /\ TypeOK /\ Course /\ content \in Seq(Blocks) /\ Len(content) \in Nat /\ streamed \in Nat
  BY ToolsHaveIds DEF PlainInv, TypeOK
<1>1. CASE Request
  <2>1. /\ Busy = {} /\ loop' = "streaming" /\ didComplete' = FALSE /\ content' = <<>> /\ results' = <<>>
        /\ index' = 1 /\ dropped' = FALSE /\ ready' = FALSE /\ locked' = FALSE
        /\ UNCHANGED <<aborted, streamed, call>>
    BY <1>0, <1>1 DEF Request, Reset, Course
  <2>2. Len(content') = 0 /\ Len(results') = 0 /\ 1 .. 0 = {}
    BY <2>1
  <2>3. Tools' = {} /\ OpenCalls' = {} /\ Busy' = {} /\ Answers' = {}
    BY <2>1, <2>2 DEF Tools, OpenCalls, Partials, Busy, Answers, Elements
  <2>4. InOrder'
    BY <2>2, <2>3 DEF InOrder
  <2>5. Answering'
    BY <2>1, <2>2, <2>3 DEF Answering, Increasing
  <2>6. Course' /\ Readiness' /\ Recorded'
    BY <1>0, <2>1 DEF Course, Readiness, Recorded
  <2>7. Alone'
    <3>1. Busy' = {} /\ ~locked'
      BY <2>1, <2>3
    <3>2. \A c, d \in Busy' : c = d
      BY <3>1
    <3>3. locked' <=> Busy' # {}
      BY <3>1
    <3>4. \A c \in Busy' : AtWork(call[c])'
      BY <3>1
    <3> QED BY <3>2, <3>3, <3>4 DEF Alone
  <2> QED BY <2>4, <2>5, <2>6, <2>7 DEF PlainInv
<1>2. CASE TextChunk
  <2>1. NextBlock("text", TRUE) \in Blocks
    BY <1>0, <1>2, ChunkTypes DEF TextChunk, Kinds
  <2>0. PICK b \in Blocks : b = NextBlock("text", TRUE)
    BY <2>1
  <2> DEFINE new == Append(content, b)
  <2>2. /\ new \in Seq(Blocks) /\ Len(new) = Len(content) + 1 /\ new[Len(content) + 1] = b
        /\ \A k \in 1 .. Len(content) : new[k] = content[k]
    BY <1>0, AppendProperties
  <2>3. b.id = streamed + 1 /\ ~IsTool(b)
    BY <2>0 DEF NextBlock, IsTool
  <2>4. Chunk(new) /\ streamed' = streamed + 1
    BY <1>2, <2>0 DEF TextChunk
  <2> HIDE DEF new
  <2> QED BY <2>2, <2>3, <2>4, ChunkStaysPlain
<1>3. CASE CallChunk
  <2>1. PICK kind \in {"read", "act"}, partial \in BOOLEAN :
           Chunk(Append(CompleteText, NextBlock(kind, partial)))
    BY <1>3 DEF CallChunk
  <2>2. /\ NextBlock(kind, partial) \in Blocks /\ CompleteText \in Seq(Blocks)
        /\ Len(CompleteText) = Len(content)
    BY <1>0, <1>3, ChunkTypes DEF CallChunk, Kinds
  <2>8. PICK b \in Blocks : b = NextBlock(kind, partial)
    BY <2>2
  <2> DEFINE new == Append(CompleteText, b)
  <2>3. /\ new \in Seq(Blocks) /\ Len(new) = Len(content) + 1
        /\ new[Len(content) + 1] = b
        /\ \A k \in 1 .. Len(content) : new[k] = CompleteText[k]
    BY <2>2, AppendProperties
  <2>4. ASSUME NEW k \in 1 .. Len(content)
        PROVE  /\ CompleteText[k].id = content[k].id /\ CompleteText[k].kind = content[k].kind
               /\ CompleteText[k].partial => content[k].partial
    <3>1. content[k] \in Blocks
      BY <1>0
    <3>2. CompleteText[k] = IF IsTool(content[k]) THEN content[k]
                                                  ELSE [content[k] EXCEPT !.partial = FALSE]
      BY DEF CompleteText
    <3> QED BY <3>1, <3>2 DEF Blocks
  <2>5. b.id = streamed + 1
    BY <2>8 DEF NextBlock
  <2>6. OpenCalls = {} /\ streamed' = streamed + 1
    BY <1>3, PlainEvents DEF CallChunk
  <2>7. Chunk(new)
    BY <2>1, <2>8
  <2> HIDE DEF new
  <2> QED BY <2>3, <2>4, <2>5, <2>6, <2>7, ChunkStaysPlain
<1>4. CASE MoreChunk
  <2>1. streamed' = streamed
    BY <1>4 DEF MoreChunk
  <2>2. CASE Chunk(content)
    BY <1>0, <2>1, <2>2, ChunkStaysPlain
  <2>3. ASSUME NEW o \in OpenCalls, Chunk([content EXCEPT ![o].partial = FALSE]) PROVE PlainInv'
    <3> DEFINE new == [content EXCEPT ![o].partial = FALSE]
    <3>1. new \in Seq(Blocks) /\ Len(new) = Len(content)
      BY <1>0, ChunkTypes
    <3>3. DOMAIN content = 1 .. Len(content) /\ o \in 1 .. Len(content)
      BY <1>0 DEF OpenCalls, Partials
    <3>2. ASSUME NEW k \in 1 .. Len(content)
          PROVE  /\ new[k].id = content[k].id /\ new[k].kind = content[k].kind
                 /\ new[k].partial => content[k].partial
      <4>1. content[k] \in Blocks
        BY <1>0
      <4>2. CASE k = o
        <5>1. new[k] = [content[k] EXCEPT !.partial = FALSE]
          BY <3>3, <4>2
        <5> QED BY <4>1, <5>1 DEF Blocks
      <4>3. CASE k # o
        <5>1. new[k] = content[k]
          BY <1>0, <4>3
        <5> QED BY <5>1
      <4> QED BY <4>2, <4>3
    <3> HIDE DEF new
    <3> QED BY <2>1, <2>3, <3>1, <3>2, ChunkStaysPlain DEF new
  <2> QED BY <1>4, <2>2, <2>3 DEF MoreChunk
<1>5. CASE StreamEnds
  BY <1>5, StreamEndsStaysPlain
<1>6. CASE Saved
  <2>1. /\ loop = "saving" /\ loop' \in {"done", "waiting"}
        /\ UNCHANGED <<aborted, streamed, content, didComplete, dropped, uses, toolVars,
                       index, locked, pending, ready, call>>
    BY <1>0, <1>6 DEF Saved, Course
  <2> QED BY <2>1, LoopWaits
<1>7. CASE Proceed
  <2>1. /\ loop = "waiting" /\ loop' \in {"done", "request"}
        /\ UNCHANGED <<aborted, streamed, content, didComplete, dropped, uses, toolVars,
                       index, locked, pending, ready, call>>
    BY <1>7 DEF Proceed
  <2> QED BY <1>7, <2>1, ProceedIsDue, LoopWaits
<1>8. ~Restart /\ ~AbortTask /\ ~TurnAborts
  BY <1>0, PlainEvents DEF Restart, AbortTask, TurnAborts, Course
<1> QED BY <1>1, <1>2, <1>3, <1>4, <1>5, <1>6, <1>7, <1>8 DEF Loop

-----------------------------------------------------------------------------
(* Plain turns: the presenter                                              *)

\* The end of a block's handler: whether or not the block is over, the lock is free.
LEMMA FinishStaysPlain ==
    ASSUME PlainInv, TypeOK', NEW c \in Busy, NEW rdy \in BOOLEAN, Finish(c, rdy),
           call[c].at \in {"work", "preview", "running"},
           rejected => rejected',
           LET advance == ~call[c].block.partial \/ rejected'
           IN  /\ rdy => AtEnd(index) /\ advance
               /\ IF advance /\ IsTool(call[c].block) THEN results' = Answered(call[c].block.id)
                                                      ELSE results' = results
    PROVE  PlainInv'
<1> DEFINE advance == ~call[c].block.partial \/ rejected'
<1>0. /\ c \in Calls /\ Busy = {c} /\ call[c].i = index /\ index \in 1 .. Len(content)
      /\ ~ready /\ loop # "request" /\ Len(content) \in Nat /\ call \in [Calls -> Stages]
  BY WorkingCall, ToolsHaveIds DEF PlainInv, TypeOK
<1>1. /\ UNCHANGED loopVars /\ locked' = FALSE
      /\ index' = IF advance THEN index + 1 ELSE index
  BY <1>0 DEF Finish
<1>2. Answering'
  BY FinishAnswers
<1>3. Busy' = {}
  <2>1. PICK q \in {NoCall, [at |-> "yield"]} : call' = [call EXCEPT ![c] = q]
    BY DEF Finish
  <2>2. q \in Stages /\ q.at \notin Working
    BY DEF Stages, NoCall, Working
  <2>3. call'[c] = q /\ \A d \in Calls : d # c => call'[d] = call[d]
    BY <1>0, <2>1, <2>2, CallsStay
  <2> QED BY <1>0, <2>2, <2>3 DEF Busy
<1>4. Alone'
  <2>1. \A d \in Busy' : AtWork(call[d])'
    BY <1>3
  <2> QED BY <1>1, <1>3, <2>1 DEF Alone
<1>5. Readiness'
  <2>1. ready' => advance /\ index = Len(content)
    BY <1>0 DEF Finish, AtEnd
  <2>2. content' = content
    BY <1>1 DEF loopVars
  <2> QED BY <1>0, <1>1, <2>1, <2>2 DEF Readiness
<1>6. Course' /\ InOrder' /\ Recorded'
  BY <1>0, <1>1 DEF PlainInv, Course, InOrder, Recorded, CallIds, Tools, OpenCalls, Partials, loopVars
<1> QED BY <1>2, <1>4, <1>5, <1>6 DEF PlainInv

\* A call that goes on with its block.
LEMMA StageStaysPlain ==
    ASSUME PlainInv, TypeOK', NEW c \in Busy, NEW s \in {"preview", "running"},
           call[c].at = "work", call' = [call EXCEPT ![c].at = s], IsTool(call[c].block),
           s = "preview" => ~rejected /\ call[c].block.partial,
           s = "running" => ~call[c].block.partial,
           UNCHANGED <<loopVars, rejected, results, index, locked, pending, ready>>
    PROVE  PlainInv'
<1>0. /\ c \in Calls /\ Busy = {c} /\ AtWork(call[c]) /\ locked /\ ~ready
      /\ loop # "request" /\ call \in [Calls -> Stages]
  BY WorkingCall DEF PlainInv, TypeOK
<1>1. call[c] \in AtBlocks
  BY <1>0, StageTypes
<1>2. /\ call'[c].at = s /\ call'[c].i = call[c].i /\ call'[c].block = call[c].block
      /\ \A d \in Calls : d # c => call'[d] = call[d]
  BY <1>0, <1>1, BlockStage
<1>3. Busy' = {c}
  BY <1>0, <1>2 DEF Busy, Working
<1>4. AtWork(call[c])'
  <2>1. call[c].i = index /\ index <= Len(content) /\ AtItsBlock(call[c].i, "work", call[c].block)
    BY <1>0 DEF AtWork
  <2>2. \E p \in Tools : HoldsCall(call[c].i, call[c].block, p)
    BY <2>1 DEF AtItsBlock
  <2> QED BY <1>2, <2>1, <2>2
          DEF AtWork, AtItsBlock, HoldsCall, Quiet, Tools, loopVars
<1>5. Alone'
  BY <1>0, <1>3, <1>4 DEF Alone
<1>6. Course' /\ InOrder' /\ Answering' /\ Readiness' /\ Recorded'
  <2>1. Course' /\ InOrder' /\ Recorded'
    BY <1>0 DEF PlainInv, Course, InOrder, Recorded, CallIds, Tools, OpenCalls, Partials, loopVars
  <2>2. Answering'
    BY DEF PlainInv, Answering, Answers, CallIds, Tools, Quiet, loopVars
  <2> QED BY <1>0, <2>1, <2>2 DEF Readiness
<1> QED BY <1>5, <1>6 DEF PlainInv

\* The workers of a batch: nothing is committed, but it may be ready.
LEMMA BatchStaysPlain ==
    ASSUME PlainInv, TypeOK', NEW c \in Busy, RunBatch(c)
    PROVE  PlainInv'
<1>0. /\ c \in Calls /\ Busy = {c} /\ AtWork(call[c]) /\ call[c].i = index /\ locked /\ ~ready
      /\ index \in 1 .. Len(content) /\ loop # "request" /\ call \in [Calls -> Stages]
      /\ call[c].at = "batch" /\ TypeOK /\ InOrder
  BY WorkingCall DEF PlainInv, TypeOK, RunBatch
<1>1. /\ call[c] \in AtBatches /\ call[c].last \in Nat
      /\ didComplete /\ index < call[c].last /\ call[c].last <= Len(content)
      /\ \A k \in index .. call[c].last : k \in Tools /\ ~content[k].partial
  BY <1>0, StageTypes DEF AtWork, AtItsBatch
<1> DEFINE P == {k \in Tools : k \in call[c].i .. call[c].last /\ ~content[k].partial}
           r == [call[c] EXCEPT !.at = "batched", !.ids = IdsAt(P)]
<1>2. P = index .. call[c].last
  BY <1>0, <1>1
<1>3. Increasing(IdsAt(P)) /\ Elements(IdsAt(P)) = {content[k].id : k \in index .. call[c].last}
  <2>1. P \in SUBSET Tools
    OBVIOUS
  <2> HIDE DEF P
  <2> QED BY <1>0, <1>2, <2>1, IdsInOrder
<1>4. /\ call' = [call EXCEPT ![c] = r]
      /\ ready' => AtEnd(call[c].last)
      /\ UNCHANGED <<loopVars, rejected, results, index, locked, pending>>
  <2>1. call' = [call EXCEPT ![c] = r]
    BY <1>0 DEF RunBatch
  <2>2. ready' => AtEnd(call[c].last)
    BY <1>0 DEF RunBatch
  <2>3. UNCHANGED <<loopVars, rejected, results, index, locked, pending>>
    BY DEF RunBatch
  <2> QED BY <2>1, <2>2, <2>3
<1>5. /\ r \in Stages /\ r.at = "batched" /\ r.i = index /\ r.last = call[c].last
      /\ r.ids = IdsAt(P)
  <2>1. IdsAt(P) \in Seq(Ids)
    BY <1>0, IdsAtTypes DEF Tools, TypeOK
  <2> HIDE DEF P
  <2> QED BY <1>0, <1>1, <2>1 DEF AtBatches, Stages
<1> HIDE DEF r, P
<1>6. call'[c] = r /\ \A d \in Calls : d # c => call'[d] = call[d]
  BY <1>0, <1>4, <1>5, CallsStay
<1>7. Busy' = {c}
  BY <1>0, <1>5, <1>6 DEF Busy, Working
<1>8. AtWork(call[c])'
  <2>1. /\ call'[c].at = "batched" /\ call'[c].i = index' /\ call'[c].last = call[c].last
        /\ call'[c].ids = IdsAt(P) /\ index' = index /\ content' = content /\ didComplete'
        /\ Tools' = Tools
    BY <1>1, <1>4, <1>5, <1>6 DEF loopVars, Tools
  <2> QED BY <1>0, <1>1, <1>3, <2>1 DEF AtWork, AtItsBatch
<1>9. Alone'
  BY <1>0, <1>4, <1>7, <1>8 DEF Alone
<1>10. Readiness'
  <2>1. ready' => call'[c].at = "batched" /\ call'[c].last = Len(content')
    <3>1. Len(content) \in Nat /\ content' = content
      BY <1>0, <1>4, ToolsHaveIds DEF loopVars
    <3> QED BY <1>1, <1>4, <1>5, <1>6, <3>1 DEF AtEnd
  <2> QED BY <1>7, <2>1 DEF Readiness
<1>11. Course' /\ InOrder' /\ Recorded'
  BY <1>0, <1>4 DEF PlainInv, Course, InOrder, Recorded, CallIds, Tools, OpenCalls, Partials, loopVars
<1>12. Answering'
  BY <1>4 DEF PlainInv, Answering, Answers, CallIds, Tools, Quiet, loopVars
<1> QED BY <1>9, <1>10, <1>11, <1>12 DEF PlainInv

\* The results of a batch follow those of the calls before it.
LEMMA CommitAnswers ==
    ASSUME PlainInv, NEW c \in Busy, CommitBatch(c)
    PROVE  Answering' /\ (index' > Len(content) <=> call[c].last = Len(content))
<1> DEFINE ids == call[c].ids
           last == call[c].last
<1>0. /\ AtWork(call[c]) /\ call[c].i = index /\ index \in 1 .. Len(content)
      /\ call[c].at = "batched" /\ TypeOK /\ InOrder /\ Answering /\ Len(content) \in Nat
  BY WorkingCall, ToolsHaveIds DEF PlainInv, CommitBatch
<1>1. /\ last \in Nat /\ ids \in Seq(Ids) /\ index < last /\ last <= Len(content)
      /\ \A k \in index .. last : k \in Tools
      /\ Increasing(ids) /\ Elements(ids) = {content[k].id : k \in index .. last}
  <2>1. c \in Calls
    BY DEF Busy
  <2> QED BY <1>0, <2>1, StageTypes DEF AtWork, AtItsBatch, TypeOK
<1>2. results' = results \o ids /\ index' = last + 1 /\ UNCHANGED loopVars
  BY DEF CommitBatch
<1> HIDE DEF ids, last
<1>3. /\ results \in Seq(Nat) /\ ids \in Seq(Nat) /\ Len(results) \in Nat /\ Len(ids) \in Nat
      /\ \A n \in 1 .. Len(results) : results[n] \in Answers /\ results[n] \in Nat
      /\ \A n \in 1 .. Len(ids) : ids[n] \in Elements(ids) /\ ids[n] \in Nat
      /\ Elements(ids) \subseteq Nat
  <2>1. Ids \subseteq Nat
    BY SPAssumption DEF Ids
  <2>2. ids \in Seq(Nat)
    BY <1>1, <2>1, SeqMonotonic
  <2> QED BY <1>0, <2>2, ResultTypes DEF Elements
<1>4. ASSUME NEW x \in index .. last PROVE content[x].id \notin Answers
  <2>1. SUFFICES ASSUME content[x].id \in Answers PROVE FALSE
    OBVIOUS
  <2>2. index \in Tools /\ x \in Tools /\ index \in index .. last
    BY <1>0, <1>1
  <2>3. content[index].id \in Answers
    <3>1. x = index \/ index < x
      BY <1>0, <1>1
    <3> QED BY <1>0, <2>1, <2>2, <3>1 DEF Answering
  <2> QED BY <1>0, <1>1, <2>2, <2>3 DEF Answering
<1>5. ASSUME NEW a \in Answers, NEW b \in Elements(ids) PROVE a < b
  <2>1. PICK k \in Tools : content[k].id = a
    BY <1>0 DEF Answering, CallIds
  <2>2. PICK x \in index .. last : content[x].id = b
    BY <1>1
  <2>3. k \in Nat /\ x \in Tools /\ x \in Nat
    BY <1>0, <1>1, ToolsHaveIds
  <2>4. ~(x <= k)
    <3>1. SUFFICES ASSUME x <= k PROVE FALSE
      OBVIOUS
    <3>2. x = k \/ x < k
      BY <2>3, <3>1
    <3>3. content[x].id \in Answers
      BY <1>0, <2>1, <2>3, <3>2 DEF Answering
    <3> QED BY <1>4, <3>3
  <2>5. k < x
    BY <2>3, <2>4
  <2> QED BY <1>0, <2>1, <2>2, <2>3, <2>5 DEF InOrder
<1> DEFINE s == results \o ids
<1>6. /\ Len(s) = Len(results) + Len(ids)
      /\ \A n \in 1 .. Len(results) + Len(ids) :
            s[n] = IF n <= Len(results) THEN results[n] ELSE ids[n - Len(results)]
  BY <1>3, ConcatProperties
<1> HIDE DEF s
<1>7. Increasing(s)
  <2> SUFFICES ASSUME NEW a \in 1 .. Len(results) + Len(ids), NEW b \in 1 .. Len(results) + Len(ids), a < b
               PROVE  s[a] < s[b]
    BY <1>6 DEF Increasing
  <2>1. CASE b <= Len(results)
    <3>1. a \in 1 .. Len(results) /\ b \in 1 .. Len(results)
      BY <1>3, <2>1
    <3> QED BY <1>0, <1>6, <2>1, <3>1 DEF Answering, Increasing
  <2>2. CASE ~(b <= Len(results)) /\ a <= Len(results)
    <3>1. a \in 1 .. Len(results) /\ b - Len(results) \in 1 .. Len(ids)
      BY <1>3, <2>2
    <3> QED BY <1>3, <1>5, <1>6, <2>2, <3>1
  <2>3. CASE ~(b <= Len(results)) /\ ~(a <= Len(results))
    <3>1. /\ a - Len(results) \in 1 .. Len(ids) /\ b - Len(results) \in 1 .. Len(ids)
          /\ a - Len(results) < b - Len(results)
      BY <1>3, <2>3
    <3> QED BY <1>1, <1>6, <2>3, <3>1 DEF Increasing
  <2> QED BY <2>1, <2>2, <2>3
<1>8. Elements(s) = Answers \union Elements(ids)
  <2>1. ASSUME NEW n \in 1 .. Len(s) PROVE s[n] \in Answers \union Elements(ids)
    <3>1. n <= Len(results) => n \in 1 .. Len(results)
      BY <1>3, <1>6
    <3>2. ~(n <= Len(results)) => n - Len(results) \in 1 .. Len(ids)
      BY <1>3, <1>6
    <3> QED BY <1>3, <1>6, <3>1, <3>2
  <2>2. ASSUME NEW n \in 1 .. Len(results) PROVE n \in 1 .. Len(s) /\ s[n] = results[n]
    BY <1>3, <1>6
  <2>3. ASSUME NEW n \in 1 .. Len(ids)
        PROVE  n + Len(results) \in 1 .. Len(s) /\ s[n + Len(results)] = ids[n]
    <3>1. /\ n + Len(results) \in 1 .. Len(results) + Len(ids) /\ ~(n + Len(results) <= Len(results))
          /\ (n + Len(results)) - Len(results) = n
      BY <1>3
    <3>2. s[n + Len(results)] = ids[(n + Len(results)) - Len(results)]
      BY <1>6, <3>1
    <3> QED BY <1>6, <3>1, <3>2
  <2>4. /\ Answers = {results[n] : n \in 1 .. Len(results)}
        /\ Elements(ids) = {ids[n] : n \in 1 .. Len(ids)}
        /\ Elements(s) = {s[n] : n \in 1 .. Len(s)}
    BY DEF Answers, Elements
  <2> HIDE DEF Answers, Elements
  <2>5. ASSUME NEW x \in Answers PROVE x \in Elements(s)
    BY <2>2, <2>4
  <2>6. ASSUME NEW x \in Elements(ids) PROVE x \in Elements(s)
    <3>1. PICK n \in 1 .. Len(ids) : x = ids[n]
      BY <2>4
    <3> QED BY <2>3, <2>4, <3>1
  <2>7. ASSUME NEW x \in Elements(s) PROVE x \in Answers \union Elements(ids)
    BY <2>1, <2>4
  <2> QED BY <2>5, <2>6, <2>7
<1>9. /\ results' = s /\ content' = content /\ didComplete' = didComplete
      /\ Tools' = Tools /\ CallIds' = CallIds
      /\ Answers' = Answers \union {content[k].id : k \in index .. last}
  <2>1. results' = s /\ content' = content /\ didComplete' = didComplete
    BY <1>2 DEF s, loopVars
  <2> QED BY <1>1, <1>8, <2>1 DEF Tools, CallIds, Answers
<1>10. ASSUME NEW k \in Tools PROVE content[k].id \in Answers' <=> content[k].id \in Answers \/ k \in index .. last
  <2>1. ASSUME NEW x \in index .. last, content[x].id = content[k].id PROVE x = k
    BY <1>0, <1>1, <2>1, ToolsDiffer
  <2> QED BY <1>9, <2>1
<1>11. ASSUME NEW k \in Tools, k < last + 1 PROVE content[k].id \in Answers'
  <2>1. k < index \/ k \in index .. last
    BY <1>0, <1>1, <1>11, ToolsHaveIds
  <2> QED BY <1>0, <1>10, <2>1 DEF Answering
<1>12. ASSUME NEW k \in Tools, k >= last + 1, content[k].id \in Answers' PROVE FALSE
  <2>1. k \in Nat /\ ~(k \in index .. last) /\ index < k /\ index \in index .. last
    BY <1>0, <1>1, <1>12, ToolsHaveIds
  <2>2. content[k].id \in Answers
    BY <1>10, <1>12, <2>1
  <2>3. content[index].id \in Answers
    BY <1>0, <1>1, <2>1, <2>2 DEF Answering
  <2> QED BY <1>4, <2>1, <2>3
<1>13. ASSUME NEW a \in Tools, NEW b \in Tools, a < b, content[b].id \in Answers' PROVE content[a].id \in Answers'
  <2>1. b < last + 1
    BY <1>1, <1>12, <1>13, <1>0, ToolsHaveIds
  <2>2. a < last + 1
    BY <1>0, <1>1, <1>13, <2>1, ToolsHaveIds
  <2> QED BY <1>11, <2>2
<1>14. Answers' \subseteq CallIds
  <2>1. \A k \in index .. last : content[k].id \in CallIds
    BY <1>1 DEF CallIds
  <2> QED BY <1>0, <1>9, <2>1 DEF Answering
<1>15. index' <= Len(content') + 1 /\ (index' > Len(content) <=> last = Len(content))
  BY <1>0, <1>1, <1>2, <1>9
<1>16. Answering'
  BY <1>2, <1>7, <1>9, <1>11, <1>12, <1>13, <1>14, <1>15 DEF Answering
<1> QED BY <1>15, <1>16 DEF last

\* After a batch the presenter goes on with the next block, or it is done.
LEMMA CommitStaysPlain ==
    ASSUME PlainInv, TypeOK', NEW c \in Busy, CommitBatch(c)
    PROVE  PlainInv'
<1>0. /\ c \in Calls /\ Busy = {c} /\ loop # "request" /\ call \in [Calls -> Stages]
      /\ ~aborted /\ Busy \ {c} = {} /\ ready \in BOOLEAN
      /\ ready => call[c].last = Len(content)
  BY WorkingCall DEF PlainInv, TypeOK, CommitBatch, Course
<1>1. Answering' /\ (index' > Len(content) <=> call[c].last = Len(content))
  BY CommitAnswers
<1>2. UNCHANGED loopVars /\ content' = content
  BY DEF CommitBatch, loopVars
<1>3. Alone' /\ Readiness'
  <2>1. CASE Enter(c, FALSE, ready)
    <3>1. /\ content' \in Seq(Blocks) /\ index' \in Nat \ {0}
          /\ ready => index' > Len(content')
      BY <1>0, <1>1, <1>2 DEF TypeOK
    <3>2. Busy \ {c} = {}
      BY <1>0
    <3> QED BY <1>0, <2>1, <3>1, <3>2, EnterAlone
  <2>2. CASE /\ index' > Len(content') /\ locked' = FALSE
             /\ call' = [call EXCEPT ![c] = NoCall]
    <3>1. NoCall \in Stages /\ NoCall.at \notin Working
      BY DEF Stages, NoCall, Working
    <3>2. call'[c] = NoCall /\ \A d \in Calls : d # c => call'[d] = call[d]
      BY <1>0, <2>2, <3>1, CallsStay
    <3>3. Busy' = {}
      BY <1>0, <3>1, <3>2 DEF Busy
    <3>4. \A d \in Busy' : AtWork(call[d])'
      BY <3>3
    <3> QED BY <2>2, <3>3, <3>4 DEF Alone, Readiness
  <2> QED BY <1>2, <2>1, <2>2 DEF CommitBatch
<1>4. Course' /\ InOrder' /\ Recorded'
  BY <1>0, <1>2 DEF PlainInv, Course, InOrder, Recorded, CallIds, Tools, OpenCalls, Partials, loopVars
<1> QED BY <1>1, <1>3, <1>4 DEF PlainInv

\* A call that yielded is back, and finds the lock free or not.
LEMMA WakeStaysPlain ==
    ASSUME PlainInv, TypeOK', NEW c \in Calls, Wake(c)
    PROVE  PlainInv'
<1>0. /\ c \notin Busy /\ Busy \ {c} = Busy /\ Enter(c, locked, ready)
      /\ UNCHANGED <<loopVars, toolVars, index>>
      /\ TypeOK /\ Course /\ Alone /\ Readiness
  BY DEF Wake, Busy, Working, PlainInv
<1>1. /\ call \in [Calls -> Stages] /\ content' \in Seq(Blocks) /\ index' \in Nat \ {0}
      /\ locked \in BOOLEAN /\ ready \in BOOLEAN /\ ~aborted
      /\ content' = content /\ index' = index
  BY <1>0 DEF TypeOK, Course, loopVars
<1>2. ASSUME NEW d \in Busy, NEW r \in Stages, r = call[d] PROVE AtWork(r)'
  <2>1. AtWork(r)
    BY <1>0, <1>2 DEF Alone
  <2> QED BY <1>0, <2>1
          DEF AtWork, AtItsBlock, AtItsBatch, HoldsCall, Quiet, Tools, Answers, loopVars, toolVars
<1>3. /\ Alone' /\ Readiness'
      /\ index' > Len(content') => Busy' = Busy
  <2>1. \A d, e \in Busy : d = e
    BY <1>0 DEF Alone
  <2>2. locked <=> Busy # {}
    BY <1>0 DEF Alone
  <2>3. ready => \/ index' > Len(content')
                 \/ \E d \in Busy : call[d].at = "batched" /\ call[d].last = Len(content')
    BY <1>0, <1>1 DEF Readiness
  <2> QED BY <1>0, <1>1, <1>2, <2>1, <2>2, <2>3, EnterAlone
<1>4. Course'
  BY <1>0, <1>1, <1>3 DEF Course, loopVars
<1>5. InOrder' /\ Recorded'
  BY <1>0 DEF PlainInv, InOrder, Recorded, CallIds, Tools, OpenCalls, Partials, loopVars
<1>6. Answering'
  BY <1>0 DEF PlainInv, Answering, Answers, CallIds, Tools, Quiet, loopVars, toolVars
<1> QED BY <1>3, <1>4, <1>5, <1>6 DEF PlainInv

\* Every step of a call of the presenter keeps it...
LEMMA PresentStaysPlain ==
    ASSUME PlainInv, TypeOK', NEW c \in Calls, Present(c)
    PROVE  PlainInv'
<1>1. CASE Wake(c)
  BY <1>1, WakeStaysPlain
<1>2. ASSUME c \in Busy
      PROVE  /\ call[c].i = index /\ AtWork(call[c])
             /\ call[c].at \in {"work", "preview", "running"} => AtItsBlock(index, call[c].at, call[c].block)
  BY <1>2, WorkingCall DEF AtWork
<1>3. CASE Preview(c) \/ Begin(c)
  <2>1. c \in Busy /\ call[c].at = "work" /\ IsTool(call[c].block) /\ ~rejected
    BY <1>3 DEF Preview, Begin, AtCall, AtBlock, Busy, Working
  <2>2. CASE Preview(c)
    BY <2>1, <2>2, StageStaysPlain DEF Preview, toolVars
  <2>3. CASE Begin(c)
    BY <2>1, <2>3, StageStaysPlain DEF Begin
  <2> QED BY <1>3, <2>2, <2>3
<1>4. CASE Shown(c)
  <2>1. /\ c \in Busy /\ call[c].at \in {"work", "preview", "running"}
        /\ ~IsTool(call[c].block) \/ call[c].at = "preview"
    BY <1>4 DEF Shown, AtBlock, Busy, Working
  <2>2. UNCHANGED toolVars /\ Finish(c, FALSE)
    BY <1>4 DEF Shown
  <2>3. call[c].at = "preview" => ~rejected /\ call[c].block.partial
    BY <1>2, <2>1 DEF AtItsBlock
  <2> QED BY <2>1, <2>2, <2>3, FinishStaysPlain DEF toolVars
<1>5. CASE Skip(c) \/ Duplicate(c)
  <2>1. /\ c \in Busy /\ call[c].at = "work" /\ IsTool(call[c].block)
        /\ Finish(c, FALSE) /\ results' = Answered(call[c].block.id) /\ rejected' = rejected
        /\ rejected \/ ~call[c].block.partial
    BY <1>5 DEF Skip, Duplicate, AtCall, AtBlock, Busy, Working
  <2> QED BY <2>1, FinishStaysPlain
<1>6. CASE Return(c) \/ Reject(c)
  <2>1. /\ c \in Busy /\ Finish(c, AtEnd(call[c].i)) /\ results' = Answered(call[c].block.id)
        /\ rejected => rejected'
    BY <1>6 DEF Return, Reject, Busy, Working
  <2>2. call[c].at = "running"
    BY <1>2, <1>6, <2>1 DEF Return, Reject, AtWork
  <2>3. IsTool(call[c].block) /\ ~call[c].block.partial /\ call[c].i = index
    BY <1>2, <2>1, <2>2 DEF AtItsBlock
  <2>4. AtEnd(call[c].i) \in BOOLEAN
    BY DEF AtEnd, PlainInv, TypeOK
  <2> QED BY <2>1, <2>2, <2>3, <2>4, FinishStaysPlain
<1>7. CASE RunBatch(c)
  <2>1. c \in Busy
    BY <1>7 DEF RunBatch, Busy, Working
  <2> QED BY <1>7, <2>1, BatchStaysPlain
<1>8. CASE CommitBatch(c)
  <2>1. c \in Busy
    BY <1>8 DEF CommitBatch, Busy, Working
  <2> QED BY <1>8, <2>1, CommitStaysPlain
<1>9. ~Refuse(c) /\ ~FirstResult(c) /\ ~BatchThrows(c)
  BY PlainEvents DEF Refuse, FirstResult, BatchThrows, PlainInv, Course
<1> QED BY <1>1, <1>3, <1>4, <1>5, <1>6, <1>7, <1>8, <1>9 DEF Present

\* ... it holds before the first request...
LEMMA InitIsPlain == Init => PlainInv
<1> SUFFICES ASSUME Init PROVE PlainInv
  OBVIOUS
<1>1. TypeOK
  BY InitTypes
<1>2. Len(content) = 0 /\ Len(results) = 0 /\ 1 .. 0 = {} /\ index = 1
  BY DEF Init
<1>3. Tools = {} /\ OpenCalls = {} /\ Answers = {}
  BY <1>2 DEF Tools, OpenCalls, Partials, Answers, Elements
<1>4. Busy = {}
  BY DEF Init, Busy, NoCall, Working
<1>5. InOrder /\ Answering
  BY <1>2, <1>3 DEF InOrder, Answering, Increasing
<1>6. Alone
  <2>1. \A c \in Busy : AtWork(call[c])
    BY <1>4
  <2> QED BY <1>4, <2>1 DEF Init, Alone
<1>7. Course /\ Readiness /\ Recorded
  BY <1>2, <1>4 DEF Init, Course, Readiness, Recorded
<1> QED BY <1>1, <1>5, <1>6, <1>7 DEF PlainInv

\* ... and so every step of a plain turn keeps it.
LEMMA NextStaysPlain == PlainInv /\ [Next]_vars => PlainInv'
<1> SUFFICES ASSUME PlainInv, [Next]_vars PROVE PlainInv'
  OBVIOUS
<1>1. CASE UNCHANGED vars
  <2>1. TypeOK'
    BY <1>1 DEF vars, loopVars, toolVars, PlainInv, TypeOK
  <2>2. Busy' = Busy
    BY <1>1 DEF vars, Busy
  <2>3. loop' = "request" => Busy = {} /\ index > Len(content)
    BY <1>1 DEF vars, loopVars, PlainInv, Course
  <2>4. Course' /\ InOrder' /\ Recorded' /\ Readiness'
    BY <1>1, <2>2 DEF vars, loopVars, PlainInv, Course, InOrder, Recorded, Readiness, CallIds, Tools,
                      OpenCalls, Partials
  <2>5. Answering'
    BY <1>1 DEF vars, loopVars, toolVars, PlainInv, Answering, Answers, CallIds, Tools, Quiet
  <2>6. ASSUME NEW c \in Busy PROVE AtWork(call[c])'
    <3>1. AtWork(call[c])
      BY DEF PlainInv, Alone
    <3> QED BY <1>1, <3>1 DEF AtWork, AtItsBlock, AtItsBatch, HoldsCall, Quiet, Tools, Answers,
                              vars, loopVars, toolVars
  <2>7. Alone'
    BY <1>1, <2>2, <2>6 DEF vars, PlainInv, Alone
  <2> QED BY <2>1, <2>4, <2>5, <2>7 DEF PlainInv
<1>2. CASE Loop
  BY <1>2, LoopKeepsTypes, LoopStaysPlain DEF PlainInv
<1>3. ASSUME NEW c \in Calls, Present(c) PROVE PlainInv'
  BY <1>3, PresentKeepsTypes, PresentStaysPlain DEF PlainInv
<1> QED BY <1>1, <1>2, <1>3 DEF Next

\* A behaviour of MCSpec that has no faults is one of plain turns.
LEMMA PlainTurns == MCSpec => [](~faults => PlainInv)
<1>1. MCInit => (~faults => PlainInv)
  BY InitIsPlain DEF MCInit
<1>2. (~faults => PlainInv) /\ [MCNext]_<<vars, faults>> => (~faults => PlainInv)'
  <2> SUFFICES ASSUME ~faults => PlainInv, [MCNext]_<<vars, faults>>, ~faults' PROVE PlainInv'
    OBVIOUS
  <2>1. ~faults /\ [Next]_vars
    BY DEF MCNext
  <2> QED BY <2>1, NextStaysPlain
<1> QED BY <1>1, <1>2, PTL DEF MCSpec

\* In plain turns presentAssistantMessageLocked keeps all but one call of the
\* presenter from handling a block.
THEOREM OneCallPresents == MCSpec => []PlainOnePresenter
<1>1. (~faults => PlainInv) => PlainOnePresenter
  <2> SUFFICES ASSUME PlainInv PROVE OnePresenter
    BY DEF PlainOnePresenter
  <2>1. CASE Busy = {}
    <3>1. Cardinality(Busy) = 0
      BY <2>1, FS_EmptySet, Zenon
    <3> QED BY <3>1 DEF OnePresenter
  <2>2. CASE Busy # {}
    <3>1. PICK c \in Busy : TRUE
      BY <2>2
    <3>2. Busy = {c}
      BY <3>1, WorkingCall
    <3>3. Cardinality({c}) = 1
      BY FS_Singleton
    <3>4. Cardinality(Busy) = 1
      BY <3>2, <3>3, Zenon
    <3> QED BY <3>4 DEF OnePresenter
  <2> QED BY <2>1, <2>2
<1> QED BY <1>1, PlainTurns, PTL

\* In plain turns no tool of the last request is running when the next one leaves.
THEOREM NothingStaysBehind == MCSpec => PlainNothingRunsBehind
<1>1. (~faults => PlainInv) /\ [MCNext]_<<vars, faults>>
         => [~faults /\ requests' # requests => Busy = {}]_vars
  <2> SUFFICES ASSUME PlainInv, Next, requests' # requests PROVE Busy = {}
    BY DEF MCNext, vars, loopVars
  <2>1. CASE Loop
    <3>1. Request \/ Restart
      BY <2>1 DEF Loop, TextChunk, CallChunk, MoreChunk, Chunk, StreamEnds, Saved, Proceed, AbortTask,
                  TurnAborts
    <3>2. Request
      BY <3>1, PlainEvents DEF Restart
    <3> QED BY <3>2 DEF Request, PlainInv, Course
  <2>2. ASSUME NEW c \in Calls, Present(c) PROVE FALSE
    BY <2>2 DEF Present, Wake, Preview, Refuse, Shown, Skip, Duplicate, Begin, FirstResult, Return, Reject, RunBatch,
                CommitBatch, BatchThrows, Finish, loopVars
  <2> QED BY <2>1, <2>2 DEF Next
<1> QED BY <1>1, PlainTurns, PTL DEF MCSpec, PlainNothingRunsBehind

\* In plain turns the next request carries one result for each tool call of
\* the last answer, in the order of the calls.
THEOREM ResultsFollowCalls == MCSpec => PlainResultsMatch
<1>1. (~faults => PlainInv) /\ [MCNext]_<<vars, faults>>
         => [~faults /\ loop = "waiting" /\ loop' # "waiting" => results = uses]_vars
  <2> SUFFICES ASSUME PlainInv, Next, loop = "waiting", loop' # "waiting" PROVE results = uses
    BY DEF MCNext, vars, loopVars
  <2>1. CASE Loop
    <3>1. Proceed
      BY <2>1 DEF Loop, Request, TextChunk, CallChunk, MoreChunk, Chunk, StreamEnds, Saved, Restart, AbortTask,
                  TurnAborts
    <3> QED BY <3>1, ProceedIsDue
  <2>2. ASSUME NEW c \in Calls, Present(c) PROVE FALSE
    BY <2>2 DEF Present, Wake, Preview, Refuse, Shown, Skip, Duplicate, Begin, FirstResult, Return, Reject, RunBatch,
                CommitBatch, BatchThrows, Finish, loopVars
  <2> QED BY <2>1, <2>2 DEF Next
<1> QED BY <1>1, PlainTurns, PTL DEF MCSpec, PlainResultsMatch
=============================================================================
