-------------------------- MODULE TerminalsProofs --------------------------
(***************************************************************************)
(* Proofs about Terminals, for every set of commands and every bound on    *)
(* the pool and on what the user types.                                    *)
(***************************************************************************)
EXTENDS Terminals, SequenceTheorems, TLAPS

CallPlaces == RunningAt \union {"new", "chosen", "fallback", "killed", "done"}
Items == [cmd : Commands \union {User}, st : {"sent", "running", "ended"}]
CallType == [at : CallPlaces, term : 0..MaxTerms, reads : Commands \union {None, User},
             exited : BOOLEAN, result : {"none", "exit", "running", "timeout"}]
TermType == [made : BOOLEAN, provider : {"none", "vscode", "execa"}, busy : BOOLEAN,
             running : BOOLEAN, proc : Commands \union {None}, closed : BOOLEAN]

TypeInv == /\ term \in [Terms -> TermType]
           /\ shell \in [Terms -> Seq(Items)]
           /\ call \in [Commands -> CallType]
           /\ runs \in [Commands -> Nat]
           /\ tainted \subseteq Terms /\ typed \in 0..Typed

\* A call that has begun has a terminal, and what waits for a shell has one of
\* the editor.
CallInv == \A c \in Commands :
    /\ call[c].at # "new" => call[c].term \in Terms /\ term[call[c].term].made
    /\ call[c].at = "new" => call[c].term \notin Terms
    /\ call[c].at \in {"integration", "stream", "draining"} => term[call[c].term].provider = "vscode"
    /\ call[c].at \in {"chosen", "integration"} => ~call[c].exited
    /\ call[c].at = "chosen" => term[call[c].term].provider \in {"vscode", "execa"}

\* How often a command has been started, by where its call is.
OnShell(c) == \/ call[c].at \in {"stream", "draining"}
              \/ call[c].at = "reading" /\ term[call[c].term].provider = "vscode"
RunsInv == \A c \in Commands :
    /\ call[c].at \in {"new", "integration"} => runs[c] = 0
    /\ call[c].at = "chosen" => \/ runs[c] = 0
                                \/ runs[c] = 1 /\ term[call[c].term].provider = "execa"
    /\ OnShell(c) \/ call[c].at = "fallback" => runs[c] <= 1
    /\ runs[c] <= 2
    /\ call[c].at \in {"new", "chosen", "fallback"} => call[c].result = "none"

\* A command whose process has not ended in terminal t; a killed subprocess has
\* not ended yet.
Live(c, t) == call[c].at \in RunningAt \union {"killed"} /\ ~call[c].exited /\ call[c].term = t

\* A terminal that a call has found and not marked yet.
Chosen(c, t) == call[c].at = "chosen" /\ call[c].term = t

\* A terminal that nothing else was run in: it is busy with the process of its
\* one live command, and its shell has nothing but that command; or it is free,
\* and chosen by one call at most.
Owned(t) ==
    /\ \A c \in Commands : Chosen(c, t) => ~term[t].busy /\ \A d \in Commands : Chosen(d, t) => c = d
    /\ \A c \in Commands : Live(c, t) => term[t].busy /\ term[t].proc = c
    /\ \A c \in Commands : Live(c, t) /\ call[c].at = "integration" => shell[t] = <<>>
    /\ shell[t] # <<>> => \E c \in Commands :
          /\ Live(c, t) /\ Len(shell[t]) = 1 /\ shell[t][1].cmd = c
          /\ \/ shell[t][1].st = "sent" /\ call[c].at = "stream"
             \/ /\ shell[t][1].st \in {"running", "ended"} /\ term[t].running
                /\ call[c].at \in {"reading", "draining"}
    /\ ~term[t].made => ~term[t].busy
    /\ term[t].provider = "execa" =>
          shell[t] = <<>> /\ \A c \in Commands : call[c].term = t => ~call[c].exited
OwnInv == \A t \in Terms \ tainted : Owned(t)

ReadsInv == \A c \in Commands : call[c].reads \notin {None, c} => call[c].term \in tainted

TermsInv == TypeInv /\ CallInv /\ RunsInv /\ OwnInv /\ ReadsInv

LEMMA InitTermsInv == TermsInit => TermsInv
<1> SUFFICES ASSUME TermsInit PROVE TermsInv
  OBVIOUS
<1> USE DEF TermsInit, NoCall, NoTerm, Terms
<1>1. TypeInv
  <2>1. term \in [Terms -> TermType]
    BY DEF TermType
  <2>2. call \in [Commands -> CallType]
    BY TermsAssumption DEF CallType, CallPlaces
  <2>3. shell \in [Terms -> Seq(Items)]
    BY <<>> \in Seq(Items)
  <2>4. runs \in [Commands -> Nat] /\ typed \in 0..Typed
    BY TermsAssumption
  <2>5. tainted \subseteq Terms
    OBVIOUS
  <2> QED BY <2>1, <2>2, <2>3, <2>4, <2>5 DEF TypeInv
<1>2. CallInv /\ RunsInv /\ ReadsInv
  BY DEF CallInv, RunsInv, ReadsInv, OnShell
<1>3. OwnInv
  BY DEF OwnInv, Owned, Live, Chosen, RunningAt
<1> QED BY <1>1, <1>2, <1>3 DEF TermsInv

\* The terminal a command gets: one of that provider that is free, or a new one.
LEMMA Gets == ASSUME NEW p, NEW t \in GetTerminal(p)
              PROVE  /\ t \in Terms
                     /\ \/ term[t].made /\ term[t].provider = p /\ ~term[t].busy
                        \/ ~term[t].made
  BY DEF GetTerminal, Made, Fresh

\* The steps of one command.
CommandStep(c) ==
    \/ IntegrationReady(c) \/ TypesCommand(c) \/ IntegrationTimesOut(c) \/ StreamTimesOut(c) \/ StreamEnds(c)
    \/ Complete(c) \/ SubprocessEnds(c) \/ Continue(c) \/ CommandTimesOut(c)
TermStep(t) == OnStart(t) \/ ShellEnds(t) \/ OnEnd(t) \/ UserTypes(t) \/ UserCloses(t)

LEMMA TermSteps == ASSUME TermsNext
               PROVE  \/ \E c \in Commands, p \in {"vscode", "execa"} : ChooseTerminal(c, p)
                      \/ \E c \in Commands : RunCommand(c)
                      \/ \E c \in Commands : CommandStep(c)
                      \/ \E t \in Terms : TermStep(t)
  BY DEF TermsNext, Host, CommandStep, TermStep


LEMMA TermRecord ==
  ASSUME NEW r \in TermType, NEW p \in {"none", "vscode", "execa"}, NEW b \in BOOLEAN, NEW q \in Commands \union {None}
  PROVE  /\ [r EXCEPT !.made = TRUE, !.provider = p] \in TermType
         /\ [r EXCEPT !.busy = TRUE, !.proc = q, !.running = b] \in TermType
         /\ [r EXCEPT !.busy = FALSE, !.running = FALSE, !.proc = q] \in TermType
         /\ [r EXCEPT !.busy = TRUE, !.running = b] \in TermType
  BY DEF TermType

LEMMA ShellUpdate ==
  ASSUME NEW f \in [Terms -> Seq(Items)], NEW t \in Terms, NEW x \in Items
  PROVE  /\ [f EXCEPT ![t] = Append(@, x)] \in [Terms -> Seq(Items)]
         /\ [f EXCEPT ![t] = <<>>] \in [Terms -> Seq(Items)]
         /\ f[t] # <<>> => [f EXCEPT ![t] = Tail(@)] \in [Terms -> Seq(Items)]
         /\ f[t] # <<>> => \A s \in {"sent", "running", "ended"} : [f EXCEPT ![t][1].st = s] \in [Terms -> Seq(Items)]
<1>1. <<>> \in Seq(Items) /\ f[t] \in Seq(Items)
  OBVIOUS
<1>2. f[t] # <<>> => f[t][1] \in Items
  BY <1>1
<1>3. ASSUME f[t] # <<>>, NEW s \in {"sent", "running", "ended"}
      PROVE  [f[t] EXCEPT ![1].st = s] \in Seq(Items)
  <2>1. [f[t][1] EXCEPT !.st = s] \in Items
    BY <1>2, <1>3 DEF Items
  <2>2. [f[t] EXCEPT ![1] = [f[t][1] EXCEPT !.st = s]] \in Seq(Items)
    BY <2>1, <1>1, <1>3, ExceptSeq
  <2> QED BY <2>2
<1>4. Append(f[t], x) \in Seq(Items)
  BY <1>1
<1>5. f[t] # <<>> => Tail(f[t]) \in Seq(Items)
  BY <1>1
<1> QED BY <1>1, <1>3, <1>4, <1>5

\* The types, action by action.
LEMMA TypeChoose ==
  ASSUME TypeInv, NEW c \in Commands, NEW p \in {"vscode", "execa"}, ChooseTerminal(c, p) PROVE TypeInv'
<1>a. term \in [Terms -> TermType] /\ call \in [Commands -> CallType] /\ tainted \subseteq Terms
  BY DEF TypeInv
<1>1. PICK t \in GetTerminal(p) :
        /\ term' = [term EXCEPT ![t].made = TRUE, ![t].provider = p]
        /\ call' = [call EXCEPT ![c] = [NoCall EXCEPT !.at = "chosen", !.term = t]]
        /\ tainted' \subseteq tainted \union {t}
  BY DEF ChooseTerminal
<1>2. t \in Terms /\ t \in 0..MaxTerms
  BY Gets, TermsAssumption DEF Terms
<1>3. term' \in [Terms -> TermType]
  <2> DEFINE r == [term[t] EXCEPT !.made = TRUE, !.provider = p]
  <2>1. r \in TermType
    BY <1>2, <1>a, TermRecord
  <2>2. term' = [term EXCEPT ![t] = r]
    BY <1>1
  <2> HIDE DEF r
  <2> QED BY <1>2, <1>a, <2>1, <2>2
<1>4. call' \in [Commands -> CallType]
  <2>1. [at |-> "chosen", term |-> t, reads |-> None, exited |-> FALSE, result |-> "none"] \in CallType
    BY <1>2 DEF CallType, CallPlaces, RunningAt
  <2> QED BY <1>1, <1>a, <2>1 DEF NoCall
<1>5. tainted' \subseteq Terms
  BY <1>1, <1>2, <1>a
<1> QED BY <1>3, <1>4, <1>5 DEF ChooseTerminal, TypeInv

LEMMA TypeRun ==
  ASSUME TypeInv, CallInv, NEW c \in Commands, RunCommand(c) PROVE TypeInv'
<1>a. term \in [Terms -> TermType] /\ call \in [Commands -> CallType] /\ runs \in [Commands -> Nat]
  BY DEF TypeInv
<1> DEFINE t == call[c].term
           b == term[t].running \/ term[t].provider = "execa"
           r == [term[t] EXCEPT !.busy = TRUE, !.proc = c, !.running = b]
<1>1. t \in Terms
  BY DEF RunCommand, CallInv
<1>2. term' \in [Terms -> TermType]
  <2>1. term' = [term EXCEPT ![t] = r]
    BY DEF RunCommand
  <2>2. r \in TermType
    <3>1. b \in BOOLEAN /\ term[t] \in TermType
      BY <1>1, <1>a DEF TermType
    <3> HIDE DEF b
    <3> QED BY <3>1, TermRecord
  <2> HIDE DEF r
  <2> QED BY <1>1, <1>a, <2>1, <2>2
<1>3. call' \in [Commands -> CallType]
  <2>1. PICK at \in {"reading", "integration"}, reads \in Commands \union {None, User} :
          call' = [call EXCEPT ![c].at = at, ![c].reads = reads]
    BY DEF RunCommand
  <2>2. at \in CallPlaces
    BY DEF CallPlaces, RunningAt
  <2> QED BY <1>a, <2>1, <2>2 DEF CallType
<1>4. runs' \in [Commands -> Nat]
  BY <1>a DEF RunCommand
<1> QED BY <1>2, <1>3, <1>4 DEF RunCommand, TypeInv

LEMMA TypeCommand ==
  ASSUME TypeInv, CallInv, NEW c \in Commands, CommandStep(c) PROVE TypeInv'
<1>a. term \in [Terms -> TermType] /\ call \in [Commands -> CallType]
  BY DEF TypeInv
<1>b. shell \in [Terms -> Seq(Items)] /\ runs \in [Commands -> Nat]
      /\ tainted \subseteq Terms /\ typed \in 0..Typed
  BY DEF TypeInv
<1>1. {"stream", "reading", "draining", "killed", "fallback", "done"} \subseteq CallPlaces
  BY DEF CallPlaces, RunningAt
<1>2. call[c].at # "new" => call[c].term \in Terms
  BY DEF CallInv
<1>3. Unheard(c) \in CallPlaces
  BY <1>1 DEF Unheard
<1>4. call[c].at \in CallPlaces /\ Resolve(c, "exit") \in {"none", "exit", "running", "timeout"}
  BY <1>a DEF CallType, Resolve
<1>5. CASE IntegrationReady(c) \/ TypesCommand(c)
  <2>1. [cmd |-> c, st |-> "sent"] \in Items
    BY DEF Items
  <2>2. shell' \in [Terms -> Seq(Items)]
    <3>1. /\ call[c].term \in Terms
          /\ \/ shell' = [shell EXCEPT ![call[c].term] = Append(@, [cmd |-> c, st |-> "sent"])]
             \/ shell' = shell
      BY <1>2, <1>5 DEF IntegrationReady, TypesCommand, Send
    <3>2. CASE shell' = shell
      BY <1>b, <3>2
    <3>3. CASE shell' = [shell EXCEPT ![call[c].term] = Append(@, [cmd |-> c, st |-> "sent"])]
      BY <1>b, <2>1, <3>1, <3>3, ShellUpdate
    <3> QED BY <3>1, <3>2, <3>3
  <2>3. call' \in [Commands -> CallType]
    <3>1. call' = [call EXCEPT ![c].at = "stream"] \/ call' = [call EXCEPT ![c].at = Unheard(c)]
      BY <1>5 DEF IntegrationReady, TypesCommand, NoIntegration
    <3> QED BY <1>1, <1>3, <1>a, <3>1 DEF CallType
  <2>4. runs' \in [Commands -> Nat]
    BY <1>5, <1>b DEF IntegrationReady, TypesCommand
  <2>5. term' \in [Terms -> TermType]
    <3>1. call[c].term \in Terms
      BY <1>2, <1>5 DEF IntegrationReady, TypesCommand
    <3>2. term' = term \/ term' = [term EXCEPT ![call[c].term].busy = FALSE]
      BY <1>5 DEF IntegrationReady, TypesCommand, NoIntegration
    <3> QED BY <1>a, <3>1, <3>2 DEF TermType
  <2>6. tainted' \subseteq Terms /\ typed' = typed
    BY <1>2, <1>5, <1>b DEF IntegrationReady, TypesCommand
  <2> QED BY <1>b, <2>2, <2>3, <2>4, <2>5, <2>6 DEF TypeInv
<1>6. CASE IntegrationTimesOut(c) \/ StreamTimesOut(c)
  <2>1. call[c].term \in Terms
    BY <1>2, <1>6 DEF IntegrationTimesOut, StreamTimesOut
  <2>2. call' \in [Commands -> CallType]
    <3>1. call' = [call EXCEPT ![c].at = Unheard(c)]
      BY <1>6 DEF IntegrationTimesOut, StreamTimesOut, NoIntegration
    <3> QED BY <1>3, <1>a, <3>1 DEF CallType
  <2>3. term' \in [Terms -> TermType]
    <3>1. term' = [term EXCEPT ![call[c].term].busy = FALSE]
      BY <1>6 DEF IntegrationTimesOut, StreamTimesOut, NoIntegration
    <3> QED BY <1>a, <2>1, <3>1 DEF TermType
  <2> QED BY <1>6, <1>a, <1>b, <2>1, <2>2, <2>3 DEF TypeInv, IntegrationTimesOut, StreamTimesOut
<1>7. CASE Complete(c) \/ SubprocessEnds(c)
  <2>1. call[c].term \in Terms
    BY <1>2, <1>7 DEF Complete, SubprocessEnds
  <2>2. call' \in [Commands -> CallType]
    <3>1. \/ call' = [call EXCEPT ![c].at = "done", ![c].result = Resolve(c, "exit")]
          \/ call' = [call EXCEPT ![c].at = Unheard(c)]
      BY <1>7 DEF Complete, SubprocessEnds
    <3> QED BY <1>1, <1>3, <1>4, <1>a, <3>1 DEF CallType
  <2>3. term' \in [Terms -> TermType]
    <3>1. term' = [term EXCEPT ![call[c].term].busy = FALSE]
      BY <1>7 DEF Complete, SubprocessEnds
    <3> QED BY <1>a, <2>1, <3>1 DEF TermType
  <2> QED BY <1>7, <1>a, <1>b, <2>1, <2>2, <2>3 DEF TypeInv, Complete, SubprocessEnds
<1>8. CASE StreamEnds(c) \/ Continue(c)
  <2>1. call' \in [Commands -> CallType]
    <3>1. \/ call' = [call EXCEPT ![c].at = "draining"]
          \/ call' = [call EXCEPT ![c].result = "running"]
      BY <1>8 DEF StreamEnds, Continue
    <3> QED BY <1>1, <1>a, <3>1 DEF CallType
  <2> QED BY <1>8, <1>a, <1>b, <2>1 DEF TypeInv, StreamEnds, Continue
<1>9. CASE CommandTimesOut(c)
  <2>1. PICK at \in CallPlaces : call' = [call EXCEPT ![c].result = "timeout", ![c].at = at]
    BY <1>1, <1>4, <1>9 DEF CommandTimesOut
  <2>2. call' \in [Commands -> CallType]
    BY <1>a, <2>1 DEF CallType
  <2> QED BY <1>9, <1>a, <1>b, <2>2 DEF TypeInv, CommandTimesOut
<1> QED BY <1>5, <1>6, <1>7, <1>8, <1>9 DEF CommandStep

LEMMA TypeTerm ==
  ASSUME TypeInv, NEW t \in Terms, TermStep(t) PROVE TypeInv'
<1>a. term \in [Terms -> TermType] /\ call \in [Commands -> CallType]
  BY DEF TypeInv
<1>b. shell \in [Terms -> Seq(Items)]
  BY DEF TypeInv
<1>c. runs \in [Commands -> Nat]
      /\ tainted \subseteq Terms /\ typed \in 0..Typed
  BY DEF TypeInv
<1>0. term[t] \in TermType /\ Proc(t) \in Commands \union {None}
  BY <1>a DEF TermType, Proc
<1>1. CASE OnStart(t)
  <2>1. shell[t] # <<>> /\ shell[t] \in Seq(Items)
    BY <1>1, <1>b DEF OnStart
  <2>2. Head(shell[t]).cmd \in Commands \union {User}
    <3>1. Head(shell[t]) \in Items
      BY <2>1
    <3> QED BY <3>1 DEF Items
  <2>3. shell' \in [Terms -> Seq(Items)]
    <3>1. [cmd |-> User, st |-> "sent"] \in Items
      BY DEF Items
    <3>2. shell' = [shell EXCEPT ![t][1].st = "running"]
      BY <1>1 DEF OnStart
    <3> QED BY <1>b, <2>1, <3>1, <3>2, ShellUpdate
  <2>4. call' \in [Commands -> CallType]
    <3>1. "reading" \in CallPlaces
      BY DEF CallPlaces, RunningAt
    <3>2. \A c \in Commands : [call[c] EXCEPT !.at = "reading", !.reads = Head(shell[t]).cmd] \in CallType
      BY <2>2, <3>1, <1>a DEF CallType
    <3> QED BY <1>1, <1>a, <3>2 DEF OnStart
  <2>5. term' \in [Terms -> TermType]
    <3>1. [term[t] EXCEPT !.busy = TRUE, !.running = Proc(t) # None] \in TermType
      BY <1>0, (Proc(t) # None) \in BOOLEAN, TermRecord
    <3>2. term' = [term EXCEPT ![t] = [term[t] EXCEPT !.busy = TRUE, !.running = Proc(t) # None]]
      BY <1>1 DEF OnStart
    <3> QED BY <1>a, <3>1, <3>2
  <2> QED BY <1>1, <1>c, <2>3, <2>4, <2>5 DEF TypeInv, OnStart
<1>2. CASE ShellEnds(t)
  <2>1. [cmd |-> User, st |-> "sent"] \in Items
    BY DEF Items
  <2>2. shell' \in [Terms -> Seq(Items)]
    <3>1. shell[t] # <<>> /\ shell' = [shell EXCEPT ![t][1].st = "ended"]
      BY <1>2 DEF ShellEnds
    <3> QED BY <1>b, <2>1, <3>1, ShellUpdate
  <2> QED BY <1>2, <1>a, <1>c, <2>2 DEF TypeInv, ShellEnds
<1>3. CASE OnEnd(t)
  <2>1. shell' \in [Terms -> Seq(Items)]
    <3>1. [cmd |-> User, st |-> "sent"] \in Items
      BY DEF Items
    <3>2. shell[t] # <<>> /\ shell' = [shell EXCEPT ![t] = Tail(@)]
      BY <1>3 DEF OnEnd
    <3> QED BY <1>b, <3>1, <3>2, ShellUpdate
  <2>2. call' \in [Commands -> CallType]
    <3>1. \A c \in Commands : [call[c] EXCEPT !.exited = TRUE] \in CallType
      BY <1>a DEF CallType
    <3> QED BY <1>3, <1>a, <3>1 DEF OnEnd
  <2>3. term' \in [Terms -> TermType]
    <3> DEFINE q == IF term[t].running THEN None ELSE term[t].proc
    <3>1. q \in Commands \union {None}
      BY <1>0 DEF TermType
    <3>2. term' = [term EXCEPT ![t] = [term[t] EXCEPT !.busy = FALSE, !.running = FALSE, !.proc = q]]
      BY <1>3 DEF OnEnd
    <3>3. [term[t] EXCEPT !.busy = FALSE, !.running = FALSE, !.proc = q] \in TermType
      <4> HIDE DEF q
      <4> QED BY <1>0, <3>1, TermRecord
    <3> QED BY <1>a, <3>2, <3>3
  <2> QED BY <1>3, <1>c, <2>1, <2>2, <2>3 DEF TypeInv, OnEnd
<1>4. CASE UserTypes(t) \/ UserCloses(t)
  <2>1. [cmd |-> User, st |-> "sent"] \in Items
    BY DEF Items
  <2>2. shell' \in [Terms -> Seq(Items)]
    <3>1. CASE shell' = [shell EXCEPT ![t] = Append(@, [cmd |-> User, st |-> "sent"])]
      BY <1>b, <2>1, <3>1, ShellUpdate
    <3>2. CASE shell' = [shell EXCEPT ![t] = <<>>]
      BY <1>b, <<>> \in Seq(Items), <3>2
    <3> QED BY <1>4, <3>1, <3>2 DEF UserTypes, UserCloses
  <2>3. typed' \in 0..Typed
    BY <1>4, <1>c, TermsAssumption DEF UserTypes, UserCloses
  <2>4. term' \in [Terms -> TermType]
    <3>1. \/ term' = term
          \/ term' = [term EXCEPT ![t].closed = TRUE]
      BY <1>4 DEF UserTypes, UserCloses
    <3> QED BY <1>a, <3>1 DEF TermType
  <2> QED BY <1>4, <1>a, <1>c, <2>2, <2>3, <2>4 DEF TypeInv, UserTypes, UserCloses
<1> QED BY <1>1, <1>2, <1>3, <1>4 DEF TermStep

LEMMA TypeStep == ASSUME TypeInv, CallInv, [TermsNext]_termVars PROVE TypeInv'
<1>1. CASE UNCHANGED termVars
  BY <1>1 DEF termVars, TypeInv
<1> QED BY <1>1, TermSteps, TypeChoose, TypeRun, TypeCommand, TypeTerm

----------------------------------------------------------------------------
(* What each kind of step leaves alone.                                    *)

ChoseTerminal(c, p, t) ==
    /\ (term[t].made /\ term[t].provider = p /\ ~term[t].busy) \/ ~term[t].made
    /\ \A u \in Terms \ {t} : term'[u] = term[u]
    /\ term'[t].made /\ term'[t].provider = p /\ term'[t].busy = term[t].busy
    /\ \A d \in Commands \ {c} : call'[d] = call[d]
    /\ call'[c] = [at |-> "chosen", term |-> t, reads |-> None, exited |-> FALSE, result |-> "none"]
    /\ runs' = runs /\ shell' = shell /\ tainted \subseteq tainted'
    /\ \A d \in Commands : Chosen(d, t) => t \in tainted'

LEMMA ChooseEffect ==
  ASSUME TypeInv, NEW c \in Commands, NEW p \in {"vscode", "execa"}, ChooseTerminal(c, p)
  PROVE  \E t \in Terms : ChoseTerminal(c, p, t)
<1>a. term \in [Terms -> TermType] /\ call \in [Commands -> CallType]
  BY DEF TypeInv
<1>1. PICK t \in GetTerminal(p) :
        /\ term' = [term EXCEPT ![t].made = TRUE, ![t].provider = p]
        /\ call' = [call EXCEPT ![c] = [NoCall EXCEPT !.at = "chosen", !.term = t]]
        /\ tainted' = IF \E d \in Commands : call[d].at = "chosen" /\ call[d].term = t
                      THEN tainted \union {t} ELSE tainted
  BY DEF ChooseTerminal
<1>2. /\ t \in Terms
      /\ \/ term[t].made /\ term[t].provider = p /\ ~term[t].busy
         \/ ~term[t].made
  BY Gets
<1>3. /\ \A u \in Terms \ {t} : term'[u] = term[u]
      /\ term'[t].made /\ term'[t].provider = p /\ term'[t].busy = term[t].busy
  BY <1>1, <1>2, <1>a DEF TermType
<1>4. /\ \A d \in Commands \ {c} : call'[d] = call[d]
      /\ call'[c] = [at |-> "chosen", term |-> t, reads |-> None, exited |-> FALSE, result |-> "none"]
  BY <1>1, <1>a DEF NoCall
<1>5. tainted \subseteq tainted' /\ \A d \in Commands : Chosen(d, t) => t \in tainted'
  BY <1>1 DEF Chosen
<1>6. runs' = runs /\ shell' = shell
  BY DEF ChooseTerminal
<1> QED BY <1>2, <1>3, <1>4, <1>5, <1>6 DEF ChoseTerminal

Ran(c, t) ==
    /\ call[c].at = "chosen" /\ call[c].term = t
    /\ \A u \in Terms \ {t} : term'[u] = term[u]
    /\ term'[t].made /\ term'[t].provider = term[t].provider /\ term'[t].busy /\ term'[t].proc = c
    /\ \A d \in Commands \ {c} : call'[d] = call[d] /\ runs'[d] = runs[d]
    /\ call'[c].term = t /\ call'[c].exited = FALSE /\ call'[c].result = call[c].result
    /\ \/ /\ term[t].provider = "execa" /\ runs'[c] = runs[c] + 1
          /\ call'[c].at = "reading" /\ call'[c].reads = c
       \/ /\ term[t].provider = "vscode" /\ runs'[c] = runs[c]
          /\ call'[c].at = "integration" /\ call'[c].reads = None
    /\ shell' = shell /\ tainted' = tainted

LEMMA RunEffect ==
  ASSUME TypeInv, CallInv, NEW c \in Commands, RunCommand(c)
  PROVE  \E t \in Terms : Ran(c, t)
<1>a. term \in [Terms -> TermType] /\ call \in [Commands -> CallType] /\ runs \in [Commands -> Nat]
  BY DEF TypeInv
<1>0. PICK t : t = call[c].term
  OBVIOUS
<1>1. /\ t \in Terms /\ term[t].made /\ call[c].at = "chosen" /\ ~call[c].exited
      /\ term[t].provider \in {"vscode", "execa"}
  BY <1>0 DEF RunCommand, CallInv
<1>2. /\ \A u \in Terms \ {t} : term'[u] = term[u]
      /\ term'[t].made /\ term'[t].provider = term[t].provider /\ term'[t].busy /\ term'[t].proc = c
  BY <1>0, <1>1, <1>a DEF RunCommand, TermType
<1>3. /\ \A d \in Commands \ {c} : call'[d] = call[d]
      /\ call'[c].term = t /\ call'[c].exited = call[c].exited /\ call'[c].result = call[c].result
      /\ call'[c].at = IF term[t].provider = "execa" THEN "reading" ELSE "integration"
      /\ call'[c].reads = IF term[t].provider = "execa" THEN c ELSE None
  BY <1>0, <1>a DEF RunCommand, CallType
<1>4. /\ \A d \in Commands \ {c} : runs'[d] = runs[d]
      /\ runs'[c] = IF term[t].provider = "execa" THEN runs[c] + 1 ELSE runs[c]
  BY <1>0, <1>a DEF RunCommand
<1>5. call[c].exited = FALSE /\ shell' = shell /\ tainted' = tainted
  BY <1>1, <1>a DEF RunCommand, CallType
<1> QED BY <1>0, <1>1, <1>2, <1>3, <1>4, <1>5 DEF Ran

\* A step of one command: its call leaves RunningAt for good or moves within it,
\* its terminal stays or is freed.
LEMMA CommandEffect ==
  ASSUME TypeInv, CallInv, NEW c \in Commands, CommandStep(c)
  PROVE  /\ call[c].at \in RunningAt \union {"killed"} /\ call[c].term \in Terms
         /\ \A d \in Commands \ {c} : call'[d] = call[d] /\ runs'[d] = runs[d]
         /\ call'[c].term = call[c].term /\ call'[c].exited = call[c].exited
         /\ call'[c].reads = call[c].reads
         /\ \A u \in Terms : /\ term'[u].made = term[u].made /\ term'[u].provider = term[u].provider
                             /\ term'[u].proc = term[u].proc /\ term'[u].running = term[u].running
         /\ \A u \in Terms \ {call[c].term} : term'[u] = term[u] /\ shell'[u] = shell[u]
         /\ tainted \subseteq tainted'
<1>a. term \in [Terms -> TermType] /\ call \in [Commands -> CallType] /\ runs \in [Commands -> Nat]
  BY DEF TypeInv
<1>b. shell \in [Terms -> Seq(Items)]
  BY DEF TypeInv
<1>1. call[c].at \in RunningAt \union {"killed"}
  BY DEF CommandStep, IntegrationReady, TypesCommand, IntegrationTimesOut, StreamTimesOut, StreamEnds, Complete,
         SubprocessEnds, Continue, CommandTimesOut, RunningAt
<1>2. call[c].term \in Terms
  BY <1>1 DEF CallInv, RunningAt
<1>3. call' = [call EXCEPT ![c].at = call'[c].at, ![c].result = call'[c].result]
  <2> USE <1>a DEF CallType
  <2>1. CASE SubprocessEnds(c) \/ Complete(c)
    BY <2>1 DEF SubprocessEnds, Complete
  <2>2. CASE CommandTimesOut(c)
    BY <2>2 DEF CommandTimesOut
  <2>3. CASE IntegrationReady(c) \/ TypesCommand(c) \/ IntegrationTimesOut(c) \/ StreamTimesOut(c)
    BY <2>3 DEF IntegrationReady, TypesCommand, IntegrationTimesOut, StreamTimesOut, NoIntegration
  <2>4. CASE StreamEnds(c) \/ Continue(c)
    BY <2>4 DEF StreamEnds, Continue
  <2> QED BY <2>1, <2>2, <2>3, <2>4 DEF CommandStep
<1>4. /\ \A d \in Commands \ {c} : call'[d] = call[d]
      /\ call'[c].term = call[c].term /\ call'[c].exited = call[c].exited
      /\ call'[c].reads = call[c].reads
  BY <1>3, <1>a DEF CallType
<1>5. term' = term \/ term' = [term EXCEPT ![call[c].term].busy = FALSE]
  BY DEF CommandStep, IntegrationReady, TypesCommand, IntegrationTimesOut, StreamTimesOut, StreamEnds, Complete,
         SubprocessEnds, Continue, CommandTimesOut, NoIntegration
<1>6. /\ \A u \in Terms : /\ term'[u].made = term[u].made /\ term'[u].provider = term[u].provider
                          /\ term'[u].proc = term[u].proc /\ term'[u].running = term[u].running
      /\ \A u \in Terms \ {call[c].term} : term'[u] = term[u]
  BY <1>2, <1>5, <1>a DEF TermType
<1>7. \/ shell' = shell
      \/ shell' = [shell EXCEPT ![call[c].term] = Append(@, [cmd |-> c, st |-> "sent"])]
  BY DEF CommandStep, IntegrationReady, TypesCommand, IntegrationTimesOut, StreamTimesOut, StreamEnds, Complete,
         SubprocessEnds, Continue, CommandTimesOut, Send
<1>8. \A u \in Terms \ {call[c].term} : shell'[u] = shell[u]
  BY <1>7, <1>b
<1>9. runs' = runs \/ runs' = [runs EXCEPT ![c] = @ + 1]
  BY DEF CommandStep, IntegrationReady, TypesCommand, IntegrationTimesOut, StreamTimesOut, StreamEnds, Complete,
         SubprocessEnds, Continue, CommandTimesOut
<1>10. \A d \in Commands \ {c} : runs'[d] = runs[d]
  BY <1>9, <1>a
<1>11. tainted \subseteq tainted'
  BY DEF CommandStep, IntegrationReady, TypesCommand, IntegrationTimesOut, StreamTimesOut, StreamEnds, Complete,
         SubprocessEnds, Continue, CommandTimesOut
<1> QED BY <1>1, <1>2, <1>4, <1>6, <1>8, <1>10, <1>11

\* An event or the user touches one terminal and the calls that have it.
LEMMA TermEffect ==
  ASSUME TypeInv, NEW t \in Terms, TermStep(t)
  PROVE  /\ \A u \in Terms \ {t} : term'[u] = term[u] /\ shell'[u] = shell[u]
         /\ \A u \in Terms : term'[u].made = term[u].made /\ term'[u].provider = term[u].provider
         /\ \A d \in Commands : /\ call[d].term # t => call'[d] = call[d]
                                /\ call'[d].term = call[d].term
                                /\ \/ call'[d].at = call[d].at
                                   \/ call[d].at = "stream" /\ call'[d].at = "reading"
                                /\ call[d].at \in {"chosen", "integration"} => call'[d] = call[d]
         /\ \A d \in Commands : call'[d].result = call[d].result
         /\ runs' = runs /\ tainted \subseteq tainted'
<1>a. term \in [Terms -> TermType] /\ call \in [Commands -> CallType] /\ runs \in [Commands -> Nat]
  BY DEF TypeInv
<1>b. shell \in [Terms -> Seq(Items)]
  BY DEF TypeInv
<1>1. \A u \in Terms \ {t} : shell'[u] = shell[u]
  BY <1>b DEF TermStep, OnStart, ShellEnds, OnEnd, UserTypes, UserCloses
<1>2. /\ \A u \in Terms \ {t} : term'[u] = term[u]
      /\ \A u \in Terms : term'[u].made = term[u].made /\ term'[u].provider = term[u].provider
  <2>1. CASE OnStart(t)
    BY <1>a, <2>1 DEF OnStart, TermType
  <2>2. CASE OnEnd(t)
    BY <1>a, <2>2 DEF OnEnd, TermType
  <2>3. CASE ShellEnds(t) \/ UserTypes(t) \/ UserCloses(t)
    BY <1>a, <2>3 DEF ShellEnds, UserTypes, UserCloses, TermType
  <2> QED BY <2>1, <2>2, <2>3 DEF TermStep
<1>3. \A d \in Commands : /\ call[d].term # t => call'[d] = call[d]
                          /\ call'[d].term = call[d].term
                          /\ \/ call'[d].at = call[d].at
                             \/ call[d].at = "stream" /\ call'[d].at = "reading"
                          /\ call[d].at \in {"chosen", "integration"} => call'[d] = call[d]
  <2>1. CASE OnStart(t)
    BY <1>a, <2>1 DEF OnStart, CallType
  <2>2. CASE OnEnd(t)
    BY <1>a, <2>2 DEF OnEnd, CallType, RunningAt
  <2>3. CASE ShellEnds(t) \/ UserTypes(t) \/ UserCloses(t)
    BY <2>3 DEF ShellEnds, UserTypes, UserCloses
  <2> QED BY <2>1, <2>2, <2>3 DEF TermStep
<1>4. runs' = runs /\ tainted \subseteq tainted'
  BY DEF TermStep, OnStart, ShellEnds, OnEnd, UserTypes, UserCloses
<1>5. \A d \in Commands : call'[d].result = call[d].result
  <2>1. CASE OnStart(t)
    BY <1>a, <2>1 DEF OnStart, CallType
  <2>2. CASE OnEnd(t)
    BY <1>a, <2>2 DEF OnEnd, CallType
  <2>3. CASE ShellEnds(t) \/ UserTypes(t) \/ UserCloses(t)
    BY <2>3 DEF ShellEnds, UserTypes, UserCloses
  <2> QED BY <2>1, <2>2, <2>3 DEF TermStep
<1> QED BY <1>1, <1>2, <1>3, <1>4, <1>5

----------------------------------------------------------------------------

LEMMA PlaceStep == ASSUME TypeInv, CallInv, [TermsNext]_termVars PROVE CallInv'
<1>a. call \in [Commands -> CallType]
  BY DEF TypeInv
<1>0. CASE UNCHANGED termVars
  BY <1>0 DEF termVars, CallInv
<1>1. ASSUME NEW c \in Commands, NEW p \in {"vscode", "execa"}, ChooseTerminal(c, p) PROVE CallInv'
  <2>1. PICK t \in Terms : ChoseTerminal(c, p, t)
    BY <1>1, ChooseEffect
  <2>2. ASSUME NEW d \in Commands
        PROVE  /\ call'[d].at # "new" => call'[d].term \in Terms /\ term'[call'[d].term].made
               /\ call'[d].at = "new" => call'[d].term \notin Terms
               /\ call'[d].at \in {"integration", "stream", "draining"} =>
                     term'[call'[d].term].provider = "vscode"
               /\ call'[d].at \in {"chosen", "integration"} => ~call'[d].exited
               /\ call'[d].at = "chosen" => term'[call'[d].term].provider \in {"vscode", "execa"}
    <3>1. CASE d = c
      BY <2>1, <3>1 DEF ChoseTerminal
    <3>2. CASE d # c
      BY <2>1, <3>2 DEF ChoseTerminal, CallInv
    <3> QED BY <3>1, <3>2
  <2> QED BY <2>2 DEF CallInv, Terms
<1>1a. ASSUME NEW c \in Commands, RunCommand(c) PROVE CallInv'
  <2>1. PICK t \in Terms : Ran(c, t)
    BY <1>1a, RunEffect
  <2>2. ASSUME NEW d \in Commands
        PROVE  /\ call'[d].at # "new" => call'[d].term \in Terms /\ term'[call'[d].term].made
               /\ call'[d].at = "new" => call'[d].term \notin Terms
               /\ call'[d].at \in {"integration", "stream", "draining"} =>
                     term'[call'[d].term].provider = "vscode"
               /\ call'[d].at \in {"chosen", "integration"} => ~call'[d].exited
               /\ call'[d].at = "chosen" => term'[call'[d].term].provider \in {"vscode", "execa"}
    <3>1. CASE d = c
      BY <2>1, <3>1 DEF Ran
    <3>2. CASE d # c
      BY <2>1, <3>2 DEF Ran, CallInv
    <3> QED BY <3>1, <3>2
  <2> QED BY <2>2 DEF CallInv, Terms
<1>2. ASSUME NEW c \in Commands, CommandStep(c) PROVE CallInv'
  <2>1. /\ call[c].at # "new" /\ call[c].term \in Terms
        /\ \A d \in Commands \ {c} : call'[d] = call[d]
        /\ call'[c].term = call[c].term /\ call'[c].exited = call[c].exited
        /\ \A u \in Terms : term'[u].made = term[u].made /\ term'[u].provider = term[u].provider
    BY <1>2, CommandEffect DEF RunningAt
  <2>2. /\ call'[c].at \in {"integration", "stream", "draining"} => term[call[c].term].provider = "vscode"
        /\ call'[c].at = "integration" => call[c].at = "integration"
        /\ call'[c].at \notin {"new", "chosen"}
    <3> USE <1>a DEF CallType, RunningAt
    <3>1. CASE IntegrationReady(c) \/ TypesCommand(c) \/ IntegrationTimesOut(c) \/ StreamTimesOut(c)
      BY <3>1 DEF IntegrationReady, TypesCommand, IntegrationTimesOut, StreamTimesOut, NoIntegration, Unheard, CallInv
    <3>2. CASE StreamEnds(c)
      BY <3>2 DEF StreamEnds
    <3>3. CASE Complete(c) \/ SubprocessEnds(c)
      BY <3>3 DEF Complete, SubprocessEnds, Unheard
    <3>4. CASE Continue(c) \/ CommandTimesOut(c)
      BY <3>4 DEF Continue, CommandTimesOut, CallInv
    <3> QED BY <1>2, <3>1, <3>2, <3>3, <3>4 DEF CommandStep
  <2>3. ASSUME NEW d \in Commands
        PROVE  /\ call'[d].at # "new" => call'[d].term \in Terms /\ term'[call'[d].term].made
               /\ call'[d].at = "new" => call'[d].term \notin Terms
               /\ call'[d].at \in {"integration", "stream", "draining"} =>
                     term'[call'[d].term].provider = "vscode"
               /\ call'[d].at \in {"chosen", "integration"} => ~call'[d].exited
               /\ call'[d].at = "chosen" => term'[call'[d].term].provider \in {"vscode", "execa"}
    <3>1. CASE d = c
      BY <2>1, <2>2, <3>1 DEF CallInv
    <3>2. CASE d # c
      BY <2>1, <3>2 DEF CallInv
    <3> QED BY <3>1, <3>2
  <2> QED BY <2>3 DEF CallInv, Terms
<1>3. ASSUME NEW t \in Terms, TermStep(t) PROVE CallInv'
  <2>1. /\ \A u \in Terms : term'[u].made = term[u].made /\ term'[u].provider = term[u].provider
        /\ \A d \in Commands : /\ call'[d].term = call[d].term
                               /\ \/ call'[d].at = call[d].at
                                  \/ call[d].at = "stream" /\ call'[d].at = "reading"
                               /\ call[d].at \in {"chosen", "integration"} => call'[d] = call[d]
    BY <1>3, TermEffect
  <2> QED BY <2>1 DEF CallInv, Terms
<1> QED BY <1>0, <1>1, <1>1a, <1>2, <1>3, TermSteps

LEMMA RunsStep == ASSUME TypeInv, CallInv, RunsInv, [TermsNext]_termVars PROVE RunsInv'
<1>a. call \in [Commands -> CallType] /\ runs \in [Commands -> Nat]
  BY DEF TypeInv
<1> DEFINE Ok(d) == /\ call[d].at \in {"new", "integration"} => runs[d] = 0
                    /\ call[d].at = "chosen" => \/ runs[d] = 0
                                                \/ runs[d] = 1 /\ term[call[d].term].provider = "execa"
                    /\ OnShell(d) \/ call[d].at = "fallback" => runs[d] <= 1
                    /\ runs[d] <= 2
                    /\ call[d].at \in {"new", "chosen", "fallback"} => call[d].result = "none"
<1>b. \A d \in Commands : Ok(d)
  BY DEF RunsInv
<1>c. SUFFICES ASSUME NEW d \in Commands PROVE Ok(d)'
  BY DEF RunsInv
<1>0. CASE UNCHANGED termVars
  BY <1>0, <1>b DEF termVars, OnShell
<1>1. ASSUME NEW c \in Commands, NEW p \in {"vscode", "execa"}, ChooseTerminal(c, p) PROVE Ok(d)'
  <2>1. PICK t \in Terms : ChoseTerminal(c, p, t)
    BY <1>1, ChooseEffect
  <2>2. CASE d = c
    <3>1. call[c].at = "new" \/ (call[c].at = "fallback" /\ p = "execa")
      BY <1>1 DEF ChooseTerminal, MayExecute
    <3>2. runs[c] \in Nat /\ runs[c] <= 1 /\ (p # "execa" => runs[c] = 0)
      BY <1>a, <1>b, <2>2, <3>1
    <3>3. /\ call'[c].at = "chosen" /\ call'[c].term = t /\ call'[c].result = "none"
          /\ runs'[c] = runs[c] /\ term'[t].provider = p
      BY <2>1 DEF ChoseTerminal
    <3> QED BY <2>2, <3>2, <3>3 DEF OnShell
  <2>3. CASE d # c
    <3>1. OnShell(d)' => OnShell(d)
      BY <2>1, <2>3 DEF ChoseTerminal, OnShell, CallInv
    <3>2. call[d].at = "chosen" /\ term[call[d].term].provider = "execa" => term'[call[d].term].provider = "execa"
      BY <2>1 DEF ChoseTerminal, CallInv
    <3> QED BY <1>b, <2>1, <2>3, <3>1, <3>2 DEF ChoseTerminal
  <2> QED BY <2>2, <2>3
<1>1a. ASSUME NEW c \in Commands, RunCommand(c) PROVE Ok(d)'
  <2>1. PICK t \in Terms : Ran(c, t)
    BY <1>1a, RunEffect
  <2>2. CASE d = c
    <3>1. runs[c] \in Nat
      BY <1>a
    <3> QED BY <1>b, <2>1, <2>2, <3>1 DEF Ran, OnShell
  <2>3. CASE d # c
    <3>1. OnShell(d)' => OnShell(d)
      BY <2>1, <2>3 DEF Ran, OnShell, CallInv
    <3>2. call[d].at = "chosen" => term'[call[d].term].provider = term[call[d].term].provider
      BY <2>1 DEF Ran, CallInv
    <3> QED BY <1>b, <2>1, <2>3, <3>1, <3>2 DEF Ran
  <2> QED BY <2>2, <2>3
<1>2. ASSUME NEW c \in Commands, CommandStep(c) PROVE Ok(d)'
  <2>1. /\ \A e \in Commands \ {c} : call'[e] = call[e] /\ runs'[e] = runs[e]
        /\ call[c].term \in Terms /\ call'[c].term = call[c].term
        /\ \A u \in Terms : term'[u].provider = term[u].provider
    BY <1>2, CommandEffect
  <2>2. CASE d # c
    <3>1. OnShell(d)' => OnShell(d)
      BY <2>1, <2>2 DEF OnShell, CallInv
    <3>2. call[d].at = "chosen" => call[d].term \in Terms
      BY DEF CallInv
    <3> QED BY <1>b, <2>1, <2>2, <3>1, <3>2
  <2>3. CASE d = c
    <3> USE <1>a, <1>b, <2>1, <2>3 DEF CallType, OnShell
    <3>1. CASE IntegrationReady(c)
      BY <3>1 DEF IntegrationReady
    <3>1a. CASE TypesCommand(c)
      <4>1. runs' = [runs EXCEPT ![c] = @ + 1] /\ runs[c] = 0
        BY <3>1a DEF TypesCommand
      <4>2. call' = [call EXCEPT ![c].at = Unheard(c)]
        BY <3>1a DEF TypesCommand, NoIntegration
      <4> QED BY <4>1, <4>2 DEF Unheard
    <3>2. CASE IntegrationTimesOut(c)
      BY <3>2 DEF IntegrationTimesOut, NoIntegration, Unheard
    <3>3. CASE StreamTimesOut(c)
      <4>1. runs' = runs /\ runs[c] \in Nat /\ runs[c] <= 1
        BY <3>3 DEF StreamTimesOut
      <4>2. call' = [call EXCEPT ![c].at = Unheard(c)]
        BY <3>3 DEF StreamTimesOut, NoIntegration
      <4> QED BY <4>1, <4>2 DEF Unheard
    <3>4. CASE StreamEnds(c)
      BY <3>4 DEF StreamEnds
    <3>5. CASE Complete(c)
      <4>1. runs' = runs /\ runs[c] \in Nat /\ runs[c] <= 1
        BY <3>5 DEF Complete
      <4>2. \/ call'[c].at = "done"
            \/ call' = [call EXCEPT ![c].at = Unheard(c)]
        BY <3>5 DEF Complete
      <4> QED BY <4>1, <4>2 DEF Unheard
    <3>6. CASE SubprocessEnds(c)
      BY <3>6 DEF SubprocessEnds
    <3>7. CASE Continue(c) \/ CommandTimesOut(c)
      BY <3>7 DEF Continue, CommandTimesOut, RunningAt
    <3> QED BY <1>2, <3>1, <3>1a, <3>2, <3>3, <3>4, <3>5, <3>6, <3>7 DEF CommandStep
  <2> QED BY <2>2, <2>3
<1>3. ASSUME NEW t \in Terms, TermStep(t) PROVE Ok(d)'
  <2>1. /\ call'[d].term = call[d].term
        /\ \/ call'[d].at = call[d].at
           \/ call[d].at = "stream" /\ call'[d].at = "reading"
        /\ \A u \in Terms : term'[u].provider = term[u].provider
        /\ runs' = runs /\ (call[d].at \in {"new", "chosen", "fallback"} => call'[d].result = call[d].result)
    BY <1>3, TermEffect
  <2>2. OnShell(d)' => OnShell(d)
    BY <2>1 DEF OnShell, CallInv
  <2>3. call[d].at = "chosen" => call[d].term \in Terms
    BY DEF CallInv
  <2> QED BY <1>b, <2>1, <2>2, <2>3
<1> QED BY <1>0, <1>1, <1>1a, <1>2, <1>3, TermSteps

\* A terminal that a step does not touch keeps its owner.
LEMMA OwnKept ==
  ASSUME NEW u \in Terms, Owned(u), term'[u] = term[u], shell'[u] = shell[u],
         \A d \in Commands : Live(d, u)' => call'[d] = call[d],
         \A d \in Commands : Live(d, u) => call'[d] = call[d],
         \A d \in Commands : call'[d].term = u => call'[d] = call[d]
  PROVE  Owned(u)'
  BY DEF Owned, Live, Chosen

LEMMA OwnChoose ==
  ASSUME TypeInv, CallInv, OwnInv, NEW c \in Commands, NEW p \in {"vscode", "execa"},
         ChooseTerminal(c, p)
  PROVE  OwnInv'
<1>1. PICK t \in Terms : ChoseTerminal(c, p, t)
  BY ChooseEffect
<1>2. call[c].at \in {"new", "fallback"}
  BY DEF ChooseTerminal, MayExecute
<1>3. SUFFICES ASSUME NEW u \in Terms, u \notin tainted' PROVE Owned(u)'
  BY DEF OwnInv, Terms
<1>4. Owned(u)
  BY <1>1, <1>3 DEF OwnInv, ChoseTerminal
<1>5. CASE u # t
  <2>1. /\ term'[u] = term[u] /\ shell'[u] = shell[u]
        /\ \A d \in Commands \ {c} : call'[d] = call[d]
        /\ call'[c].term = t
    BY <1>1, <1>5 DEF ChoseTerminal
  <2>2. ~Live(c, u) /\ ~Live(c, u)'
    BY <1>2, <1>5, <2>1 DEF Live, RunningAt
  <2> QED BY <1>4, <1>5, <2>1, <2>2, OwnKept
<1>6. CASE u = t
  <2>1. \A d \in Commands : ~Live(d, t) /\ ~Chosen(d, t)
    BY <1>1, <1>3, <1>4, <1>6 DEF ChoseTerminal, Owned
  <2>2. shell[t] = <<>> /\ ~term[t].busy
    BY <1>1, <1>4, <1>6, <2>1 DEF Owned, ChoseTerminal
  <2>3. \A d \in Commands : ~Live(d, t)' /\ (Chosen(d, t)' => d = c)
    BY <1>1, <2>1 DEF ChoseTerminal, Live, Chosen, RunningAt
  <2>4. p = "execa" => \A d \in Commands : call'[d].term = t => ~call'[d].exited
    <3> SUFFICES ASSUME p = "execa", NEW d \in Commands, call'[d].term = t, d # c
                 PROVE  ~call'[d].exited
      BY <1>1 DEF ChoseTerminal
    <3>1. call'[d] = call[d]
      BY <1>1 DEF ChoseTerminal
    <3>2. term[t].made
      BY <3>1 DEF CallInv
    <3> QED BY <1>1, <1>4, <1>6, <3>1, <3>2 DEF ChoseTerminal, Owned
  <2>5. /\ ~term'[t].busy /\ term'[t].made /\ term'[t].provider = p
        /\ shell'[t] = <<>>
    BY <1>1, <2>2 DEF ChoseTerminal
  <2> QED BY <1>6, <2>3, <2>4, <2>5 DEF Owned
<1> QED BY <1>5, <1>6

LEMMA OwnRun ==
  ASSUME TypeInv, CallInv, OwnInv, NEW c \in Commands, RunCommand(c)
  PROVE  OwnInv'
<1>1. PICK t \in Terms : Ran(c, t)
  BY RunEffect
<1>2. SUFFICES ASSUME NEW u \in Terms, u \notin tainted PROVE Owned(u)'
  BY <1>1 DEF OwnInv, Terms, Ran
<1>3. Owned(u)
  BY <1>2 DEF OwnInv
<1>4. CASE u # t
  <2>1. /\ term'[u] = term[u] /\ shell'[u] = shell[u]
        /\ \A d \in Commands \ {c} : call'[d] = call[d]
        /\ call[c].term = t /\ call'[c].term = t
    BY <1>1, <1>4 DEF Ran
  <2>2. ~Live(c, u) /\ ~Live(c, u)'
    BY <1>4, <2>1 DEF Live
  <2> QED BY <1>3, <1>4, <2>1, <2>2, OwnKept
<1>5. CASE u = t
  <2>1. Chosen(c, t)
    BY <1>1 DEF Ran, Chosen
  <2>2. ~term[t].busy /\ \A d \in Commands : Chosen(d, t) => c = d
    BY <1>3, <1>5, <2>1 DEF Owned
  <2>3. \A d \in Commands : ~Live(d, t)
    BY <1>3, <1>5, <2>2 DEF Owned
  <2>4. shell[t] = <<>>
    BY <1>3, <1>5, <2>3 DEF Owned
  <2>5. \A d \in Commands : ~Chosen(d, t)' /\ (Live(d, t)' => d = c)
    BY <1>1, <2>2, <2>3 DEF Ran, Live, Chosen
  <2>6. /\ term'[t].busy /\ term'[t].proc = c /\ term'[t].made /\ shell'[t] = <<>>
        /\ term'[t].provider = term[t].provider
    BY <1>1, <2>4 DEF Ran
  <2>7. term[t].provider = "execa" => \A d \in Commands : call'[d].term = t => ~call'[d].exited
    BY <1>1, <1>3, <1>5 DEF Ran, Owned
  <2> QED BY <1>5, <2>5, <2>6, <2>7 DEF Owned
<1> QED BY <1>4, <1>5

LEMMA OwnCommand ==
  ASSUME TypeInv, CallInv, OwnInv, NEW c \in Commands, CommandStep(c)
  PROVE  OwnInv'
<1>a. term \in [Terms -> TermType] /\ call \in [Commands -> CallType]
  BY DEF TypeInv
<1>b. shell \in [Terms -> Seq(Items)]
  BY DEF TypeInv
<1>0. PICK t \in Terms : t = call[c].term
  BY CommandEffect
<1>1. /\ call[c].at \in RunningAt \union {"killed"} /\ t \in Terms
      /\ \A d \in Commands \ {c} : call'[d] = call[d]
      /\ call'[c].term = t /\ call'[c].exited = call[c].exited
      /\ \A u \in Terms : /\ term'[u].made = term[u].made /\ term'[u].provider = term[u].provider
                          /\ term'[u].proc = term[u].proc /\ term'[u].running = term[u].running
      /\ \A u \in Terms \ {t} : term'[u] = term[u] /\ shell'[u] = shell[u]
      /\ tainted \subseteq tainted'
  BY <1>0, CommandEffect
<1>c. call'[c].at # "chosen" /\ \A d \in Commands, v \in Terms : Chosen(d, v)' => Chosen(d, v)
  <2>1. call'[c].at # "chosen"
    <3> USE <1>a DEF CallType, RunningAt
    <3>1. CASE IntegrationReady(c) \/ TypesCommand(c) \/ IntegrationTimesOut(c) \/ StreamTimesOut(c)
      BY <3>1 DEF IntegrationReady, TypesCommand, IntegrationTimesOut, StreamTimesOut, NoIntegration, Unheard
    <3>2. CASE StreamEnds(c) \/ Complete(c) \/ SubprocessEnds(c)
      BY <3>2 DEF StreamEnds, Complete, SubprocessEnds, Unheard
    <3>3. CASE Continue(c) \/ CommandTimesOut(c)
      BY <3>3 DEF Continue, CommandTimesOut
    <3> QED BY <3>1, <3>2, <3>3 DEF CommandStep
  <2> QED BY <1>1, <2>1 DEF Chosen
<1>d. Live(c, t) => \A d \in Commands : ~Chosen(d, t) \/ t \in tainted
  BY <1>0, <1>1 DEF OwnInv, Owned
<1>2. SUFFICES ASSUME NEW u \in Terms, u \notin tainted' PROVE Owned(u)'
  BY DEF OwnInv, Terms
<1>3. Owned(u)
  BY <1>0, <1>1, <1>2 DEF OwnInv
<1>4. CASE u # t
  <2>1. ~Live(c, u) /\ ~Live(c, u)'
    BY <1>0, <1>1, <1>4 DEF Live
  <2> QED BY <1>0, <1>1, <1>3, <1>4, <2>1, OwnKept DEF Chosen
<1>5. ASSUME u = t, \A d \in Commands : ~Live(d, t) \/ d = c, ~Live(c, t)',
             term'[t].busy = FALSE, shell' = shell, shell[t] = <<>>
      PROVE  Owned(u)'
  <2>1. \A d \in Commands : ~Live(d, t)'
    BY <1>0, <1>1, <1>5 DEF Live
  <2>2. shell'[t] = <<>>
    BY <1>0, <1>5
  <2>3. term'[t].provider = "execa" => \A d \in Commands : call'[d].term = t => ~call'[d].exited
    BY <1>0, <1>1, <1>3, <1>5 DEF Owned
  <2> QED BY <1>0, <1>1, <1>3, <1>5, <2>1, <2>2, <2>3, <1>c DEF Owned
<1>6. u = t /\ Live(c, t) => \A d \in Commands : ~Live(d, t) \/ d = c
  BY <1>0, <1>3 DEF Owned
<1>7. CASE u = t /\ IntegrationReady(c)
  <2>1. call[c].at = "integration" /\ Live(c, t)
    BY <1>0, <1>7 DEF IntegrationReady, CallInv, Live, RunningAt
  <2>2. shell[t] = <<>>
    BY <1>0, <1>3, <1>7, <2>1 DEF Owned
  <2>3. shell'[t] = <<[cmd |-> c, st |-> "sent"]>>
    BY <1>0, <1>7, <1>b, <1>1, <2>2 DEF IntegrationReady, Send
  <2>4. call'[c].at = "stream" /\ term' = term
    BY <1>0, <1>7, <1>a DEF IntegrationReady, CallType
  <2>5. Live(c, t)'
    BY <1>0, <1>1, <2>1, <2>4 DEF Live, RunningAt
  <2>6. \A d \in Commands : Live(d, t)' => d = c
    BY <1>0, <1>1, <1>6, <1>7, <2>1 DEF Live
  <2>7. term[t].provider = "vscode"
    BY <1>0, <2>1 DEF CallInv
  <2>8. term[t].busy /\ term[t].proc = c
    BY <1>0, <1>3, <1>7, <2>1 DEF Owned
  <2>9. Len(shell'[t]) = 1 /\ shell'[t][1].cmd = c /\ shell'[t][1].st = "sent"
    BY <1>0, <2>3
  <2> QED BY <1>0, <1>3, <1>7, <2>4, <2>5, <2>6, <2>7, <2>8, <2>9, <1>c, <1>d, <1>1, <1>2 DEF Owned
<1>8. CASE u = t /\ IntegrationTimesOut(c)
  <2>1. call[c].at = "integration" /\ Live(c, t)
    BY <1>0, <1>8 DEF IntegrationTimesOut, CallInv, Live, RunningAt
  <2>2. shell[t] = <<>> /\ shell' = shell
    BY <1>0, <1>3, <1>8, <2>1 DEF Owned, IntegrationTimesOut
  <2>3. call'[c].at \in {"fallback", "done"}
    BY <1>0, <1>8, <1>a DEF IntegrationTimesOut, NoIntegration, Unheard, CallType
  <2>4. ~Live(c, t)'
    BY <1>0, <2>3 DEF Live, RunningAt
  <2>5. term'[t].busy = FALSE
    BY <1>0, <1>8, <1>1, <1>a DEF IntegrationTimesOut, NoIntegration, TermType
  <2> QED BY <1>0, <1>5, <1>6, <1>8, <2>1, <2>2, <2>4, <2>5
<1>9. CASE u = t /\ (StreamTimesOut(c) \/ TypesCommand(c))
  BY <1>0, <1>2, <1>9 DEF StreamTimesOut, TypesCommand
<1>10. CASE u = t /\ (StreamEnds(c) \/ Continue(c))
  <2>1. term' = term /\ shell' = shell /\ call[c].at = "reading"
    BY <1>0, <1>10 DEF StreamEnds, Continue
  <2>2. call'[c].at \in {"reading", "draining"}
    BY <1>0, <1>10, <1>a DEF StreamEnds, Continue, CallType
  <2>3. \A d \in Commands : Live(d, t)' <=> Live(d, t)
    BY <1>0, <1>1, <2>1, <2>2 DEF Live, RunningAt
  <2>4. \A d \in Commands : /\ call'[d].at = "integration" => call[d].at = "integration"
                            /\ call[d].at = "stream" => call'[d].at = "stream"
                            /\ call[d].at \in {"reading", "draining"} => call'[d].at \in {"reading", "draining"}
                            /\ call'[d].term = call[d].term /\ call'[d].exited = call[d].exited
    BY <1>0, <1>1, <2>1, <2>2
  <2> QED BY <1>0, <1>3, <1>10, <1>c, <2>1, <2>3, <2>4 DEF Owned
<1>11. CASE u = t /\ Complete(c)
  <2>1. call[c].at = "draining" /\ call[c].exited /\ shell' = shell
    BY <1>0, <1>11 DEF Complete
  <2>2. term[t].proc \in {None, c}
    BY <1>0, <1>2, <1>11 DEF Complete, Proc
  <2>3. \A d \in Commands : ~Live(d, t)
    BY <1>0, <1>3, <1>11, <2>1, <2>2, TermsAssumption DEF Owned, Live
  <2>4. shell[t] = <<>>
    BY <1>0, <1>3, <1>11, <2>3 DEF Owned
  <2>5. term'[t].busy = FALSE
    BY <1>0, <1>11, <1>1, <1>a DEF Complete, TermType
  <2>6. ~Live(c, t)'
    BY <1>0, <1>1, <2>1 DEF Live
  <2> QED BY <1>0, <1>5, <1>11, <2>1, <2>3, <2>4, <2>5, <2>6
<1>12. CASE u = t /\ SubprocessEnds(c)
  <2>1. call[c].at \in {"reading", "killed"} /\ term[t].provider = "execa" /\ shell' = shell
    BY <1>0, <1>12 DEF SubprocessEnds
  <2>2. shell[t] = <<>> /\ ~call[c].exited
    BY <1>0, <1>3, <1>12, <2>1 DEF Owned
  <2>3. Live(c, t)
    BY <1>0, <2>1, <2>2 DEF Live, RunningAt
  <2>4. term'[t].busy = FALSE /\ call'[c].at = "done"
    BY <1>0, <1>12, <1>1, <1>a DEF SubprocessEnds, TermType, CallType
  <2>5. ~Live(c, t)'
    BY <1>0, <2>4 DEF Live, RunningAt
  <2> QED BY <1>0, <1>5, <1>6, <1>12, <2>1, <2>2, <2>3, <2>4, <2>5
<1>13. CASE u = t /\ CommandTimesOut(c)
  <2>1. term' = term /\ shell' = shell /\ call[c].at \in RunningAt
    BY <1>0, <1>13 DEF CommandTimesOut
  <2>2. call'[c].at = IF term[t].provider = "execa" THEN "killed" ELSE call[c].at
    BY <1>0, <1>13, <1>a DEF CommandTimesOut, CallType
  <2>3. \A d \in Commands : Live(d, t)' <=> Live(d, t)
    BY <1>0, <1>1, <2>1, <2>2 DEF Live, RunningAt
  <2>4. \A d \in Commands : /\ call'[d].at = "integration" => call[d].at = "integration"
                            /\ term[t].provider # "execa" => call'[d].at = call[d].at
                            /\ call'[d].term = call[d].term /\ call'[d].exited = call[d].exited
    BY <1>0, <1>1, <2>2
  <2>5. CASE term[t].provider = "execa"
    <3>1. shell[t] = <<>>
      BY <1>0, <1>3, <1>13, <2>5 DEF Owned
    <3> QED BY <1>0, <1>3, <1>13, <1>c, <2>1, <2>3, <2>4, <3>1 DEF Owned
  <2>6. CASE term[t].provider # "execa"
    BY <1>0, <1>3, <1>13, <1>c, <2>1, <2>3, <2>4, <2>6 DEF Owned
  <2> QED BY <1>0, <2>5, <2>6
<1> QED BY <1>0, <1>4, <1>7, <1>8, <1>9, <1>10, <1>11, <1>12, <1>13 DEF CommandStep

LEMMA OwnTerm ==
  ASSUME TypeInv, CallInv, OwnInv, NEW t \in Terms, TermStep(t)
  PROVE  OwnInv'
<1>a. term \in [Terms -> TermType] /\ call \in [Commands -> CallType]
  BY DEF TypeInv
<1>b. shell \in [Terms -> Seq(Items)]
  BY DEF TypeInv
<1>1. /\ \A u \in Terms \ {t} : term'[u] = term[u] /\ shell'[u] = shell[u]
      /\ \A d \in Commands : /\ call[d].term # t => call'[d] = call[d]
                             /\ call'[d].term = call[d].term
      /\ tainted \subseteq tainted'
  BY TermEffect
<1>2. SUFFICES ASSUME NEW u \in Terms, u \notin tainted' PROVE Owned(u)'
  BY DEF OwnInv, Terms
<1>3. Owned(u)
  BY <1>1, <1>2 DEF OwnInv
<1>4. CASE u # t
  BY <1>1, <1>3, <1>4, OwnKept DEF Live, Chosen
<1>5. CASE u = t /\ (UserTypes(t) \/ UserCloses(t))
  BY <1>2, <1>5 DEF UserTypes, UserCloses
<1>6. CASE u = t /\ (OnStart(t) \/ ShellEnds(t) \/ OnEnd(t))
  <2>1. shell[t] # <<>>
    BY <1>6 DEF OnStart, ShellEnds, OnEnd
  <2>2. PICK c \in Commands :
          /\ Live(c, t) /\ Len(shell[t]) = 1 /\ shell[t][1].cmd = c
          /\ \/ shell[t][1].st = "sent" /\ call[c].at = "stream"
             \/ /\ shell[t][1].st \in {"running", "ended"} /\ term[t].running
                /\ call[c].at \in {"reading", "draining"}
    BY <1>3, <1>6, <2>1 DEF Owned
  <2>3. /\ term[t].busy /\ term[t].proc = c /\ term[t].provider # "execa" /\ term[t].made
        /\ \A d \in Commands : ~Chosen(d, t) /\ (Live(d, t) => d = c)
    BY <1>3, <1>6, <2>1, <2>2 DEF Owned
  <2>3a. \A d \in Commands : ~Chosen(d, t)'
    <3>1. \A d \in Commands : call'[d].term = call[d].term /\ (call'[d].at = "chosen" => call[d].at = "chosen")
      BY TermEffect
    <3> QED BY <2>3, <3>1 DEF Chosen
  <2>4. Head(shell[t]) = shell[t][1] /\ shell[t] \in Seq(Items) /\ shell[t][1] \in Items
    BY <1>b, <2>1, <2>2
  <2>5. CASE OnStart(t)
    <3>1. shell[t][1].st = "sent" /\ call[c].at = "stream" /\ ~call[c].exited /\ call[c].term = t
      BY <2>2, <2>4, <2>5 DEF OnStart, Live
    <3>2. /\ call'[c].at = "reading" /\ call'[c].exited = call[c].exited /\ call'[c].term = t
          /\ \A d \in Commands \ {c} : call'[d] = call[d]
      BY <1>a, <2>3, <2>5, <3>1 DEF OnStart, Proc, CallType
    <3>3. /\ term'[t].busy /\ term'[t].proc = c /\ term'[t].running
          /\ term'[t].provider = term[t].provider /\ term'[t].made
      BY <1>a, <2>3, <2>5, TermsAssumption DEF OnStart, Proc, TermType
    <3>4. /\ Len(shell'[t]) = 1 /\ shell'[t][1].cmd = c /\ shell'[t][1].st = "running"
      <4>1. shell'[t] = [shell[t] EXCEPT ![1] = [shell[t][1] EXCEPT !.st = "running"]]
        BY <1>b, <2>5 DEF OnStart
      <4> QED BY <2>2, <2>4, <4>1 DEF Items
    <3>5. Live(c, t)' /\ \A d \in Commands : Live(d, t)' => d = c
      BY <2>3, <3>1, <3>2 DEF Live, RunningAt
    <3> QED BY <1>6, <2>3, <2>3a, <3>2, <3>3, <3>4, <3>5 DEF Owned
  <2>6. CASE ShellEnds(t)
    <3>1. /\ term' = term /\ call' = call
          /\ shell[t][1].st = "running"
      BY <2>4, <2>6 DEF ShellEnds
    <3>2. /\ Len(shell'[t]) = 1 /\ shell'[t][1].cmd = c /\ shell'[t][1].st = "ended"
      <4>1. shell'[t] = [shell[t] EXCEPT ![1] = [shell[t][1] EXCEPT !.st = "ended"]]
        BY <1>b, <2>6 DEF ShellEnds
      <4> QED BY <2>2, <2>4, <4>1 DEF Items
    <3>3. \A d \in Commands : Live(d, t)' <=> Live(d, t)
      BY <3>1 DEF Live
    <3> QED BY <1>6, <2>2, <2>3, <2>3a, <3>1, <3>2, <3>3 DEF Owned
  <2>7. CASE OnEnd(t)
    <3>1. /\ term[t].running /\ call[c].at \in {"reading", "draining"} /\ call[c].term = t
      BY <2>2, <2>4, <2>7 DEF OnEnd, Live
    <3>2. call'[c].exited = TRUE /\ \A d \in Commands \ {c} : call'[d] = call[d]
      BY <1>a, <2>3, <2>7, <3>1 DEF OnEnd, Proc, CallType, RunningAt
    <3>3. shell'[t] = <<>>
      <4>1. shell'[t] = Tail(shell[t])
        BY <1>b, <2>7 DEF OnEnd
      <4>2. Tail(shell[t]) \in Seq(Items) /\ Len(Tail(shell[t])) = 0
        BY <2>1, <2>2, <2>4, HeadTailProperties
      <4> QED BY <4>1, <4>2, EmptySeq
    <3>4. \A d \in Commands : ~Live(d, t)'
      BY <2>3, <3>2 DEF Live
    <3>5. term'[t].made /\ term'[t].provider = term[t].provider
      BY <1>a, <2>3, <2>7 DEF OnEnd, TermType
    <3> QED BY <1>6, <2>3, <2>3a, <3>3, <3>4, <3>5 DEF Owned
  <2> QED BY <1>6, <2>5, <2>6, <2>7
<1> QED BY <1>4, <1>5, <1>6 DEF TermStep

LEMMA OwnStep == ASSUME TypeInv, CallInv, OwnInv, [TermsNext]_termVars PROVE OwnInv'
<1>1. CASE UNCHANGED termVars
  BY <1>1 DEF termVars, OwnInv, Owned, Live, Chosen, Terms
<1> QED BY <1>1, TermSteps, OwnChoose, OwnRun, OwnCommand, OwnTerm

\* A stream goes to the process of its terminal, which is the command's own
\* unless something else was run there.
LEMMA ReadsStep ==
  ASSUME TypeInv, CallInv, OwnInv, ReadsInv, [TermsNext]_termVars PROVE ReadsInv'
<1>a. call \in [Commands -> CallType]
  BY DEF TypeInv
<1>0. CASE UNCHANGED termVars
  BY <1>0 DEF termVars, ReadsInv
<1>1. ASSUME NEW c \in Commands, NEW p \in {"vscode", "execa"}, ChooseTerminal(c, p) PROVE ReadsInv'
  <2>1. PICK t \in Terms : ChoseTerminal(c, p, t)
    BY <1>1, ChooseEffect
  <2> QED BY <2>1 DEF ReadsInv, ChoseTerminal
<1>1a. ASSUME NEW c \in Commands, RunCommand(c) PROVE ReadsInv'
  <2>1. PICK t \in Terms : Ran(c, t)
    BY <1>1a, RunEffect
  <2> QED BY <2>1 DEF ReadsInv, Ran
<1>2. ASSUME NEW c \in Commands, CommandStep(c) PROVE ReadsInv'
  <2>1. /\ \A d \in Commands : call'[d].reads = call[d].reads /\ call'[d].term = call[d].term
        /\ tainted \subseteq tainted'
    BY <1>2, CommandEffect
  <2> QED BY <2>1 DEF ReadsInv
<1>3. ASSUME NEW t \in Terms, TermStep(t) PROVE ReadsInv'
  <2>1. /\ \A d \in Commands : call'[d].term = call[d].term
        /\ tainted \subseteq tainted'
    BY <1>3, TermEffect
  <2>2. ASSUME NEW d \in Commands, call'[d].reads \notin {None, d} PROVE call'[d].term \in tainted'
    <3>1. CASE call'[d].reads = call[d].reads
      BY <2>1, <2>2, <3>1 DEF ReadsInv
    <3>2. CASE call'[d].reads # call[d].reads
      <4>1. OnStart(t)
        <5>1. ~ShellEnds(t) /\ ~UserTypes(t) /\ ~UserCloses(t)
          BY <3>2 DEF ShellEnds, UserTypes, UserCloses
        <5>2. ~OnEnd(t)
          BY <1>a, <3>2 DEF OnEnd, CallType
        <5> QED BY <1>3, <5>1, <5>2 DEF TermStep
      <4>2. call[d].term = t /\ d = Proc(t) /\ call'[d].reads = Head(shell[t]).cmd
        BY <1>a, <3>2, <4>1 DEF OnStart, CallType
      <4>3. CASE t \notin tainted
        <5>1. shell[t] # <<>> /\ shell[t] \in Seq(Items)
          BY <4>1 DEF OnStart, TypeInv
        <5>2. PICK c \in Commands : Live(c, t) /\ Len(shell[t]) = 1 /\ shell[t][1].cmd = c
          BY <4>3, <5>1 DEF OwnInv, Owned
        <5>3. term[t].proc = c
          BY <4>3, <5>2 DEF OwnInv, Owned
        <5>4. Head(shell[t]) = shell[t][1]
          BY <5>1, <5>2
        <5> QED BY <2>2, <4>2, <5>2, <5>3, <5>4 DEF Proc
      <4> QED BY <2>1, <4>2, <4>3
    <3> QED BY <3>1, <3>2
  <2> QED BY <2>2 DEF ReadsInv
<1> QED BY <1>0, <1>1, <1>1a, <1>2, <1>3, TermSteps

LEMMA Invariant == TermsSpec => []TermsInv
<1>1. TermsInv /\ [TermsNext]_termVars => TermsInv'
  BY TypeStep, PlaceStep, RunsStep, OwnStep, ReadsStep DEF TermsInv
<1> QED BY InitTermsInv, <1>1, PTL DEF TermsSpec

----------------------------------------------------------------------------

\* Every value stays within its type; no command is started a third time.
THEOREM TerminalTypes == TermsSpec => []TerminalsTypeOK
<1>1. TermsInv => TerminalsTypeOK
  <2> SUFFICES ASSUME TermsInv PROVE TerminalsTypeOK
    OBVIOUS
  <2> USE DEF TermsInv, TypeInv
  <2>1. term \in [Terms -> [made : BOOLEAN, provider : {"none", "vscode", "execa"}, busy : BOOLEAN,
                           running : BOOLEAN, proc : Commands \union {None}, closed : BOOLEAN]]
    BY DEF TermType
  <2>2. \A t \in Terms : \A k \in DOMAIN shell[t] :
           shell[t][k] \in [cmd : Commands \union {User}, st : {"sent", "running", "ended"}]
    <3>1. ASSUME NEW t \in Terms, NEW k \in DOMAIN shell[t] PROVE shell[t][k] \in Items
      <4>1. shell[t] \in Seq(Items)
        OBVIOUS
      <4> QED BY <4>1
    <3> QED BY <3>1 DEF Items
  <2>3. call \in [Commands -> [at : RunningAt \union {"new", "chosen", "fallback", "killed", "done"}, term : 0..MaxTerms,
                              reads : Commands \union {None, User}, exited : BOOLEAN,
                              result : {"none", "exit", "running", "timeout"}]]
    BY DEF CallType, CallPlaces
  <2>4. runs \in [Commands -> 0..2]
    BY DEF RunsInv
  <2> QED BY <2>1, <2>2, <2>3, <2>4 DEF TerminalsTypeOK
<1> QED BY Invariant, <1>1, PTL

\* No two commands that have not ended share a terminal, and none reads the
\* output of another, in any pool, unless something else was run in it or the
\* late completion of an earlier command had freed it.
THEOREM TerminalsAreExclusive == TermsSpec => []OneCommandEach
<1>1. TermsInv => OneCommandEach
  <2> SUFFICES ASSUME TermsInv PROVE OneCommandEach
    OBVIOUS
  <2>1. ASSUME NEW t \in Terms \ tainted, NEW c \in Commands, NEW d \in Commands,
               Holding(c, t), Holding(d, t)
        PROVE  c = d
    <3>1. Live(c, t) /\ Live(d, t)
      BY <2>1 DEF Holding, Live
    <3> QED BY <3>1 DEF TermsInv, OwnInv, Owned
  <2> QED BY <2>1 DEF TermsInv, ReadsInv, OneCommandEach
<1> QED BY Invariant, <1>1, PTL

\* Whatever the shells report, and however late, the answer of a call stands,
\* and nothing starts its command a second time after the answer.
THEOREM AnswersStand == TermsSpec => AnswerStands
<1> DEFINE Stands == \A c \in Commands :
             call[c].result # "none" => /\ call'[c].result = call[c].result
                                        /\ runs[c] > 0 => runs'[c] = runs[c]
<1>1. TermsInv /\ [TermsNext]_termVars => Stands
  <2> SUFFICES ASSUME TermsInv, [TermsNext]_termVars, NEW d \in Commands, call[d].result # "none"
               PROVE  call'[d].result = call[d].result /\ (runs[d] > 0 => runs'[d] = runs[d])
    OBVIOUS
  <2>a. /\ TypeInv /\ CallInv
        /\ call \in [Commands -> CallType] /\ runs \in [Commands -> Nat]
    BY DEF TermsInv, TypeInv
  <2>b. /\ call[d].at \notin {"new", "chosen", "fallback"}
        /\ call[d].at = "integration" => runs[d] = 0
    BY DEF TermsInv, RunsInv
  <2>1. CASE UNCHANGED termVars
    BY <2>1 DEF termVars
  <2>2. ASSUME NEW c \in Commands, NEW p \in {"vscode", "execa"}, ChooseTerminal(c, p)
        PROVE  call'[d].result = call[d].result /\ runs'[d] = runs[d]
    <3>1. PICK t \in Terms : ChoseTerminal(c, p, t)
      BY <2>2, <2>a, ChooseEffect
    <3>2. c # d
      BY <2>2, <2>b DEF ChooseTerminal, MayExecute
    <3> QED BY <3>1, <3>2 DEF ChoseTerminal
  <2>3. ASSUME NEW c \in Commands, RunCommand(c)
        PROVE  call'[d].result = call[d].result /\ runs'[d] = runs[d]
    <3>1. PICK t \in Terms : Ran(c, t)
      BY <2>3, <2>a, RunEffect
    <3>2. c # d
      BY <2>b, <3>1 DEF Ran
    <3> QED BY <3>1, <3>2 DEF Ran
  <2>4. ASSUME NEW c \in Commands, CommandStep(c)
        PROVE  call'[d].result = call[d].result /\ (runs[d] > 0 => runs'[d] = runs[d])
    <3>1. CASE c # d
      BY <2>4, <2>a, <3>1, CommandEffect
    <3>2. CASE c = d
      <4> USE <2>a, <3>2 DEF CallType
      <4>1. CASE IntegrationReady(c) \/ TypesCommand(c)
        BY <2>b, <4>1 DEF IntegrationReady, TypesCommand, NoIntegration
      <4>2. CASE IntegrationTimesOut(c) \/ StreamTimesOut(c)
        BY <4>2 DEF IntegrationTimesOut, StreamTimesOut, NoIntegration
      <4>3. CASE StreamEnds(c) \/ Continue(c) \/ CommandTimesOut(c)
        BY <4>3 DEF StreamEnds, Continue, CommandTimesOut
      <4>4. CASE Complete(c) \/ SubprocessEnds(c)
        BY <4>4 DEF Complete, SubprocessEnds, Resolve
      <4> QED BY <2>4, <4>1, <4>2, <4>3, <4>4 DEF CommandStep
    <3> QED BY <3>1, <3>2
  <2>5. ASSUME NEW t \in Terms, TermStep(t)
        PROVE  call'[d].result = call[d].result /\ runs'[d] = runs[d]
    BY <2>5, <2>a, TermEffect
  <2> QED BY <2>1, <2>2, <2>3, <2>4, <2>5, TermSteps
<1>2. TermsInv /\ [TermsNext]_termVars => [Stands]_termVars
  BY <1>1
<1> QED BY Invariant, <1>2, PTL DEF TermsSpec, AnswerStands
=============================================================================
