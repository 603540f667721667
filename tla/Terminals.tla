------------------------------ MODULE Terminals ------------------------------
(***************************************************************************)
(* Commands of the agent in a pool of terminals (src/integrations/         *)
(* terminal).  A command runs in a terminal of the editor, whose shell     *)
(* reports starts and ends as events, or as a subprocess; when the editor's*)
(* shell gives no sign of it, it runs again as a subprocess.               *)
(***************************************************************************)
EXTENDS Naturals, Sequences

CONSTANTS Commands, MaxTerms, Typed, None

ASSUME TermsAssumption == MaxTerms \in Nat /\ Typed \in Nat /\ None \notin Commands

VARIABLES
    term,   \* TerminalRegistry.terminals
    shell,  \* per terminal of the editor: what its shell has to run, oldest first
    call,   \* per command: its executeCommand and its process
    runs,   \* how often it has been started
    tainted, \* history: terminals used by something else, freed under a command, or
             \* chosen by two calls at once
    typed   \* how often the user may still type or close a terminal

termVars == <<term, shell, call, runs, tainted, typed>>

Terms == 1..MaxTerms
NoTerm == [made |-> FALSE, provider |-> "none", busy |-> FALSE, running |-> FALSE,
           proc |-> None, closed |-> FALSE]
NoCall == [at |-> "new", term |-> 0, reads |-> None, exited |-> FALSE, result |-> "none"]
RunningAt == {"integration", "stream", "reading", "draining"}
User == "user"

TerminalsTypeOK ==
    /\ term \in [Terms -> [made : BOOLEAN, provider : {"none", "vscode", "execa"}, busy : BOOLEAN,
                           running : BOOLEAN, proc : Commands \union {None}, closed : BOOLEAN]]
    /\ \A t \in Terms : \A k \in DOMAIN shell[t] :
           shell[t][k] \in [cmd : Commands \union {User}, st : {"sent", "running", "ended"}]
    /\ call \in [Commands -> [at : RunningAt \union {"new", "chosen", "fallback", "killed", "done"}, term : 0..MaxTerms,
                              reads : Commands \union {None, User}, exited : BOOLEAN,
                              result : {"none", "exit", "running", "timeout"}]]
    /\ runs \in [Commands -> 0..2]
    /\ tainted \subseteq Terms /\ typed \in 0..Typed

TermsInit == /\ term = [t \in Terms |-> NoTerm]
             /\ shell = [t \in Terms |-> <<>>]
             /\ call = [c \in Commands |-> NoCall]
             /\ runs = [c \in Commands |-> 0]
             /\ tainted = {} /\ typed = Typed

Made == {t \in Terms : term[t].made}
Fresh == {t \in Terms \ Made : \A u \in Terms \ Made : t <= u}
Proc(t) == term[t].proc

----------------------------------------------------------------------------
(* Starting                                                                *)

\* Mutant: a terminal of the editor is free as soon as its command is sent.
GetTerminalByRunning(p) ==
    {t \in Made : ~term[t].closed /\ term[t].provider = p /\ ~term[t].running} \union Fresh

\* getOrCreateTerminal: one that is not busy, or a new one when its directory
\* is another.
GetTerminal(p) ==
    {t \in Made : ~term[t].closed /\ term[t].provider = p /\ ~term[t].busy} \union Fresh

\* The tool's first call, and the one after a ShellIntegrationError.
MayExecute(c, p) == call[c].at = "new" \/ (call[c].at = "fallback" /\ p = "execa")

\* executeCommand: getOrCreateTerminal finds a terminal and marks nothing in it.
ChooseTerminal(c, p) ==
    /\ MayExecute(c, p)
    /\ \E t \in GetTerminal(p) :
          /\ term' = [term EXCEPT ![t].made = TRUE, ![t].provider = p]
          /\ call' = [call EXCEPT ![c] = [NoCall EXCEPT !.at = "chosen", !.term = t]]
          /\ tainted' = IF \E d \in Commands : call[d].at = "chosen" /\ call[d].term = t
                        THEN tainted \union {t} ELSE tainted
    /\ UNCHANGED <<shell, runs, typed>>

\* After the await the terminal gets the process and is busy: a subprocess runs,
\* or the shell integration of the editor's terminal is waited for.
RunCommand(c) ==
    LET t == call[c].term
        sub == term[t].provider = "execa"
    IN  /\ call[c].at = "chosen"
        /\ term' = [term EXCEPT ![t].busy = TRUE, ![t].proc = c, ![t].running = @ \/ sub]
        /\ call' = [call EXCEPT ![c].at = IF sub THEN "reading" ELSE "integration",
                                ![c].reads = IF sub THEN c ELSE None]
        /\ runs' = IF sub THEN [runs EXCEPT ![c] = @ + 1] ELSE runs
        /\ UNCHANGED <<shell, tainted, typed>>

Send(c) == shell' = [shell EXCEPT ![call[c].term] = Append(@, [cmd |-> c, st |-> "sent"])]

\* The prompt is there: the command is handed to the shell.
IntegrationReady(c) ==
    /\ call[c].at = "integration" /\ ~term[call[c].term].closed
    /\ Send(c)
    /\ call' = [call EXCEPT ![c].at = "stream"]
    /\ runs' = [runs EXCEPT ![c] = @ + 1]
    /\ UNCHANGED <<term, tainted, typed>>

\* Mutant: the command runs again whether or not its call has returned.
UnheardAgain(c) == "fallback"

\* no_shell_integration: the process completes, and executeCommand throws the
\* error that makes the tool use a subprocess, unless it has returned.
Unheard(c) == IF call[c].result = "none" THEN "fallback" ELSE "done"
NoIntegration(c) == /\ call' = [call EXCEPT ![c].at = Unheard(c)]
                    /\ term' = [term EXCEPT ![call[c].term].busy = FALSE]

\* The integration has no executeCommand: the command is typed into the shell,
\* which may or may not report it, and counts as not run.
TypesCommand(c) ==
    /\ call[c].at = "integration" /\ ~term[call[c].term].closed
    /\ NoIntegration(c)
    /\ Send(c) \/ UNCHANGED shell
    /\ runs' = [runs EXCEPT ![c] = @ + 1]
    /\ tainted' = tainted \union {call[c].term}
    /\ UNCHANGED typed

\* The prompt did not come in time: the command has not been sent.
IntegrationTimesOut(c) == /\ call[c].at = "integration"
                          /\ NoIntegration(c)
                          /\ UNCHANGED <<shell, runs, tainted, typed>>

\* It has been sent, but its stream did not start in time; its start may come yet.
StreamTimesOut(c) == /\ call[c].at = "stream"
                     /\ NoIntegration(c)
                     /\ tainted' = tainted \union {call[c].term}
                     /\ UNCHANGED <<shell, runs, typed>>

----------------------------------------------------------------------------
(* The events of the editor                                                *)

\* onDidStartTerminalShellExecution: the stream goes to the process of the
\* terminal, whichever that is.
OnStart(t) ==
    /\ shell[t] # <<>> /\ Head(shell[t]).st = "sent"
    /\ shell' = [shell EXCEPT ![t][1].st = "running"]
    /\ term' = [term EXCEPT ![t].busy = TRUE, ![t].running = Proc(t) # None]
    /\ call' = [c \in Commands |-> IF c = Proc(t) /\ call[c].at = "stream" /\ call[c].term = t
                                   THEN [call[c] EXCEPT !.at = "reading", !.reads = Head(shell[t]).cmd]
                                   ELSE call[c]]
    /\ UNCHANGED <<runs, tainted, typed>>

ShellEnds(t) == /\ shell[t] # <<>> /\ Head(shell[t]).st = "running"
                /\ shell' = [shell EXCEPT ![t][1].st = "ended"]
                /\ UNCHANGED <<term, call, runs, tainted, typed>>

\* Mutant: the end of a shell execution does not reach the process.
OnEndUnheard(t) ==
    /\ shell[t] # <<>> /\ Head(shell[t]).st = "ended"
    /\ shell' = [shell EXCEPT ![t] = Tail(@)]
    /\ term' = [term EXCEPT ![t].busy = FALSE, ![t].running = FALSE, ![t].proc = None]
    /\ UNCHANGED <<call, runs, tainted, typed>>

\* onDidEndTerminalShellExecution.
OnEnd(t) ==
    /\ shell[t] # <<>> /\ Head(shell[t]).st = "ended"
    /\ shell' = [shell EXCEPT ![t] = Tail(@)]
    /\ term' = [term EXCEPT ![t].busy = FALSE, ![t].running = FALSE,
                            ![t].proc = IF term[t].running THEN None ELSE @]
    /\ call' = [c \in Commands |->
         IF term[t].running /\ c = Proc(t) /\ call[c].term = t /\ call[c].at \in RunningAt \ {"integration"}
         THEN [call[c] EXCEPT !.exited = TRUE] ELSE call[c]]
    /\ UNCHANGED <<runs, tainted, typed>>

\* The user types a command into a terminal, or closes it: no end event of a
\* closed terminal reaches its process.
UserTypes(t) == /\ typed > 0 /\ typed' = typed - 1
                /\ t \in Made /\ term[t].provider = "vscode" /\ ~term[t].closed
                /\ shell' = [shell EXCEPT ![t] = Append(@, [cmd |-> User, st |-> "sent"])]
                /\ tainted' = tainted \union {t}
                /\ UNCHANGED <<term, call, runs>>

UserCloses(t) == /\ typed > 0 /\ typed' = typed - 1
                 /\ t \in Made /\ term[t].provider = "vscode" /\ ~term[t].closed
                 /\ term' = [term EXCEPT ![t].closed = TRUE]
                 /\ shell' = [shell EXCEPT ![t] = <<>>]
                 /\ tainted' = tainted \union {t}
                 /\ UNCHANGED <<call, runs>>

----------------------------------------------------------------------------
(* A process and its call                                                  *)

Resolve(c, result) == IF call[c].result = "none" THEN result ELSE call[c].result

\* The user answers while output comes: the call returns, the process goes on.
Continue(c) == /\ call[c].at = "reading" /\ call[c].result = "none"
               /\ call' = [call EXCEPT ![c].result = "running"]
               /\ UNCHANGED <<term, shell, runs, tainted, typed>>

StreamEnds(c) ==
    LET t == call[c].term IN
    /\ call[c].at = "reading" /\ term[t].provider = "vscode"
    /\ \A k \in DOMAIN shell[t] : ~(shell[t][k].cmd = call[c].reads /\ shell[t][k].st = "running")
    /\ call' = [call EXCEPT ![c].at = "draining"]
    /\ UNCHANGED <<term, shell, runs, tainted, typed>>

\* The end event has come: the output is complete, or has no start marker, and
\* then the command runs again.  The terminal is marked free, though a later
\* command may have it by now.
Complete(c) ==
    /\ call[c].at = "draining" /\ call[c].exited
    /\ \/ call' = [call EXCEPT ![c].at = "done", ![c].result = Resolve(c, "exit")]
       \/ call' = [call EXCEPT ![c].at = Unheard(c)]
    /\ term' = [term EXCEPT ![call[c].term].busy = FALSE]
    /\ tainted' = IF Proc(call[c].term) \in {None, c} THEN tainted ELSE tainted \union {call[c].term}
    /\ UNCHANGED <<shell, runs, typed>>

\* The subprocess ends, by itself or killed.
SubprocessEnds(c) ==
    /\ call[c].at \in {"reading", "killed"} /\ term[call[c].term].provider = "execa"
    /\ call' = [call EXCEPT ![c].at = "done", ![c].result = Resolve(c, "exit")]
    /\ term' = [term EXCEPT ![call[c].term].busy = FALSE]
    /\ UNCHANGED <<shell, runs, tainted, typed>>

\* The configured timeout: a subprocess is killed, a shell gets a Ctrl-C.
CommandTimesOut(c) ==
    /\ call[c].at \in RunningAt /\ call[c].result = "none"
    /\ call' = [call EXCEPT ![c].result = "timeout",
                            ![c].at = IF term[call[c].term].provider = "execa" THEN "killed" ELSE @]
    /\ UNCHANGED <<term, shell, runs, tainted, typed>>

----------------------------------------------------------------------------

Host == \/ \E c \in Commands : \/ RunCommand(c) \/ IntegrationReady(c) \/ TypesCommand(c)
                               \/ IntegrationTimesOut(c) \/ StreamTimesOut(c)
                               \/ StreamEnds(c) \/ Complete(c) \/ SubprocessEnds(c)
                               \/ call[c].at = "fallback" /\ ChooseTerminal(c, "execa")
        \/ \E t \in Terms : OnStart(t) \/ ShellEnds(t) \/ OnEnd(t)

TermsNext == \/ Host
             \/ \E c \in Commands : Continue(c) \/ CommandTimesOut(c) \/ \E p \in {"vscode", "execa"} : ChooseTerminal(c, p)
             \/ \E t \in Terms : UserTypes(t) \/ UserCloses(t)

TermsSpec == TermsInit /\ [][TermsNext]_termVars
TermsFairSpec == TermsSpec /\ WF_termVars(Host)

----------------------------------------------------------------------------
(* Properties                                                              *)

\* Two commands that have not ended never have one terminal at a time, whatever
\* returned early, unless something else was run in it, the late completion of an
\* earlier command had freed it (TerminalRegistry.ts:164, TerminalProcess.ts:25), or
\* two calls chose it before either marked it (executeCommandTool.ts:263).
\* So a process reads the output of its own command, although the stream is
\* matched by terminal only (TerminalRegistry.ts:61).
Holding(c, t) == call[c].at \in RunningAt /\ ~call[c].exited /\ call[c].term = t
OneCommandEach ==
    /\ \A t \in Terms \ tainted : \A c, d \in Commands : Holding(c, t) /\ Holding(d, t) => c = d
    /\ \A c \in Commands : call[c].reads \notin {None, c} => call[c].term \in tainted

\* What a call has returned stands: a late completion does not replace it, and
\* the command is not started again as a subprocess when its shell gives no sign
\* of it only after that (executeCommandTool.ts:128, 329).  The first start may
\* still come after a timeout, which does not stop the wait for a prompt.
AnswerStands == [][\A c \in Commands :
    call[c].result # "none" => /\ call'[c].result = call[c].result
                               /\ runs[c] > 0 => runs'[c] = runs[c]]_termVars

\* Every call returns when commands end, unless its terminal is closed or used
\* by something else (TerminalProcess.ts:212).
CallsReturn == \A c \in Commands :
    call[c].at # "new" ~> (call[c].result # "none" \/ call[c].term \in tainted)
=============================================================================
