------------------------- MODULE MCStreamPresenter -------------------------
(***************************************************************************)
(* Two situations in one run: plain turns, in which a user may reject      *)
(* tools and nothing else goes wrong, and turns in which anything may      *)
(* happen, with fewer blocks and more requests.  A behaviour is in one of  *)
(* them throughout.                                                        *)
(***************************************************************************)
EXTENDS StreamPresenter

CONSTANTS FaultyBlocks, FaultyRequests    \* MaxBlocks and MaxRequests of the faulty turns

ASSUME PlainEvents == Events \subseteq {"reject"}

VARIABLE faults

Faulty == INSTANCE StreamPresenter
              WITH MaxBlocks <- FaultyBlocks, MaxRequests <- FaultyRequests, Events <- AllEvents

MCInit == faults \in BOOLEAN /\ Init

MCNext == \/ ~faults /\ UNCHANGED faults /\ Next
          \/ faults /\ UNCHANGED faults /\ Faulty!Next

PlainStep(action) == ~faults /\ action

\* That of FairSpec, for the plain turns.
MCSpec ==
    /\ MCInit /\ [][MCNext]_<<vars, faults>>
    /\ WF_vars(PlainStep(Request)) /\ WF_vars(PlainStep(StreamEnds))
    /\ WF_vars(PlainStep(Saved)) /\ WF_vars(PlainStep(Proceed))
    /\ \A c \in Calls : WF_vars(PlainStep(loop # "broken" /\ Present(c)))

\* OnePresenter, ResultsMatch, NothingRunsBehind and WaitResolves for the plain
\* turns: a restart or an early result leaves calls of the presenter behind.
PlainOnePresenter == ~faults => OnePresenter
PlainResultsMatch ==
    [][~faults /\ loop = "waiting" /\ loop' # "waiting" => results = uses]_vars
PlainNothingRunsBehind == [][~faults /\ requests' # requests => Busy = {}]_vars
PlainWaitResolves == (~faults /\ loop = "waiting") ~> loop # "waiting"
=============================================================================
