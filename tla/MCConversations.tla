---------------------------- MODULE MCConversations ----------------------------
(* What passes between Claude Code, the models and the next session: the        *)
(* requests a proxy converts, the streams it answers with, the rounds of a      *)
(* multi-model workflow, the contexts and the agent of a session's handoff and  *)
(* a walkthrough, one of them in each behaviour; what the others keep does not  *)
(* change.  A context is made of a transcript and a plan chosen apart from each *)
(* other, so that what is said and what is planned vary in behaviours of their  *)
(* own.                                                                         *)
EXTENDS ProxyRequests, ProxyStream, ReviewWorkflow, Handoff, Walkthrough

VARIABLE component

MCDesignated == {[path |-> "guide", shadows |-> "guide", strategy |-> "suggested"],
                 [path |-> "tips", shadows |-> "guide", strategy |-> "suggested"]}

\* The lines a small checklist is put together from, and two editions of a larger one.
Line(kind, id, ids) == [kind |-> kind, id |-> id, ids |-> ids]
Needs(ids) == Line("prereq", "", ids)
Asserts(id) == Line("assertion", id, {})
MCLines ==
    {Line("section", "S1", {}), Line("step", "a", {}), Needs({"a"}), Needs({"b"}), Asserts("x"),
     Line("note", "auto", {}), Line("fence", "", {}), Line("text", "", {})}
MCEditions ==
    << <<Line("section", "S1", {}), Line("step", "a", {}), Asserts("x"),
         Line("step", "b", {}), Needs({"a"}), Asserts("x"), Needs({"S1"}),
         Line("section", "S2", {}), Line("step", "c", {}), Needs({"b"}), Line("note", "auto", {}), Asserts("x")>>,
       <<Line("section", "S1", {}), Line("step", "b", {}), Needs({"a"}), Asserts("x"),
         Line("step", "a", {}), Asserts("x"), Asserts("y"),
         Line("section", "S2", {}), Line("step", "c", {}), Needs({"b"}), Asserts("x")>> >>

\* A check matters to the exit code alone, and a text that ends like a numbered id to the report of
\* one round: only debates go unchecked, and only they have such texts, as their last workers.
FewCommands ==
    LET custom(s) == Len(command.workers[s].label) = 2
    IN /\ ~command.check => command.workflow = "debate"
       /\ (\E s \in Specs : custom(s)) => ~command.check
       /\ \A s, t \in Specs : custom(s) /\ s < t => custom(t)

\* The agent reads the copies, not the list that a compaction adds to.
CopiesListed == \A i \in DOMAIN listed' : listed'[i].copied

Init ==
    /\ component \in {"requests", "stream", "workflow", "context", "plan", "agent", "walkthrough"}
    /\ RequestInit /\ StreamInit /\ ReviewInit /\ HandoffInit /\ WalkthroughInit
    /\ component = "workflow" => FewCommands
    /\ component # "workflow" => (/\ command.workflow = "panel" /\ ~command.check /\ ~command.nested
                                  /\ \A s \in Specs : command.workers[s].label = Plain)
    /\ component # "walkthrough" => state = NoFile

Next ==
    /\ UNCHANGED component
    /\ IF component = "requests" THEN RequestNext ELSE UNCHANGED requestVars
    /\ IF component = "stream" THEN StreamNext ELSE UNCHANGED streamVars
    /\ IF component = "workflow" THEN ReviewNext ELSE UNCHANGED reviewVars
    /\ IF component = "context" THEN HandoffNext /\ UNCHANGED <<planVars, agentVars>>
       ELSE IF component = "plan" THEN HandoffNext /\ UNCHANGED <<parentVars, agentVars>>
       ELSE IF component = "agent" THEN HandoffNext /\ CopiesListed /\ UNCHANGED <<planVars, context>>
       ELSE UNCHANGED handoffVars
    /\ IF component = "walkthrough" THEN WalkthroughNext ELSE UNCHANGED walkthroughVars
================================================================================
