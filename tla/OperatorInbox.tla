------------------------------ MODULE OperatorInbox ------------------------------
(***************************************************************************)
(* The operator's messages, operator_inbox.py: they are added under an id, *)
(* claimed by one agent and completed by it.  A call that does not change  *)
(* a row reads it again in a second statement, which sees what other       *)
(* agents did meanwhile, to say why.                                       *)
(***************************************************************************)
EXTENDS Integers, Sequences, FiniteSets, SequencesExt

CONSTANTS
    Agents,
    MessageIds,
    Bodies,          \* title, body and creator, what a repeated id must agree in
    InboxPriorities, \* PRIORITIES, the most urgent first, as numbers
    ListLimits,      \* limits asked for
    MaxMessages      \* bound: messages added

ASSUME InboxAssumption ==
    InboxPriorities \subseteq Nat /\ ListLimits \subseteq Nat \ {0} /\ MaxMessages \in Nat

VARIABLES
    obMessages,  \* ops.operator_messages by id, in creation order
    obCall,      \* the call of each agent that found no row to change
    obTold       \* what agents were told they hold or completed: <<op, id, agent>>
obVars == <<obMessages, obCall, obTold>>

NoCall == [op |-> "none", id |-> 0]

obInit ==
    /\ obMessages = << >>
    /\ obCall = [a \in Agents |-> NoCall]
    /\ obTold = {}

Known(id) == \E i \in DOMAIN obMessages : obMessages[i].id = id
Place(id) == CHOOSE i \in DOMAIN obMessages : obMessages[i].id = id
Message(id) == obMessages[Place(id)]

\* ON CONFLICT DO NOTHING: an id that is taken is answered with its row, if it
\* says the same, and with message_id_conflict if not.
AddMessage(id, body, priority) ==
    /\ Len(obMessages) < MaxMessages
    /\ ~Known(id)
    /\ obMessages' = Append(obMessages,
            [id |-> id, body |-> body, priority |-> priority, status |-> "queued", by |-> ""])
    /\ UNCHANGED <<obCall, obTold>>

ClaimMessage(a, id) ==
    /\ obCall[a] = NoCall
    /\ IF Known(id) /\ Message(id).status = "queued"
       THEN /\ obMessages' = [obMessages EXCEPT ![Place(id)].status = "claimed",
                                                ![Place(id)].by = a]
            /\ obTold' = obTold \cup {<<"claim", id, a>>}
            /\ UNCHANGED obCall
       ELSE /\ obCall' = [obCall EXCEPT ![a] = [op |-> "claim", id |-> id]]
            /\ UNCHANGED <<obMessages, obTold>>

CompleteMessage(a, id) ==
    /\ obCall[a] = NoCall
    /\ IF Known(id) /\ Message(id).status = "claimed" /\ Message(id).by = a
       THEN /\ obMessages' = [obMessages EXCEPT ![Place(id)].status = "completed"]
            /\ obTold' = obTold \cup {<<"complete", id, a>>}
            /\ UNCHANGED obCall
       ELSE /\ obCall' = [obCall EXCEPT ![a] = [op |-> "complete", id |-> id]]
            /\ UNCHANGED <<obMessages, obTold>>

\* The second statement: a repeated call of the agent that has the message is
\* answered with its row, every other one with an error.
Explain(a) ==
    LET call == obCall[a]
        mine == /\ Known(call.id) /\ Message(call.id).by = a
                /\ Message(call.id).status = IF call.op = "claim" THEN "claimed" ELSE "completed"
    IN  /\ call # NoCall
        /\ obTold' = IF mine THEN obTold \cup {<<call.op, call.id, a>>} ELSE obTold
        /\ obCall' = [obCall EXCEPT ![a] = NoCall]
        /\ UNCHANGED obMessages

\* OperatorInbox.list: the most urgent first, then the oldest.
Before(i, j) ==
    \/ obMessages[i].priority < obMessages[j].priority
    \/ obMessages[i].priority = obMessages[j].priority /\ i < j
ListMessages(status, limit) ==
    LET found == {i \in DOMAIN obMessages : obMessages[i].status = status}
    IN  {i \in found : Cardinality({j \in found : Before(j, i)}) < limit}

InboxCounts == [s \in {"queued", "claimed", "completed"} |->
                    Cardinality({i \in DOMAIN obMessages : obMessages[i].status = s})]

obNext ==
    \/ \E id \in MessageIds, body \in Bodies, p \in InboxPriorities : AddMessage(id, body, p)
    \/ \E a \in Agents : \/ Explain(a)
                         \/ \E id \in MessageIds : ClaimMessage(a, id) \/ CompleteMessage(a, id)

obTypeOK ==
    /\ \A i \in DOMAIN obMessages :
          /\ obMessages[i].id \in MessageIds
          /\ obMessages[i].status \in {"queued", "claimed", "completed"}
    /\ \A a \in Agents : obCall[a].op \in {"none", "claim", "complete"}

\* claim and complete: no two agents are ever told that a message is theirs,
\* and only the one that claimed it is told that it completed it.
OneAgentHolds ==
    /\ \A t, u \in obTold : t[2] = u[2] => t[3] = u[3]
    /\ \A t \in obTold : /\ Message(t[2]).by = t[3]
                         /\ t[1] = "complete" => Message(t[2]).status = "completed"

\* list: whatever the limit, a message that is left out of the queue's list is
\* not more urgent than one that is in it, and someone can claim the first.
ListIsUrgentFirst ==
    \A limit \in ListLimits :
        LET shown == ListMessages("queued", limit)
        IN  /\ Cardinality(shown) = IF InboxCounts["queued"] < limit
                                    THEN InboxCounts["queued"] ELSE limit
            /\ \A i \in shown : \A j \in DOMAIN obMessages :
                  obMessages[j].status = "queued" /\ j \notin shown =>
                      obMessages[i].priority <= obMessages[j].priority

=============================================================================
