----------------------------- MODULE Guardrails -----------------------------
(***************************************************************************)
(* Guardrails: enforce_guardrails checks a prompt before it is dispatched, *)
(* enforce_output_guardrails an answer, both by the guardrails that the    *)
(* workflow names by id or by tag.  These are loaded one by one, while the *)
(* routes create, change and delete them.  Nobody tries a pattern or a     *)
(* schema before a check does.  A PUT loads a document and saves it whole, *)
(* unvalidated; the model speaks up when the document is next loaded.      *)
(***************************************************************************)
EXTENDS Naturals, FiniteSets

CONSTANTS
  Guard,           \* ids of guardrails
  Listed,          \* those in workflow.guardrail_ids
  Enforcer,        \* prompts and answers to check
  GuardWriter,     \* requests to the guardrail routes
  NoGuard,         \* no document
  MaxGuardWrites   \* bound: documents written

ASSUME ListedAreGuards == Listed \subseteq Guard /\ NoGuard \notin Guard
ASSUME GuardBoundIsNatural == MaxGuardWrites \in Nat

VARIABLES
  guards,        \* [Guard -> a document or NoGuard]
  enforcers,     \* [Enforcer -> the check in progress]
  guardWriters,  \* [GuardWriter -> the request in progress]
  guardWrites,
  steady         \* history: [Enforcer -> guardrails unwritten since it began]

guardVars == <<guards, enforcers, guardWriters, guardWrites, steady>>

-----------------------------------------------------------------------------
(* Documents, checks, requests *)

\* tagged: the guardrail has a tag of the workflow.  rule: what the
\* configuration of its type says of the text that is checked, if its patterns
\* or its schema are valid ones; "null": its name, description, tags, enabled
\* or that configuration is null.
GuardDoc == [type : {"prompt", "request", "output"}, enabled : BOOLEAN, tagged : BOOLEAN,
             rule : {"holds", "fails", "raises", "null"}]

\* The types of the fields, and validate_config_matches_type.
Loadable(doc) == doc # NoGuard => doc.rule # "null"

\* has: what the request consists of, or the answer.  left: ids to look up.
NoCheck == [pc |-> "idle", has |-> {}, left |-> {}, found |-> [g \in Guard |-> NoGuard],
            verdict |-> "none"]

NoWriter == [on |-> {}, held |-> NoGuard]

GuardrailsTypeOK ==
  /\ guards \in [Guard -> GuardDoc \cup {NoGuard}]
  /\ enforcers \in [Enforcer -> [pc : {"idle", "load", "over"},
                                 has : SUBSET {"prompt", "request", "output"}, left : SUBSET Guard,
                                 found : [Guard -> GuardDoc \cup {NoGuard}],
                                 verdict : {"none", "accepted", "refused", "incomplete", "raised"}]]
  /\ guardWriters \in [GuardWriter -> [on : SUBSET Guard, held : GuardDoc \cup {NoGuard}]]
  /\ guardWrites \in 0..MaxGuardWrites
  /\ steady \in [Enforcer -> SUBSET Guard]

GuardrailsInit ==
  /\ guards \in [Guard -> {doc \in GuardDoc : Loadable(doc)} \cup {NoGuard}]
  /\ enforcers = [e \in Enforcer |-> NoCheck]
  /\ guardWriters = [w \in GuardWriter |-> NoWriter]
  /\ guardWrites = 0
  /\ steady = [e \in Enforcer |-> {}]

-----------------------------------------------------------------------------
(* Enforcement *)

\* A prompt, a request object, both or neither; or an answer.
StartCheck(e) ==
  /\ enforcers[e].pc = "idle"
  /\ \E has \in (SUBSET {"prompt", "request"}) \cup {{"output"}} :
       enforcers' = [enforcers EXCEPT ![e] = [NoCheck EXCEPT !.pc = "load", !.has = has,
                                                             !.left = Listed]]
  /\ steady' = [steady EXCEPT ![e] = Guard]
  /\ UNCHANGED <<guards, guardWriters, guardWrites>>

Decide(e, verdict) ==
  enforcers' = [enforcers EXCEPT ![e] = [NoCheck EXCEPT !.pc = "over", !.has = enforcers[e].has,
                                                        !.verdict = verdict]]

\* A guardrail by its id: only what is loaded can turn out to be disabled.
LoadListed(e, g) ==
  /\ enforcers[e].pc = "load"
  /\ g \in enforcers[e].left
  /\ IF Loadable(guards[g])
     THEN enforcers' = [enforcers EXCEPT ![e].left = @ \ {g}, ![e].found[g] =
                          IF guards[g] # NoGuard /\ guards[g].enabled THEN guards[g] ELSE NoGuard]
     ELSE Decide(e, "raised")
  /\ UNCHANGED <<guards, guardWriters, guardWrites, steady>>

\* What the guardrails of a type can end a check with.
Objections(docs, type) ==
  {IF doc.rule = "fails" THEN "refused" ELSE "raised" :
     doc \in {d \in docs : d.type = type /\ d.rule \in {"fails", "raises"}}}

\* Missing parts first, then the prompt and then the request, by guardrails in
\* an order that is left open, up to the first that objects; an answer by all.
\* Then something must be left to send.
Verdicts(has, docs) ==
  LET absent == {type \in {"prompt", "request"} \ has :
                   "output" \notin has /\ \E doc \in docs : doc.type = type}
      objecting == {type \in has : Objections(docs, type) # {}}
  IN IF absent # {} THEN {"incomplete"}
     ELSE IF "prompt" \in objecting THEN Objections(docs, "prompt")
     ELSE IF "request" \in objecting THEN Objections(docs, "request")
     ELSE IF "output" \in objecting
     THEN IF "raised" \in Objections(docs, "output") THEN {"raised"} ELSE {"refused"}
     ELSE IF has = {} THEN {"incomplete"}
     ELSE {"accepted"}

Tagged(g) == guards[g] # NoGuard /\ guards[g].enabled /\ guards[g].tagged

\* Mutant: the guardrails with a tag replace those named by id.
LoadTaggedOnly(e) ==
  /\ enforcers[e].pc = "load"
  /\ enforcers[e].left = {}
  /\ LET tagged == {g \in Guard : Tagged(g)}
     IN IF \E g \in tagged : ~Loadable(guards[g])
        THEN Decide(e, "raised")
        ELSE \E v \in Verdicts(enforcers[e].has, {guards[g] : g \in tagged}) : Decide(e, v)
  /\ UNCHANGED <<guards, guardWriters, guardWrites, steady>>

\* Those with a tag of the workflow, by one query; what it finds replaces what
\* was loaded before under the same id.  Then the checks.
LoadTagged(e) ==
  /\ enforcers[e].pc = "load"
  /\ enforcers[e].left = {}
  /\ LET tagged == {g \in Guard : Tagged(g)}
         listed == {g \in Guard \ tagged : enforcers[e].found[g] # NoGuard}
         docs == {guards[g] : g \in tagged} \cup {enforcers[e].found[g] : g \in listed}
     IN IF \E g \in tagged : ~Loadable(guards[g])
        THEN Decide(e, "raised")
        ELSE \E v \in Verdicts(enforcers[e].has, docs) : Decide(e, v)
  /\ UNCHANGED <<guards, guardWriters, guardWrites, steady>>

-----------------------------------------------------------------------------
(* The routes *)

\* A document is written, or removed.  Bound: none is once all checks are over.
WriteGuard(g, doc) ==
  /\ guardWrites < MaxGuardWrites
  /\ \E e \in Enforcer : enforcers[e].pc # "over"
  /\ guardWrites' = guardWrites + 1
  /\ guards' = [guards EXCEPT ![g] = doc]
  /\ steady' = [e \in Enforcer |-> steady[e] \ {g}]
  /\ UNCHANGED enforcers

CreateGuard(g) ==
  /\ guards[g] = NoGuard
  /\ \E doc \in {d \in GuardDoc : Loadable(d)} : WriteGuard(g, doc)
  /\ UNCHANGED guardWriters

\* PUT and DELETE load the document; one that is not valid ends the request.
ReadGuard(w, g) ==
  /\ guardWriters[w].on = {}
  /\ guards[g] # NoGuard /\ Loadable(guards[g])
  /\ guardWriters' = [guardWriters EXCEPT ![w] = [on |-> {g}, held |-> guards[g]]]
  /\ UNCHANGED <<guards, enforcers, guardWrites, steady>>

\* The given fields are set in the copy and the copy saved whole, which stores
\* a deleted guardrail again.  All but the type can be given, and be null.
UpdateGuard(w) ==
  /\ \E g \in guardWriters[w].on :
       \E doc \in {d \in GuardDoc : d.type = guardWriters[w].held.type} : WriteGuard(g, doc)
  /\ guardWriters' = [guardWriters EXCEPT ![w] = NoWriter]

DeleteGuard(w) ==
  /\ \E g \in guardWriters[w].on : WriteGuard(g, NoGuard)
  /\ guardWriters' = [guardWriters EXCEPT ![w] = NoWriter]

GuardrailsNext ==
  \/ \E e \in Enforcer :
       StartCheck(e) \/ LoadTagged(e) \/ \E g \in Guard : LoadListed(e, g)
  \/ \E g \in Guard : CreateGuard(g)
  \/ \E w \in GuardWriter :
       UpdateGuard(w) \/ DeleteGuard(w) \/ \E g \in Guard : ReadGuard(w, g)

GuardrailsSpec == GuardrailsInit /\ [][GuardrailsNext]_guardVars

-----------------------------------------------------------------------------
(* Properties *)

\* The guardrails that nobody has written since the check began, of which the
\* workflow names those that apply.
Applied(e) == {g \in steady[e] : guards[g] # NoGuard /\ guards[g].enabled
                                   /\ (g \in Listed \/ guards[g].tagged)}
Concerns(e, g) == guards[g].type \in enforcers[e].has
Demands(g) == guards[g].type \in {"prompt", "request"}

\* However the routes interleave with a check that loads its guardrails one by
\* one, each guardrail that was left alone meanwhile has its say, whether it
\* is named by id or by tag: what is accepted it accepts, and nothing is
\* refused, or called incomplete, unless one refuses it or asks for what is not
\* there, or one was just being written.  A check raises for one of two
\* reasons: a guardrail that applies and concerns the text has an invalid
\* pattern or schema, or one cannot be loaded, a PUT having made a field null
\* (which blocks the workflow that names it by id even when it is disabled).
GuardrailsDecide ==
  \A e \in Enforcer :
    LET check == enforcers[e]
        written == steady[e] # Guard
    IN /\ check.verdict = "accepted" =>
            \A g \in Applied(e) :
              /\ Concerns(e, g) => guards[g].rule = "holds"
              /\ Demands(g) /\ "output" \notin check.has => Concerns(e, g)
       /\ check.verdict = "refused" =>
            written \/ \E g \in Applied(e) : Concerns(e, g) /\ guards[g].rule = "fails"
       /\ check.verdict = "incomplete" =>
            written \/ check.has = {} \/ \E g \in Applied(e) : Demands(g) /\ ~Concerns(e, g)
       /\ check.verdict = "raised" =>
            \/ written
            \/ \E g \in Listed \cup Applied(e) : ~Loadable(guards[g])
            \/ \E g \in Applied(e) : Concerns(e, g) /\ guards[g].rule = "raises"
=============================================================================
