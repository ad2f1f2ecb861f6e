---------------------------- MODULE StoresProofs ----------------------------
(* About the data beside the runs, for any number of requests, operations   *)
(* and documents: the chats and their messages, the guardrails, the custom  *)
(* tools, the migration's verdict and the memories; with the types of the   *)
(* last three.                                                              *)
EXTENDS Chat, ChatStart, Guardrails, CustomTools, Migration, Memory, FiniteSetTheorems,
        NaturalsInduction, WellFoundedInduction, TLAPS

-----------------------------------------------------------------------------
(* ChatStart *)

\* The workflows there are, or were.
Used == {c \in ChatWf : chatWf[c] # "none"}

\* A request that has not been answered has no answer.
Unanswered ==
  \A a \in Starter : starters[a].pc \in {"idle", "insert", "cut"} => starters[a].answer = {}

\* Undisturbed, there is no workflow but the chat, which was given in every answer;
\* and no more than one request is about to create it, while there is none.
Alone ==
  /\ \A c \in ChatWf : chatWf[c] \in {"none", "active", "running"}
  /\ Used = Answers
  /\ \A c, d \in Used : c = d
  /\ \A a, b \in Starting : a = b
  /\ Starting # {} => Used = {}

StartInv == ChatStartTypeOK /\ Unanswered /\ (~disturbed => Alone)

LEMMA InitStart == ChatStartInit => StartInv
<1> SUFFICES ASSUME ChatStartInit PROVE StartInv
  OBVIOUS
<1>1. ChatStartTypeOK /\ Unanswered
  BY DEF ChatStartInit, ChatStartTypeOK, Unanswered
<1>2. Used = {} /\ Answers = {} /\ Starting = {}
  BY DEF ChatStartInit, Used, Answers, Starting
<1>3. Alone
  BY <1>2 DEF ChatStartInit, Alone
<1> QED
  BY <1>1, <1>3 DEF StartInv

\* The answers after request a has been given one.
LEMMA NextAnswers ==
  ASSUME ChatStartTypeOK, NEW a \in Starter, NEW pc, NEW answer, starters[a].answer = {},
         Answer(a, pc, answer)
  PROVE  Answers' = Answers \cup answer
<1>1. \A b \in Starter : starters'[b].answer = IF b = a THEN answer ELSE starters[b].answer
  BY DEF Answer, ChatStartTypeOK
<1> QED
  BY <1>1 DEF Answers

LEMMA NextStart == StartInv /\ [ChatStartNext]_startVars => StartInv'
<1> SUFFICES ASSUME StartInv, [ChatStartNext]_startVars PROVE StartInv'
  OBVIOUS
<1> USE DEF StartInv
<1>1. ASSUME NEW a \in Starter, LookUpChat(a) PROVE StartInv'
  <2>1. CASE FoundActive = {}
    <3>1. Answer(a, "insert", {}) /\ chatWf' = chatWf
      BY <1>1, <2>1 DEF LookUpChat
    <3>2. starters[a].pc = "idle" /\ starters[a].answer = {}
      BY <1>1 DEF LookUpChat, Unanswered
    <3>3. Answers' = Answers
      BY <3>1, <3>2, NextAnswers
    <3>4. ChatStartTypeOK' /\ Unanswered'
      BY <1>1, <3>1 DEF LookUpChat, Answer, ChatStartTypeOK, Unanswered
    <3>5. ASSUME ~disturbed' PROVE Alone'
      <4>1. ~disturbed /\ Starting = {} /\ \A c \in ChatWf : chatWf[c] # "running"
        BY <1>1, <3>5 DEF LookUpChat
      <4>2. Used = {} /\ Used' = {}
        BY <4>1, <3>1, <2>1 DEF Alone, Used, FoundActive
      <4>3. \A b \in Starter : b \in Starting' => b = a
        BY <4>1, <3>1 DEF Starting, Answer, ChatStartTypeOK
      <4> QED
        BY <4>1, <4>2, <4>3, <3>1, <3>3 DEF Alone, Starting
    <3> QED
      BY <3>4, <3>5
  <2>2. CASE FoundActive # {}
    <3>1. PICK c \in FoundActive : Answer(a, "answered", {c})
      BY <1>1, <2>2 DEF LookUpChat
    <3>2. starters[a].pc = "idle" /\ starters[a].answer = {} /\ chatWf' = chatWf
      BY <1>1 DEF LookUpChat, Unanswered
    <3>3. Answers' = Answers \cup {c} /\ c \in ChatWf
      BY <3>1, <3>2, NextAnswers DEF FoundActive
    <3>4. ChatStartTypeOK' /\ Unanswered'
      BY <1>1, <3>1, <3>3 DEF LookUpChat, Answer, ChatStartTypeOK, Unanswered
    <3>5. ASSUME ~disturbed' PROVE Alone'
      <4>1. ~disturbed /\ Starting = {}
        BY <1>1, <3>5 DEF LookUpChat
      <4>2. c \in Used
        BY <3>1 DEF FoundActive, Used
      <4>3. Used' = Used /\ Answers' = Answers
        BY <4>1, <4>2, <3>2, <3>3 DEF Alone, Used
      <4>4. Starting' = {}
        BY <4>1, <3>1 DEF Starting, Answer, ChatStartTypeOK
      <4> QED
        BY <4>1, <4>3, <4>4, <3>2 DEF Alone
    <3> QED
      BY <3>4, <3>5
  <2> QED
    BY <2>1, <2>2
<1>2. ASSUME NEW a \in Starter, InsertChat(a) PROVE StartInv'
  <2>1. PICK c \in ChatWf : /\ chatWf[c] = "none"
                           /\ chatWf' = [chatWf EXCEPT ![c] = "active"]
                           /\ Answer(a, "answered", {c})
    BY <1>2 DEF InsertChat
  <2>2. starters[a].pc = "insert" /\ starters[a].answer = {} /\ disturbed' = disturbed
    BY <1>2 DEF InsertChat, Unanswered
  <2>3. Answers' = Answers \cup {c}
    BY <2>1, <2>2, NextAnswers
  <2>4. ChatStartTypeOK' /\ Unanswered'
    BY <2>1, <2>2 DEF Answer, ChatStartTypeOK, Unanswered
  <2>5. ASSUME ~disturbed' PROVE Alone'
    <3>1. Used = {} /\ Answers = {} /\ \A b \in Starting : b = a
      BY <2>2, <2>5 DEF Alone, Starting
    <3>2. Used' = {c}
      BY <3>1, <2>1 DEF Used, ChatStartTypeOK
    <3>3. Starting' = {}
      BY <3>1, <2>1 DEF Starting, Answer, ChatStartTypeOK
    <3> QED
      BY <2>1, <2>2, <2>3, <2>5, <3>1, <3>2, <3>3 DEF Alone, ChatStartTypeOK
  <2> QED
    BY <2>4, <2>5
<1>3. ASSUME NEW a \in Starter, CutStart(a) PROVE StartInv'
  <2>1. starters[a].pc = "insert" /\ starters[a].answer = {} /\ Answer(a, "cut", {})
    BY <1>3 DEF CutStart, Unanswered
  <2>2. Answers' = Answers /\ UNCHANGED <<chatWf, disturbed>>
    BY <1>3, <2>1, NextAnswers DEF CutStart
  <2>3. \A b \in Starter : b \in Starting' => b \in Starting
    BY <2>1 DEF Starting, Answer, ChatStartTypeOK
  <2>4. ChatStartTypeOK' /\ Unanswered'
    BY <2>1, <2>2 DEF Answer, ChatStartTypeOK, Unanswered
  <2> QED
    BY <2>2, <2>3, <2>4 DEF Alone, Used, Starting
<1>4. ASSUME NEW c \in ChatWf, ChatRuns(c) PROVE StartInv'
  <2>1. Used' = Used
    BY <1>4 DEF ChatRuns, Used, ChatStartTypeOK
  <2> QED
    BY <1>4, <2>1 DEF ChatRuns, ChatStartTypeOK, Unanswered, Alone, Starting, Answers
<1>5. ASSUME NEW c \in ChatWf, OwnWorkflow(c) PROVE StartInv'
  BY <1>5 DEF OwnWorkflow, ChatStartTypeOK, Unanswered
<1>6. CASE UNCHANGED startVars
  BY <1>6 DEF startVars, ChatStartTypeOK, Unanswered, Alone, Used, Starting, Answers
<1> QED
  BY <1>1, <1>2, <1>3, <1>4, <1>5, <1>6 DEF ChatStartNext

\* A set whose members are all equal has no more than one.
LEMMA AtMostOne ==
  ASSUME NEW S, \A c, d \in S : c = d
  PROVE  Cardinality(S) <= 1
<1>1. CASE S = {}
  BY <1>1, FS_EmptySet
<1>2. CASE S # {}
  <2>1. PICK c \in S : TRUE
    BY <1>2
  <2>2. S = {c}
    BY <2>1
  <2>3. Cardinality({c}) = 1
    BY FS_Singleton
  <2> QED
    BY <2>2, <2>3
<1> QED
  BY <1>1, <1>2

\* OneChat holds for any number of requests and of workflows of the user.
THEOREM OneChatIsKept == ChatStartSpec => []OneChat
<1>1. StartInv => OneChat
  BY AtMostOne DEF StartInv, Alone, OneChat, Used
<1> QED
  BY <1>1, InitStart, NextStart, PTL DEF ChatStartSpec

-----------------------------------------------------------------------------
(* Guardrails *)

\* Of the guardrails that were left alone, a check that loads has found those it has
\* looked up by id and that are enabled, as they are, and nothing else.
Found ==
  \A e \in Enforcer : enforcers[e].pc = "load" =>
    /\ enforcers[e].left \subseteq Listed
    /\ \A g \in Guard :
         /\ enforcers[e].found[g] # NoGuard => g \in Listed
         /\ g \in steady[e] /\ g \in Listed \ enforcers[e].left =>
              /\ Loadable(guards[g])
              /\ enforcers[e].found[g] =
                   IF guards[g] # NoGuard /\ guards[g].enabled THEN guards[g] ELSE NoGuard
         /\ g \in steady[e] /\ g \in enforcers[e].left => enforcers[e].found[g] = NoGuard

\* Only a check that is over has a verdict.
Undecided == \A e \in Enforcer : enforcers[e].pc # "over" => enforcers[e].verdict = "none"

\* A request that has read a guardrail has a copy of it.
Holding == \A w \in GuardWriter : guardWriters[w].on # {} => guardWriters[w].held \in GuardDoc

GuardInv == GuardrailsTypeOK /\ Found /\ Undecided /\ Holding /\ GuardrailsDecide

LEMMA InitGuard == GuardrailsInit => GuardInv
<1> SUFFICES ASSUME GuardrailsInit PROVE GuardInv
  OBVIOUS
<1>1. \A e \in Enforcer : enforcers[e] = NoCheck
  BY DEF GuardrailsInit
<1>2. NoCheck.pc = "idle" /\ NoCheck.verdict = "none"
  BY DEF NoCheck
<1>3. enforcers \in [Enforcer -> [pc : {"idle", "load", "over"},
                                 has : SUBSET {"prompt", "request", "output"}, left : SUBSET Guard,
                                 found : [Guard -> GuardDoc \cup {NoGuard}],
                                 verdict : {"none", "accepted", "refused", "incomplete", "raised"}]]
  BY DEF GuardrailsInit, NoCheck
<1>4. guards \in [Guard -> GuardDoc \cup {NoGuard}]
  BY DEF GuardrailsInit
<1>5. guardWriters \in [GuardWriter -> [on : SUBSET Guard, held : GuardDoc \cup {NoGuard}]]
  BY DEF GuardrailsInit, NoWriter
<1>6. guardWrites \in 0..MaxGuardWrites /\ steady \in [Enforcer -> SUBSET Guard]
  BY GuardBoundIsNatural DEF GuardrailsInit
<1>7. GuardrailsTypeOK
  BY <1>3, <1>4, <1>5, <1>6 DEF GuardrailsTypeOK
<1>8. Found /\ Undecided /\ GuardrailsDecide
  BY <1>1, <1>2 DEF Found, Undecided, GuardrailsDecide
<1>9. Holding
  BY DEF GuardrailsInit, NoWriter, Holding
<1> QED
  BY <1>7, <1>8, <1>9 DEF GuardInv

-----------------------------------------------------------------------------
(* The routes *)

\* Writing a guardrail leaves every other one, and the checks, as they are.
LEMMA NextWrite ==
  ASSUME GuardInv, NEW g \in Guard, NEW doc \in GuardDoc \cup {NoGuard}, WriteGuard(g, doc),
         guardWriters' \in [GuardWriter -> [on : SUBSET Guard, held : GuardDoc \cup {NoGuard}]],
         Holding'
  PROVE  GuardInv'
<1> USE DEF GuardInv
<1>1. /\ enforcers' = enforcers
      /\ \A h \in Guard : guards'[h] = IF h = g THEN doc ELSE guards[h]
      /\ \A e \in Enforcer : steady'[e] = steady[e] \ {g}
  BY DEF WriteGuard, GuardrailsTypeOK
<1>2. GuardrailsTypeOK'
  <2>1. guards' \in [Guard -> GuardDoc \cup {NoGuard}] /\ steady' \in [Enforcer -> SUBSET Guard]
    BY DEF WriteGuard, GuardrailsTypeOK
  <2>2. guardWrites' \in 0..MaxGuardWrites
    BY GuardBoundIsNatural DEF WriteGuard, GuardrailsTypeOK
  <2> QED
    BY <1>1, <2>1, <2>2 DEF GuardrailsTypeOK
<1>3. Found'
  BY <1>1 DEF Found, Loadable
<1>4. Undecided'
  BY <1>1 DEF Undecided
<1>5. ASSUME NEW e \in Enforcer
      PROVE  /\ steady'[e] # Guard
             /\ \A h \in Applied(e)' : h \in Applied(e) /\ guards'[h] = guards[h]
  <2>1. g \notin steady'[e]
    BY <1>1
  <2>2. ASSUME NEW h \in Applied(e)' PROVE h \in Applied(e) /\ guards'[h] = guards[h]
    <3>1. h \in steady'[e] /\ guards'[h] # NoGuard /\ guards'[h].enabled
            /\ (h \in Listed \/ guards'[h].tagged)
      BY DEF Applied
    <3>2. h \in Guard /\ h \in steady[e] /\ h # g
      BY <1>1, <2>1, <3>1 DEF GuardrailsTypeOK
    <3> QED
      BY <1>1, <3>1, <3>2 DEF Applied
  <2> QED
    BY <2>1, <2>2
<1>6. GuardrailsDecide'
  BY <1>1, <1>5 DEF GuardrailsDecide, Concerns, Demands
<1> QED
  BY <1>2, <1>3, <1>4, <1>6

LEMMA NextRoutes ==
  ASSUME GuardInv,
         \/ \E g \in Guard : CreateGuard(g)
         \/ \E w \in GuardWriter :
              UpdateGuard(w) \/ DeleteGuard(w) \/ \E g \in Guard : ReadGuard(w, g)
  PROVE  GuardInv'
<1>1. ASSUME NEW g \in Guard, CreateGuard(g) PROVE GuardInv'
  <2>1. PICK doc \in GuardDoc : WriteGuard(g, doc)
    BY <1>1 DEF CreateGuard
  <2> QED
    BY <1>1, <2>1, NextWrite DEF CreateGuard, GuardInv, GuardrailsTypeOK, Holding
<1>2. ASSUME NEW w \in GuardWriter,
             guardWriters' = [guardWriters EXCEPT ![w] = NoWriter]
      PROVE  /\ guardWriters' \in [GuardWriter -> [on : SUBSET Guard, held : GuardDoc \cup {NoGuard}]]
             /\ Holding'
  <2>1. NoWriter \in [on : SUBSET Guard, held : GuardDoc \cup {NoGuard}] /\ NoWriter.on = {}
    BY DEF NoWriter
  <2> QED
    BY <1>2, <2>1 DEF GuardInv, GuardrailsTypeOK, Holding
<1>3. ASSUME NEW w \in GuardWriter, UpdateGuard(w) PROVE GuardInv'
  <2>1. PICK g \in guardWriters[w].on : \E doc \in GuardDoc : WriteGuard(g, doc)
    BY <1>3 DEF UpdateGuard
  <2>2. g \in Guard
    BY DEF GuardInv, GuardrailsTypeOK
  <2> QED
    BY <1>2, <1>3, <2>1, <2>2, NextWrite DEF UpdateGuard
<1>4. ASSUME NEW w \in GuardWriter, DeleteGuard(w) PROVE GuardInv'
  BY <1>2, <1>4, NextWrite DEF DeleteGuard, GuardInv, GuardrailsTypeOK
<1>5. ASSUME NEW w \in GuardWriter, NEW g \in Guard, ReadGuard(w, g) PROVE GuardInv'
  BY <1>5 DEF ReadGuard, GuardInv, GuardrailsTypeOK, Found, Undecided, Holding, GuardrailsDecide,
              Applied, Concerns, Demands, Loadable
<1> QED
  BY <1>1, <1>3, <1>4, <1>5
-----------------------------------------------------------------------------
(* Enforcement *)

\* A step of check e, which touches nothing else.
StepsAlone(e) ==
  /\ UNCHANGED <<guards, guardWriters, guardWrites>>
  /\ \A f \in Enforcer \ {e} : enforcers'[f] = enforcers[f] /\ steady'[f] = steady[f]

\* What the invariant says of check e.
CheckOf(e) ==
  /\ enforcers[e].pc = "load" =>
    /\ enforcers[e].left \subseteq Listed
    /\ \A g \in Guard :
         /\ enforcers[e].found[g] # NoGuard => g \in Listed
         /\ g \in steady[e] /\ g \in Listed \ enforcers[e].left =>
              /\ Loadable(guards[g])
              /\ enforcers[e].found[g] =
                   IF guards[g] # NoGuard /\ guards[g].enabled THEN guards[g] ELSE NoGuard
         /\ g \in steady[e] /\ g \in enforcers[e].left => enforcers[e].found[g] = NoGuard
  /\ enforcers[e].pc # "over" => enforcers[e].verdict = "none"

\* The property, of check e.
Decides(e) ==
  LET check == enforcers[e]
      unsteady == steady[e] # Guard
  IN /\ check.verdict = "accepted" =>
            \A g \in Applied(e) :
              /\ Concerns(e, g) => guards[g].rule = "holds"
              /\ Demands(g) /\ "output" \notin check.has => Concerns(e, g)
     /\ check.verdict = "refused" =>
            unsteady \/ \E g \in Applied(e) : Concerns(e, g) /\ guards[g].rule = "fails"
     /\ check.verdict = "incomplete" =>
            unsteady \/ check.has = {} \/ \E g \in Applied(e) : Demands(g) /\ ~Concerns(e, g)
     /\ check.verdict = "raised" =>
            \/ unsteady
            \/ \E g \in Listed \cup Applied(e) : ~Loadable(guards[g])
            \/ \E g \in Applied(e) : Concerns(e, g) /\ guards[g].rule = "raises"

\* It is enough to look at the check that makes the step.
LEMMA NextCheck ==
  ASSUME GuardInv, NEW e \in Enforcer, StepsAlone(e), GuardrailsTypeOK', CheckOf(e)', Decides(e)'
  PROVE  GuardInv'
<1>1. Holding'
  BY DEF GuardInv, Holding, StepsAlone
<1>2. ASSUME NEW f \in Enforcer PROVE CheckOf(f)'
  <2>1. CASE f = e
    BY <2>1
  <2>2. CASE f # e
    BY <2>2 DEF GuardInv, Found, Undecided, CheckOf, StepsAlone, Loadable
  <2> QED
    BY <2>1, <2>2
<1>3. ASSUME NEW f \in Enforcer PROVE Decides(f)'
  <2>1. CASE f = e
    BY <2>1
  <2>2. CASE f # e
    <3>1. Applied(f)' = Applied(f)
      BY <2>2 DEF Applied, StepsAlone
    <3>2. Decides(f)
      BY DEF GuardInv, GuardrailsDecide, Decides
    <3> QED
      BY <2>2, <3>1, <3>2 DEF Decides, StepsAlone, Concerns, Demands, Loadable
  <2> QED
    BY <2>1, <2>2
<1>4. Found' /\ Undecided'
  BY <1>2 DEF CheckOf, Found, Undecided
<1>5. GuardrailsDecide'
  BY <1>3 DEF Decides, GuardrailsDecide
<1> QED
  BY <1>1, <1>4, <1>5 DEF GuardInv

\* A check that decides.
LEMMA NextDecision ==
  ASSUME GuardInv, NEW e \in Enforcer,
         NEW answer \in {"accepted", "refused", "incomplete", "raised"},
         Decide(e, answer), UNCHANGED <<guards, guardWriters, guardWrites, steady>>
  PROVE  /\ StepsAlone(e) /\ GuardrailsTypeOK' /\ CheckOf(e)'
         /\ enforcers'[e].verdict = answer /\ enforcers'[e].has = enforcers[e].has
         /\ Applied(e)' = Applied(e)
<1>1. enforcers'[e] = [NoCheck EXCEPT !.pc = "over", !.has = enforcers[e].has, !.verdict = answer]
  BY DEF Decide, GuardInv, GuardrailsTypeOK
<1>2. /\ enforcers'[e].pc = "over" /\ enforcers'[e].verdict = answer
      /\ enforcers'[e].has = enforcers[e].has
  BY <1>1 DEF NoCheck
<1>3. StepsAlone(e)
  BY DEF Decide, GuardInv, GuardrailsTypeOK, StepsAlone
<1>4. GuardrailsTypeOK'
  BY DEF Decide, NoCheck, GuardInv, GuardrailsTypeOK
<1> QED
  BY <1>2, <1>3, <1>4 DEF CheckOf, Applied

LEMMA NextCheckStart == ASSUME GuardInv, NEW e \in Enforcer, StartCheck(e) PROVE GuardInv'
<1>1. PICK has \in (SUBSET {"prompt", "request"}) \cup {{"output"}} :
        enforcers' = [enforcers EXCEPT ![e] = [NoCheck EXCEPT !.pc = "load", !.has = has,
                                                              !.left = Listed]]
  BY DEF StartCheck
<1>2. enforcers'[e] = [NoCheck EXCEPT !.pc = "load", !.has = has, !.left = Listed]
  BY <1>1 DEF GuardInv, GuardrailsTypeOK
<1>3. /\ enforcers'[e].pc = "load" /\ enforcers'[e].left = Listed
      /\ enforcers'[e].found = [g \in Guard |-> NoGuard] /\ enforcers'[e].verdict = "none"
  BY <1>2 DEF NoCheck
<1>4. StepsAlone(e)
  BY <1>1 DEF StartCheck, StepsAlone, GuardInv, GuardrailsTypeOK
<1>5. GuardrailsTypeOK'
  <2>1. has \in SUBSET {"prompt", "request", "output"}
    <3>1. has \in SUBSET {"prompt", "request"} \/ has = {"output"}
      OBVIOUS
    <3>2. has \subseteq {"prompt", "request", "output"}
      BY <3>1
    <3> QED
      BY <3>2
  <2>2. [NoCheck EXCEPT !.pc = "load", !.has = has, !.left = Listed]
          \in [pc : {"idle", "load", "over"},
               has : SUBSET {"prompt", "request", "output"}, left : SUBSET Guard,
               found : [Guard -> GuardDoc \cup {NoGuard}],
               verdict : {"none", "accepted", "refused", "incomplete", "raised"}]
    BY <2>1, ListedAreGuards DEF NoCheck
  <2>3. steady' \in [Enforcer -> SUBSET Guard]
    BY DEF StartCheck, GuardInv, GuardrailsTypeOK
  <2> QED
    BY <1>1, <2>2, <2>3 DEF StartCheck, GuardInv, GuardrailsTypeOK
<1>6. CheckOf(e)' /\ Decides(e)'
  BY <1>3 DEF CheckOf, Decides
<1> QED
  BY <1>4, <1>5, <1>6, NextCheck

LEMMA NextListed ==
  ASSUME GuardInv, NEW e \in Enforcer, NEW g \in Guard, LoadListed(e, g) PROVE GuardInv'
<1> USE DEF GuardInv
<1>1. enforcers[e].pc = "load" /\ g \in enforcers[e].left /\ g \in Listed
  BY DEF LoadListed, Found
<1>2. CASE ~Loadable(guards[g])
  <2>1. Decide(e, "raised") /\ UNCHANGED <<guards, guardWriters, guardWrites, steady>>
    BY <1>2 DEF LoadListed
  <2>2. /\ StepsAlone(e) /\ GuardrailsTypeOK' /\ CheckOf(e)' /\ enforcers'[e].verdict = "raised"
    BY <2>1, NextDecision
  <2>3. Decides(e)'
    BY <1>1, <1>2, <2>1, <2>2 DEF Decides, Loadable
  <2> QED
    BY <2>2, <2>3, NextCheck
<1>3. CASE Loadable(guards[g])
  <2> DEFINE got == IF guards[g] # NoGuard /\ guards[g].enabled THEN guards[g] ELSE NoGuard
  <2>1. /\ enforcers' = [enforcers EXCEPT ![e].left = @ \ {g}, ![e].found[g] = got]
        /\ UNCHANGED <<guards, guardWriters, guardWrites, steady>>
    BY <1>3 DEF LoadListed
  <2>2. got \in GuardDoc \cup {NoGuard}
    BY DEF GuardrailsTypeOK
  <2> HIDE DEF got
  <2>3. GuardrailsTypeOK'
    <3> DEFINE Check == [pc : {"idle", "load", "over"},
                         has : SUBSET {"prompt", "request", "output"}, left : SUBSET Guard,
                         found : [Guard -> GuardDoc \cup {NoGuard}],
                         verdict : {"none", "accepted", "refused", "incomplete", "raised"}]
               found == [enforcers[e].found EXCEPT ![g] = got]
               check == [enforcers[e] EXCEPT !.left = @ \ {g}, !.found = found]
    <3>1. enforcers[e] \in Check /\ enforcers \in [Enforcer -> Check]
      BY DEF GuardrailsTypeOK
    <3>2. found \in [Guard -> GuardDoc \cup {NoGuard}]
      BY <2>2, <3>1
    <3>3. check \in Check
      BY <3>1, <3>2
    <3>4. enforcers' = [enforcers EXCEPT ![e] = check]
      BY <2>1, <3>1
    <3>5. enforcers' \in [Enforcer -> Check]
      BY <3>1, <3>3, <3>4
    <3> QED
      BY <2>1, <3>5 DEF GuardrailsTypeOK
  <2>4. /\ enforcers'[e].pc = "load" /\ enforcers'[e].left = enforcers[e].left \ {g}
        /\ \A h \in Guard : enforcers'[e].found[h] = IF h = g THEN got ELSE enforcers[e].found[h]
        /\ enforcers'[e].verdict = "none"
    BY <1>1, <2>1 DEF GuardrailsTypeOK, Undecided
  <2>5. StepsAlone(e)
    BY <2>1 DEF StepsAlone, GuardrailsTypeOK
  <2>6. CheckOf(e)'
    BY <1>1, <1>3, <2>1, <2>4 DEF got, CheckOf, Found, Loadable
  <2>7. Decides(e)'
    BY <2>4 DEF Decides
  <2> QED
    BY <2>3, <2>5, <2>6, <2>7, NextCheck
<1> QED
  BY <1>2, <1>3

\* The documents by which a check decides: those with a tag, and those it has found.
LEMMA Decision ==
  ASSUME GuardInv, NEW e \in Enforcer, enforcers[e].pc = "load", enforcers[e].left = {}
  PROVE  LET tagged == {g \in Guard : Tagged(g)}
             listed == {g \in Guard \ tagged : enforcers[e].found[g] # NoGuard}
             docs == {guards[g] : g \in tagged} \cup {enforcers[e].found[g] : g \in listed}
         IN /\ \A g \in Applied(e) : guards[g] \in docs /\ (g \in tagged \/ Loadable(guards[g]))
            /\ steady[e] = Guard => docs = {guards[g] : g \in Applied(e)} /\ tagged \subseteq Applied(e)
<1> USE DEF GuardInv
<1> DEFINE tagged == {g \in Guard : Tagged(g)}
           listed == {g \in Guard \ tagged : enforcers[e].found[g] # NoGuard}
           docs == {guards[g] : g \in tagged} \cup {enforcers[e].found[g] : g \in listed}
<1>1. \A g \in Guard : enforcers[e].found[g] # NoGuard => g \in Listed
  BY DEF Found
<1>2. \A g \in Listed : g \in steady[e] =>
        /\ Loadable(guards[g])
        /\ enforcers[e].found[g] =
             IF guards[g] # NoGuard /\ guards[g].enabled THEN guards[g] ELSE NoGuard
  BY ListedAreGuards DEF Found
<1>3. ASSUME NEW g \in Applied(e)
      PROVE  guards[g] \in docs /\ (g \in tagged \/ Loadable(guards[g]))
  <2>1. g \in Guard /\ g \in steady[e] /\ guards[g] # NoGuard /\ guards[g].enabled
    BY DEF Applied, GuardrailsTypeOK
  <2>2. CASE g \in tagged
    BY <2>2
  <2>3. CASE g \notin tagged
    <3>1. g \in Listed
      BY <2>1, <2>3 DEF Applied, Tagged
    <3>2. enforcers[e].found[g] = guards[g] /\ Loadable(guards[g])
      BY <1>2, <2>1, <3>1
    <3>3. g \in listed
      BY <2>1, <2>3, <3>2
    <3> QED
      BY <3>2, <3>3
  <2> QED
    BY <2>2, <2>3
<1>4. ASSUME steady[e] = Guard PROVE docs = {guards[g] : g \in Applied(e)} /\ tagged \subseteq Applied(e)
  <2>1. tagged \subseteq Applied(e)
    BY <1>4 DEF Applied, Tagged
  <2>2. ASSUME NEW g \in listed PROVE g \in Applied(e) /\ enforcers[e].found[g] = guards[g]
    BY <1>1, <1>2, <1>4 DEF Applied
  <2> QED
    BY <1>3, <2>1, <2>2
<1> QED
  BY <1>3, <1>4

LEMMA NextTagged == ASSUME GuardInv, NEW e \in Enforcer, LoadTagged(e) PROVE GuardInv'
<1> USE DEF GuardInv
<1> DEFINE tagged == {g \in Guard : Tagged(g)}
           listed == {g \in Guard \ tagged : enforcers[e].found[g] # NoGuard}
           docs == {guards[g] : g \in tagged} \cup {enforcers[e].found[g] : g \in listed}
           has == enforcers[e].has
           answers == IF \E g \in tagged : ~Loadable(guards[g]) THEN {"raised"}
                      ELSE Verdicts(has, docs)
<1>1. /\ enforcers[e].pc = "load" /\ enforcers[e].left = {}
      /\ UNCHANGED <<guards, guardWriters, guardWrites, steady>>
  BY Zenon DEF LoadTagged
<1>0. PICK answer \in answers : Decide(e, answer)
  BY Zenon DEF LoadTagged
<1>2. /\ \A g \in Applied(e) : guards[g] \in docs /\ (g \in tagged \/ Loadable(guards[g]))
      /\ steady[e] = Guard => docs = {guards[g] : g \in Applied(e)} /\ tagged \subseteq Applied(e)
  BY <1>1, Decision
<1>3. answer \in {"accepted", "refused", "incomplete", "raised"}
  <2>1. answer = "raised" \/ answer \in Verdicts(has, docs)
    BY <1>0
  <2> HIDE DEF docs, tagged, has, answers
  <2> QED
    BY <2>1 DEF Verdicts, Objections
<1>4. /\ StepsAlone(e) /\ GuardrailsTypeOK' /\ CheckOf(e)'
      /\ enforcers'[e].verdict = answer /\ enforcers'[e].has = has
      /\ Applied(e)' = Applied(e)
  BY <1>0, <1>1, <1>3, NextDecision
<1>5. ASSUME answer = "accepted", NEW g \in Applied(e)
      PROVE  /\ guards[g].type \in has => guards[g].rule = "holds"
             /\ Demands(g) /\ "output" \notin has => guards[g].type \in has
  <2>1. (\A h \in tagged : Loadable(guards[h])) /\ "accepted" \in Verdicts(has, docs)
    BY <1>0, <1>5
  <2>2. guards[g] \in docs /\ Loadable(guards[g])
    BY <1>2, <2>1
  <2>3. guards[g] # NoGuard /\ guards[g] \in GuardDoc
    BY DEF Applied, GuardrailsTypeOK
  <2>4. guards[g].rule # "null"
    BY <2>2, <2>3 DEF Loadable
  <2>5. has \subseteq {"prompt", "request", "output"}
    BY DEF GuardrailsTypeOK
  <2> HIDE DEF docs, tagged, has, answers
  <2>6. /\ \A type \in has : Objections(docs, type) = {}
        /\ \A type \in {"prompt", "request"} : \A doc \in docs :
             doc.type = type => type \in has \/ "output" \in has
    BY <2>1, <2>5 DEF Verdicts, Objections
  <2>7. guards[g].type \in has => guards[g].rule \notin {"fails", "raises"}
    BY <2>2, <2>6 DEF Objections
  <2> QED
    BY <2>2, <2>3, <2>4, <2>6, <2>7 DEF GuardDoc, Demands
<1>6. ASSUME answer = "refused", steady[e] = Guard
      PROVE  \E g \in Applied(e) : guards[g].type \in has /\ guards[g].rule = "fails"
  <2>1. "refused" \in Verdicts(has, docs) /\ docs = {guards[g] : g \in Applied(e)}
    BY <1>0, <1>2, <1>6
  <2> HIDE DEF docs, tagged, has, answers
  <2>2. PICK type \in has : "refused" \in Objections(docs, type)
    BY <2>1 DEF Verdicts, Objections
  <2> QED
    BY <2>1, <2>2 DEF Objections
<1>7. ASSUME answer = "incomplete", steady[e] = Guard, has # {}
      PROVE  \E g \in Applied(e) : Demands(g) /\ guards[g].type \notin has
  <2>1. "incomplete" \in Verdicts(has, docs) /\ docs = {guards[g] : g \in Applied(e)}
    BY <1>0, <1>2, <1>7
  <2> HIDE DEF docs, tagged, has, answers
  <2>2. PICK type \in {"prompt", "request"} : type \notin has /\ \E doc \in docs : doc.type = type
    BY <1>7, <2>1 DEF Verdicts, Objections
  <2> QED
    BY <2>1, <2>2 DEF Demands
<1>8. ASSUME answer = "raised", steady[e] = Guard
      PROVE  \/ \E g \in Applied(e) : ~Loadable(guards[g])
             \/ \E g \in Applied(e) : guards[g].type \in has /\ guards[g].rule = "raises"
  <2>1. CASE \E g \in tagged : ~Loadable(guards[g])
    BY <1>2, <1>8, <2>1
  <2>2. CASE \A g \in tagged : Loadable(guards[g])
    <3>1. "raised" \in Verdicts(has, docs) /\ docs = {guards[g] : g \in Applied(e)}
      BY <1>0, <1>2, <1>8, <2>2
    <3> HIDE DEF docs, tagged, has, answers
    <3>2. PICK type \in has : "raised" \in Objections(docs, type)
      BY <3>1 DEF Verdicts, Objections
    <3> QED
      BY <3>1, <3>2 DEF Objections
  <2> QED
    BY <2>1, <2>2
<1> HIDE DEF docs, tagged, has, answers
<1>9. Decides(e)'
  BY <1>1, <1>4, <1>5, <1>6, <1>7, <1>8 DEF Decides, Concerns, Demands, Loadable
<1> QED
  BY <1>4, <1>9, NextCheck

LEMMA NextGuard == GuardInv /\ [GuardrailsNext]_guardVars => GuardInv'
<1> SUFFICES ASSUME GuardInv, [GuardrailsNext]_guardVars PROVE GuardInv'
  OBVIOUS
<1>1. CASE UNCHANGED guardVars
  BY <1>1 DEF guardVars, GuardInv, GuardrailsTypeOK, Found, Undecided, Holding, GuardrailsDecide,
              Applied, Concerns, Demands, Loadable
<1> QED
  BY <1>1, NextCheckStart, NextListed, NextTagged, NextRoutes DEF GuardrailsNext

\* However many checks and requests there are, and however often guardrails are
\* written: each guardrail that was left alone during a check has had its say.
THEOREM GuardrailsAreApplied == GuardrailsSpec => []GuardrailsDecide
<1>1. GuardInv => GuardrailsDecide
  BY DEF GuardInv
<1> QED
  BY <1>1, InitGuard, NextGuard, PTL DEF GuardrailsSpec

-----------------------------------------------------------------------------
(* Chat *)

\* A turn that has stored a message and has yet to count it.
Saving(t) == turns[t].pc \in {"count_user", "count_assistant"}

\* A request is about one session.
OnOne ==
  /\ \A t \in Turn : turns[t].pc = "idle" => turns[t].on = {}
  /\ \A d \in Deleter : deleters[d].pc = "idle" => deleters[d].on = {}
  /\ \A t \in Turn : turns[t].pc # "idle" => \E s \in Session : turns[t].on = {s}
  /\ \A d \in Deleter : deleters[d].pc # "idle" => \E s \in halfDeleted : deleters[d].on = {s}

\* No message is one of a turn that has not stored one.
NotYetSaid ==
  \A t \in Turn :
    turns[t].pc \in {"idle", "open", "history", "user"} =>
      \A s \in Session : \A i \in DOMAIN messages[s] : messages[s][i].turn # t

\* The history has no message of the turn, which then sends its own last.
Prompted ==
  \A t \in Turn :
    /\ turns[t].pc = "user" => \A i \in DOMAIN turns[t].sent : turns[t].sent[i].turn # t
    /\ turns[t].pc \in {"count_user", "stream"} =>
         \A i \in DOMAIN turns[t].sent : turns[t].sent[i].turn = t <=> i = Len(turns[t].sent)

\* Without a deletion that overlaps a turn: a session stays while a turn is on
\* it, has no messages once it is gone, and a deletion finds it as it left it.
Stays(s) ==
  /\ TurnsOn(s) # {} => sessions[s].stored /\ DeletersOn(s) = {}
  /\ ~sessions[s].stored => messages[s] = <<>>
  /\ \A d \in Deleter :
       s \in deleters[d].on =>
         /\ deleters[d].pc = "session" => messages[s] = <<>>
         /\ deleters[d].pc = "done" => ~sessions[s].stored

\* Until a deletion, neither the session nor a copy of it counts too many.
Counted(s) ==
  /\ sessions[s].count <= Len(messages[s])
  /\ \A t \in TurnsOn(s) :
       /\ turns[t].count <= Len(messages[s])
       /\ Saving(t) => turns[t].count + 1 <= Len(messages[s])

\* Turns that follow one another and are not cut: the copy is the session's,
\* which lacks no more than the message being saved, and the turn sends the end
\* of the conversation.
InOrder(s) ==
  /\ (\A t \in TurnsOn(s) : ~Saving(t)) => Len(messages[s]) = sessions[s].count
  /\ \A t \in TurnsOn(s) :
       /\ turns[t].count = sessions[s].count
       /\ Saving(t) => Len(messages[s]) = sessions[s].count + 1
       /\ turns[t].pc = "user" => turns[t].sent = LastOf(messages[s], Window)
       /\ turns[t].pc \in {"count_user", "stream"} =>
            turns[t].sent = LastOf(messages[s], Window + 1)

InTurn(s) == \A t, u \in TurnsOn(s) : t = u

ChatInv ==
  /\ ChatTypeOK /\ OnOne /\ NotYetSaid /\ Prompted
  /\ crossed \subseteq halfDeleted
  /\ \A s \in Session : sessions[s].stored \/ sessions[s].count = 0
  /\ \A s \in Session \ crossed : Stays(s)
  /\ \A s \in Session \ halfDeleted : Counted(s)
  /\ \A s \in Session \ disordered : InTurn(s)
  /\ \A s \in Session \ (disordered \cup halfDeleted) : InOrder(s)

\* The last n of a sequence.
LEMMA LastOfSeq ==
  ASSUME NEW S, NEW q \in Seq(S), NEW n \in Nat \ {0}
  PROVE  /\ LastOf(q, n) \in Seq(S)
         /\ \A i \in DOMAIN LastOf(q, n) : \E j \in DOMAIN q : LastOf(q, n)[i] = q[j]
<1> DEFINE m == IF Len(q) > n THEN Len(q) - n + 1 ELSE 1
<1>1. m \in 1..Len(q) + 1 /\ LastOf(q, n) = SubSeq(q, m, Len(q))
  BY DEF LastOf
<1> HIDE DEF m
<1>2. /\ SubSeq(q, m, Len(q)) \in Seq(S)
      /\ Len(SubSeq(q, m, Len(q))) = Len(q) - m + 1
      /\ \A i \in 1..(Len(q) - m + 1) : SubSeq(q, m, Len(q))[i] = q[m + i - 1]
  BY <1>1
<1>3. ASSUME NEW i \in DOMAIN LastOf(q, n) PROVE m + i - 1 \in DOMAIN q /\ LastOf(q, n)[i] = q[m + i - 1]
  BY <1>1, <1>2
<1> QED
  BY <1>1, <1>2, <1>3

\* A message more, and one more of the last.
LEMMA LastOfAppend ==
  ASSUME NEW S, NEW q \in Seq(S), NEW e \in S, NEW n \in Nat \ {0}
  PROVE  Append(LastOf(q, n), e) = LastOf(Append(q, e), n + 1)
<1> DEFINE m == IF Len(q) > n THEN Len(q) - n + 1 ELSE 1
           a == Append(q, e)
           b == Append(LastOf(q, n), e)
           c == LastOf(a, n + 1)
<1>1. a \in Seq(S) /\ Len(a) = Len(q) + 1 /\ (\A i \in 1..Len(q) : a[i] = q[i]) /\ a[Len(q) + 1] = e
  OBVIOUS
<1>2. m \in 1..Len(q) + 1 /\ LastOf(q, n) = SubSeq(q, m, Len(q))
  BY DEF LastOf
<1> HIDE DEF a
<1>3. c = SubSeq(a, IF Len(a) > n + 1 THEN Len(a) - (n + 1) + 1 ELSE 1, Len(a))
  BY DEF LastOf
<1>4. (IF Len(a) > n + 1 THEN Len(a) - (n + 1) + 1 ELSE 1) = m
  BY <1>1
<1> HIDE DEF m, c
<1>5. c = SubSeq(a, m, Len(a))
  BY <1>3, <1>4
<1>6. /\ LastOf(q, n) \in Seq(S) /\ Len(LastOf(q, n)) = Len(q) - m + 1
      /\ \A i \in 1..(Len(q) - m + 1) : LastOf(q, n)[i] = q[m + i - 1]
  BY <1>2
<1>7. /\ c \in Seq(S) /\ Len(c) = Len(q) - m + 2
      /\ \A i \in 1..(Len(q) - m + 2) : c[i] = a[m + i - 1]
  BY <1>1, <1>2, <1>5
<1>8. /\ b \in Seq(S) /\ Len(b) = Len(q) - m + 2
      /\ \A i \in 1..(Len(q) - m + 1) : b[i] = q[m + i - 1]
      /\ b[Len(q) - m + 2] = e
  BY <1>6, <1>2
<1> HIDE DEF b
<1>9. ASSUME NEW i \in 1..(Len(q) - m + 2) PROVE b[i] = c[i]
  <2>1. CASE i = Len(q) - m + 2
    BY <2>1, <1>1, <1>2, <1>7, <1>8
  <2>2. CASE i \in 1..(Len(q) - m + 1)
    <3>1. m + i - 1 \in 1..Len(q)
      BY <2>2, <1>2
    <3>2. c[i] = a[m + i - 1] /\ b[i] = q[m + i - 1]
      BY <2>2, <1>2, <1>7, <1>8
    <3> QED
      BY <3>1, <3>2, <1>1
  <2>3. Len(q) \in Int /\ m \in Int /\ i \in 1..(Len(q) - m + 2)
    BY <1>2
  <2>4. i = Len(q) - m + 2 \/ i \in 1..(Len(q) - m + 1)
    BY ONLY <2>3
  <2> QED
    BY ONLY <2>1, <2>2, <2>4
<1>10. Len(b) = Len(c) /\ \A i \in 1..Len(b) : b[i] = c[i]
  BY <1>7, <1>8, <1>9
<1>11. b = c
  BY <1>7, <1>8, <1>10
<1> QED
  BY <1>11 DEF a, b, c

LEMMA InitChat == ChatInit => ChatInv
<1> SUFFICES ASSUME ChatInit PROVE ChatInv
  OBVIOUS
<1> USE DEF ChatInit, NoTurn, Unsaved
<1>1. ChatTypeOK
  <2>1. NoTurn \in ChatTurn
    BY DEF ChatTurn, TurnPcs
  <2> QED
    BY <2>1 DEF ChatTypeOK
<1>2. \A s \in Session : TurnsOn(s) = {} /\ DeletersOn(s) = {} /\ messages[s] = <<>>
  BY DEF TurnsOn, DeletersOn
<1>3. OnOne /\ NotYetSaid /\ Prompted
  BY <1>2 DEF OnOne, NotYetSaid, Prompted
<1>4. ASSUME NEW s \in Session PROVE Stays(s) /\ Counted(s) /\ InTurn(s) /\ InOrder(s)
  BY <1>2 DEF Stays, Counted, InTurn, InOrder
<1> QED
  BY <1>1, <1>3, <1>4 DEF ChatInv

LEMMA NextOnOne ==
  ASSUME OnOne, NEW t \in Turn, NEW s \in Session, turns'[t].on = {s}, turns'[t].pc # "idle",
         \A u \in Turn \ {t} : turns'[u] = turns[u], deleters' = deleters, halfDeleted' = halfDeleted
  PROVE  OnOne'
<1>1. ASSUME NEW u \in Turn
      PROVE  /\ turns'[u].pc = "idle" => turns'[u].on = {}
             /\ turns'[u].pc # "idle" => \E x \in Session : turns'[u].on = {x}
  <2>1. CASE u = t
    BY <2>1
  <2>2. CASE u # t
    BY <2>2 DEF OnOne
  <2> QED
    BY <2>1, <2>2
<1>2. ASSUME NEW d \in Deleter
      PROVE  /\ deleters'[d].pc = "idle" => deleters'[d].on = {}
             /\ deleters'[d].pc # "idle" => \E x \in halfDeleted' : deleters'[d].on = {x}
  BY DEF OnOne
<1> QED
  BY <1>1, <1>2 DEF OnOne

\* A step of turn t on session s: what is to be shown of it for the invariant.
LEMMA NextTurn ==
  ASSUME ChatInv, NEW t \in Turn, NEW s \in Session, NEW new \in ChatTurn,
         turns' = [turns EXCEPT ![t] = new], new.on = {s}, turns[t].on \in {{}, {s}}, new.pc # "idle",
         deleters' = deleters, halfDeleted' = halfDeleted,
         sessions' \in [Session -> [stored : BOOLEAN, count : Nat]],
         messages' \in [Session -> Seq(ChatMessage)],
         \A x \in Session \ {s} : sessions'[x] = sessions[x] /\ messages'[x] = messages[x],
         disordered \subseteq disordered', disordered' \subseteq Session,
         crossed \subseteq crossed', crossed' \subseteq halfDeleted,
         \A i \in DOMAIN messages'[s] :
           messages'[s][i].turn # t => \E j \in DOMAIN messages[s] : messages'[s][i] = messages[s][j],
         new.pc \in {"open", "history", "user"} =>
           turns[t].pc \in {"idle", "open", "history", "user"} /\ messages' = messages,
         new.pc = "user" => \A i \in DOMAIN new.sent : new.sent[i].turn # t,
         new.pc \in {"count_user", "stream"} =>
           \A i \in DOMAIN new.sent : new.sent[i].turn = t <=> i = Len(new.sent),
         sessions'[s].stored \/ sessions'[s].count = 0,
         s \notin crossed' => Stays(s)',
         s \notin halfDeleted => Counted(s)',
         s \notin disordered' => InTurn(s)',
         s \notin disordered' \cup halfDeleted => InOrder(s)'
  PROVE  ChatInv'
<1> USE DEF ChatInv
<1>1. turns'[t] = new /\ \A u \in Turn \ {t} : turns'[u] = turns[u]
  BY DEF ChatTypeOK
<1>2. ChatTypeOK'
  BY DEF ChatTypeOK
<1>3. OnOne'
  <2>1. OnOne
    OBVIOUS
  <2> QED
    BY ONLY <2>1, <1>1, new.on = {s}, new.pc # "idle", deleters' = deleters, halfDeleted' = halfDeleted,
            NextOnOne
<1>4. NotYetSaid'
  <2> SUFFICES ASSUME NEW u \in Turn, turns'[u].pc \in {"idle", "open", "history", "user"},
                      NEW x \in Session, NEW i \in DOMAIN messages'[x]
               PROVE  messages'[x][i].turn # u
    BY DEF NotYetSaid
  <2>1. CASE u = t
    BY <2>1, <1>1 DEF NotYetSaid
  <2>2. CASE u # t /\ x # s
    BY <2>2, <1>1 DEF NotYetSaid
  <2>3. CASE u # t /\ x = s
    BY <2>3, <1>1 DEF NotYetSaid
  <2> QED
    BY <2>1, <2>2, <2>3
<1>5. Prompted'
  BY <1>1 DEF Prompted
<1>6. ASSUME NEW x \in Session \ {s}
      PROVE  /\ Stays(x) => Stays(x)'
             /\ Counted(x) => Counted(x)'
             /\ InTurn(x) => InTurn(x)'
             /\ InOrder(x) => InOrder(x)'
             /\ sessions'[x].stored \/ sessions'[x].count = 0
  <2>1. x \notin turns[t].on /\ x \notin new.on
    OBVIOUS
  <2>2. TurnsOn(x)' = TurnsOn(x) /\ \A u \in TurnsOn(x) : u \in Turn /\ turns'[u] = turns[u]
    BY <2>1, <1>1 DEF TurnsOn
  <2>3. DeletersOn(x)' = DeletersOn(x)
    BY DEF DeletersOn
  <2>4. sessions'[x] = sessions[x] /\ messages'[x] = messages[x]
    OBVIOUS
  <2>5. Stays(x) => Stays(x)'
    BY <2>2, <2>3, <2>4 DEF Stays
  <2>6. InTurn(x) => InTurn(x)'
    BY <2>2 DEF InTurn
  <2>7. Counted(x) => Counted(x)'
    BY <2>2, <2>4 DEF Counted, Saving
  <2>8. InOrder(x) => InOrder(x)'
    BY <2>2, <2>4 DEF InOrder, Saving
  <2> QED
    BY <2>4, <2>5, <2>6, <2>7, <2>8
<1> QED
  BY <1>2, <1>3, <1>4, <1>5, <1>6

\* The sets of turns on s, before and after a step of t.
LEMMA NextTurnsOn ==
  ASSUME ChatTypeOK, NEW t \in Turn, NEW s \in Session, NEW new \in ChatTurn,
         turns' = [turns EXCEPT ![t] = new], new.on = {s}, new.pc # "idle"
  PROVE  /\ turns'[t] = new
         /\ \A u \in Turn \ {t} : turns'[u] = turns[u]
         /\ new.pc = "over" => TurnsOn(s)' = TurnsOn(s) \ {t}
         /\ new.pc # "over" => TurnsOn(s)' = TurnsOn(s) \cup {t}
<1>1. turns'[t] = new /\ \A u \in Turn \ {t} : turns'[u] = turns[u]
  BY DEF ChatTypeOK
<1>2. TurnsOn(s)' = {u \in Turn : s \in turns'[u].on /\ turns'[u].pc \notin {"idle", "over"}}
  BY DEF TurnsOn
<1>3. TurnsOn(s) = {u \in Turn : s \in turns[u].on /\ turns[u].pc \notin {"idle", "over"}}
  BY DEF TurnsOn
<1>4. new.pc = "over" => TurnsOn(s)' = TurnsOn(s) \ {t}
  BY <1>1, <1>2, <1>3
<1>5. new.pc # "over" => TurnsOn(s)' = TurnsOn(s) \cup {t}
  BY <1>1, <1>2, <1>3
<1> QED
  BY <1>1, <1>4, <1>5

LEMMA NextStartTurn ==
  ASSUME ChatInv, NEW t \in Turn, NEW s \in Session, StartTurn(t, s)
  PROVE  ChatInv'
<1> USE DEF ChatInv
<1> DEFINE new == [NoTurn EXCEPT !.pc = "open", !.on = {s}, !.count = sessions[s].count]
<1>a. NoTurn \in ChatTurn
  BY DEF ChatTurn, TurnPcs, NoTurn
<1>b. sessions[s].count \in Nat /\ sessions[s] \in [stored : BOOLEAN, count : Nat]
  BY DEF ChatTypeOK
<1>1. /\ new \in ChatTurn /\ new.pc = "open" /\ new.on = {s}
      /\ new.count = sessions[s].count
  BY <1>a, <1>b DEF ChatTurn, TurnPcs
<1>2. turns' = [turns EXCEPT ![t] = new] /\ turns[t].pc = "idle"
  BY DEF StartTurn
<1> HIDE DEF new
<1>3. turns[t].on = {} /\ t \notin TurnsOn(s)
  BY <1>2 DEF OnOne, TurnsOn
<1>4. /\ turns'[t] = new
      /\ \A u \in Turn \ {t} : turns'[u] = turns[u]
      /\ TurnsOn(s)' = TurnsOn(s) \cup {t}
  <2>1. ChatTypeOK /\ new.pc # "idle" /\ new.pc # "over"
    BY <1>1
  <2> QED
    BY <2>1, <1>1, <1>2, NextTurnsOn
<1>5. /\ deleters' = deleters /\ halfDeleted' = halfDeleted /\ messages' = messages
      /\ DeletersOn(s)' = DeletersOn(s)
  BY DEF StartTurn, DeletersOn
<1>6. /\ sessions' \in [Session -> [stored : BOOLEAN, count : Nat]]
      /\ \A x \in Session \ {s} : sessions'[x] = sessions[x]
      /\ sessions'[s].stored = TRUE /\ sessions'[s].count = sessions[s].count
  <2>1. sessions \in [Session -> [stored : BOOLEAN, count : Nat]]
    BY DEF ChatTypeOK
  <2>2. CASE sessions[s].stored /\ sessions' = sessions
    BY <2>1, <2>2
  <2>3. CASE sessions' = [sessions EXCEPT ![s].stored = TRUE]
    BY <2>1, <2>3
  <2> QED
    BY <2>2, <2>3 DEF StartTurn
<1>7. /\ disordered' = IF TurnsOn(s) # {} THEN disordered \cup {s} ELSE disordered
      /\ crossed' = IF DeletersOn(s) # {} THEN crossed \cup {s} ELSE crossed
  BY DEF StartTurn
<1>8. DeletersOn(s) # {} => s \in halfDeleted
  BY DEF OnOne, DeletersOn
<1>9. sessions[s].stored \/ s \notin halfDeleted
  BY DEF StartTurn
<1>10. ASSUME s \notin crossed' PROVE Stays(s)'
  <2>1. s \notin crossed /\ DeletersOn(s) = {} /\ Stays(s)
    BY <1>10, <1>7
  <2>2. \A d \in Deleter : s \in deleters[d].on => deleters[d].pc \notin {"session", "done"}
    <3>1. ASSUME NEW d \in Deleter, s \in deleters[d].on, deleters[d].pc \in {"session", "done"}
          PROVE  FALSE
      <4>1. s \in halfDeleted
        BY <3>1 DEF OnOne
      <4>2. deleters[d].pc = "done"
        BY <3>1, <2>1 DEF DeletersOn
      <4> QED
        BY <3>1, <4>1, <4>2, <1>9, <2>1 DEF Stays
    <3> QED
      BY <3>1
  <2> QED
    BY <2>1, <2>2, <1>5, <1>6 DEF Stays
<1>11. ASSUME s \notin halfDeleted PROVE Counted(s)'
  <2>1. Counted(s)
    BY <1>11
  <2> QED
    BY <2>1, <1>1, <1>4, <1>5, <1>6 DEF Counted, Saving, TurnsOn
<1>12. ASSUME s \notin disordered' PROVE InTurn(s)'
  BY <1>12, <1>4, <1>7 DEF InTurn
<1>13. ASSUME s \notin disordered' \cup halfDeleted PROVE InOrder(s)'
  <2>1. InOrder(s) /\ TurnsOn(s) = {} /\ TurnsOn(s)' = {t}
    BY <1>13, <1>4, <1>7
  <2> QED
    BY <2>1, <1>1, <1>4, <1>5, <1>6 DEF InOrder, Saving
<1>14. /\ disordered \subseteq disordered' /\ disordered' \subseteq Session
       /\ crossed \subseteq crossed' /\ crossed' \subseteq halfDeleted
  BY <1>7, <1>8 DEF ChatTypeOK
<1>15. messages' \in [Session -> Seq(ChatMessage)]
  BY <1>5 DEF ChatTypeOK
<1>16. turns[t].on \in {{}, {s}} /\ new.pc # "idle" /\ new.pc \notin {"user", "count_user", "stream"}
  BY <1>1, <1>3
<1> QED
  BY <1>1, <1>2, <1>5, <1>6, <1>10, <1>11, <1>12, <1>13, <1>14, <1>15, <1>16, NextTurn

\* A step that stores nothing: the turn goes on, or ends with nothing to count
\* unless it is known to have been cut.
LEMMA NextQuiet ==
  ASSUME ChatInv, NEW t \in Turn, NEW s \in Session, NEW new \in ChatTurn,
         turns' = [turns EXCEPT ![t] = new], turns[t].on = {s}, new.on = {s},
         turns[t].pc \notin {"idle", "over"}, new.pc \in {"history", "user", "assistant", "over"},
         new.pc \in {"history", "user"} => turns[t].pc \in {"open", "history"},
         new.pc # "over" => new.count = turns[t].count /\ ~Saving(t),
         new.pc = "user" => new.sent = LastOf(messages[s], Window),
         UNCHANGED <<sessions, messages, deleters, halfDeleted, crossed>>,
         disordered \subseteq disordered', disordered' \subseteq Session,
         Saving(t) => s \in disordered'
  PROVE  ChatInv'
<1>1. ChatTypeOK /\ new.pc # "idle"
  BY DEF ChatInv
<1>2. /\ turns'[t] = new
      /\ \A u \in Turn \ {t} : turns'[u] = turns[u]
      /\ new.pc = "over" => TurnsOn(s)' = TurnsOn(s) \ {t}
      /\ new.pc # "over" => TurnsOn(s)' = TurnsOn(s) \cup {t}
  BY ONLY <1>1, turns' = [turns EXCEPT ![t] = new], new.on = {s}, new \in ChatTurn, NextTurnsOn
<1>3. t \in TurnsOn(s) /\ DeletersOn(s)' = DeletersOn(s)
  BY DEF TurnsOn, DeletersOn
<1>4. TurnsOn(s)' \subseteq TurnsOn(s)
  BY <1>2, <1>3, new.pc = "over" \/ new.pc # "over"
<1>5. ~Saving(t)'
  BY <1>2 DEF Saving
<1>6. \A u \in TurnsOn(s) \ {t} : turns'[u] = turns[u] /\ (Saving(u)' <=> Saving(u))
  BY <1>2 DEF Saving, TurnsOn
<1>7. ASSUME s \notin crossed' PROVE Stays(s)'
  <2>1. Stays(s)
    BY <1>7 DEF ChatInv
  <2> QED
    BY <2>1, <1>3, <1>4 DEF Stays
<1>8. ASSUME s \notin halfDeleted PROVE Counted(s)'
  <2>1. Counted(s)
    BY <1>8 DEF ChatInv
  <2>2. ASSUME NEW u \in TurnsOn(s)'
        PROVE  /\ turns'[u].count <= Len(messages'[s])
               /\ Saving(u)' => turns'[u].count + 1 <= Len(messages'[s])
    <3>1. u \in TurnsOn(s)
      BY <1>4
    <3>2. CASE u = t
      <4>1. new.pc # "over" /\ ~Saving(u)'
        BY <3>2, <1>2, <1>5
      <4> QED
        BY <4>1, <3>1, <3>2, <2>1, <1>2 DEF Counted
    <3>3. CASE u # t
      BY <3>1, <3>3, <2>1, <1>6 DEF Counted
    <3> QED
      BY <3>2, <3>3
  <2>3. (sessions[s].count <= Len(messages[s]))'
    BY <2>1 DEF Counted
  <2> QED
    BY <2>2, <2>3 DEF Counted
<1>9. ASSUME s \notin disordered' PROVE InTurn(s)'
  BY <1>9, <1>4 DEF InTurn, ChatInv
<1>10. ASSUME s \notin disordered' \cup halfDeleted PROVE InOrder(s)'
  <2>1. InOrder(s) /\ InTurn(s) /\ ~Saving(t)
    BY <1>10 DEF ChatInv
  <2>2. TurnsOn(s) = {t}
    BY <2>1, <1>3 DEF InTurn
  <2>3. /\ Len(messages'[s]) = sessions'[s].count
        /\ turns[t].count = sessions'[s].count
    BY <2>1, <2>2 DEF InOrder
  <2>4. ASSUME NEW u \in TurnsOn(s)'
        PROVE  /\ turns'[u].count = sessions'[s].count
               /\ ~Saving(u)'
               /\ turns'[u].pc = "user" => turns'[u].sent = LastOf(messages'[s], Window)
               /\ turns'[u].pc \notin {"count_user", "stream"}
    <3>1. u = t /\ new.pc # "over"
      BY <2>2, <1>2, <1>4
    <3> QED
      BY <3>1, <2>3, <1>2, <1>5
  <2> QED
    BY <2>3, <2>4 DEF InOrder
<1>11. new.pc = "user" => \A i \in DOMAIN new.sent : new.sent[i].turn # t
  <2> SUFFICES ASSUME new.pc = "user", NEW i \in DOMAIN new.sent PROVE new.sent[i].turn # t
    OBVIOUS
  <2>1. messages[s] \in Seq(ChatMessage) /\ new.sent = LastOf(messages[s], Window)
    BY DEF ChatInv, ChatTypeOK
  <2>2. PICK j \in DOMAIN messages[s] : new.sent[i] = messages[s][j]
    <3>1. \A k \in DOMAIN LastOf(messages[s], Window) :
            \E j \in DOMAIN messages[s] : LastOf(messages[s], Window)[k] = messages[s][j]
      BY ONLY <2>1, LastOfSeq, WindowIsPositive
    <3> QED
      BY <2>1, <3>1
  <2>3. NotYetSaid /\ turns[t].pc \in {"open", "history"}
    BY DEF ChatInv
  <2> QED
    BY <2>2, <2>3 DEF NotYetSaid
<1>12. /\ sessions' \in [Session -> [stored : BOOLEAN, count : Nat]]
       /\ messages' \in [Session -> Seq(ChatMessage)]
       /\ crossed' \subseteq halfDeleted
       /\ sessions'[s].stored \/ sessions'[s].count = 0
  BY DEF ChatInv, ChatTypeOK
<1>13. \A i \in DOMAIN messages'[s] :
         messages'[s][i].turn # t => \E j \in DOMAIN messages[s] : messages'[s][i] = messages[s][j]
  OBVIOUS
<1>14. /\ new.pc \notin {"count_user", "stream"}
       /\ new.pc \in {"open", "history", "user"} => turns[t].pc \in {"idle", "open", "history", "user"}
       /\ turns[t].on \in {{}, {s}}
  OBVIOUS
<1>15. /\ deleters' = deleters /\ halfDeleted' = halfDeleted /\ messages' = messages
       /\ \A x \in Session \ {s} : sessions'[x] = sessions[x] /\ messages'[x] = messages[x]
       /\ crossed \subseteq crossed'
  OBVIOUS
<1> QED
  BY ONLY ChatInv, turns' = [turns EXCEPT ![t] = new], new.on = {s}, <1>1, <1>7, <1>8, <1>9, <1>10,
          <1>11, <1>12, <1>13, <1>14, <1>15, NextTurn,
          disordered \subseteq disordered', disordered' \subseteq Session

LEMMA TurnedTo ==
  ASSUME ChatTypeOK, NEW t \in Turn, NEW pc \in TurnPcs, Turned(t, pc)
  PROVE  \E new \in ChatTurn :
           /\ turns' = [turns EXCEPT ![t] = new]
           /\ new.on = turns[t].on /\ new.pc = pc
           /\ pc # "over" => new.count = turns[t].count /\ new.sent = turns[t].sent
<1>1. NoTurn \in ChatTurn
  BY DEF ChatTurn, TurnPcs, NoTurn
<1>2. turns[t] \in ChatTurn
  BY DEF ChatTypeOK
<1>3. CASE pc = "over"
  <2> DEFINE new == [NoTurn EXCEPT !.pc = pc, !.on = turns[t].on]
  <2>1. turns' = [turns EXCEPT ![t] = new]
    BY <1>3 DEF Turned
  <2>2. new \in ChatTurn /\ new.on = turns[t].on /\ new.pc = pc
    BY <1>1, <1>2 DEF ChatTurn
  <2> HIDE DEF new
  <2> QED
    BY <2>1, <2>2, <1>3
<1>4. CASE pc # "over"
  <2> DEFINE new == [turns[t] EXCEPT !.pc = pc]
  <2>1. turns' = [turns EXCEPT ![t] = new]
    BY <1>4 DEF Turned
  <2>2. /\ new \in ChatTurn /\ new.on = turns[t].on /\ new.pc = pc
        /\ new.count = turns[t].count /\ new.sent = turns[t].sent
    BY <1>2 DEF ChatTurn
  <2> HIDE DEF new
  <2> QED
    BY <2>1, <2>2
<1> QED
  BY <1>3, <1>4

\* The session of a request that has begun.
LEMMA TurnIsOnOne ==
  ASSUME ChatInv, NEW t \in Turn, turns[t].pc # "idle"
  PROVE  \E s \in Session : turns[t].on = {s}
BY DEF ChatInv, OnOne

LEMMA NextOpenTurn == ASSUME ChatInv, NEW t \in Turn, OpenTurn(t) PROVE ChatInv'
<1>1. PICK pc \in {"history", "over"} : Turned(t, pc)
  BY DEF OpenTurn
<1>2. ChatTypeOK /\ pc \in TurnPcs /\ turns[t].pc = "open" /\ disordered \subseteq Session
  BY DEF OpenTurn, ChatInv, ChatTypeOK, TurnPcs
<1>3. PICK new \in ChatTurn : /\ turns' = [turns EXCEPT ![t] = new]
                              /\ new.on = turns[t].on /\ new.pc = pc
                              /\ pc # "over" => new.count = turns[t].count
  BY <1>1, <1>2, TurnedTo
<1>4. PICK s \in Session : turns[t].on = {s}
  BY <1>2, TurnIsOnOne
<1>5. /\ new.on = {s} /\ new.pc \in {"history", "over"} /\ ~Saving(t)
      /\ turns[t].pc \notin {"idle", "over"} /\ turns[t].pc \in {"open", "history"}
      /\ new.pc # "over" => new.count = turns[t].count
  BY <1>2, <1>3, <1>4 DEF Saving
<1>6. UNCHANGED <<sessions, messages, deleters, halfDeleted, crossed>> /\ disordered' = disordered
  BY DEF OpenTurn, OnlyTurns
<1> QED
  BY ONLY ChatInv, <1>2, <1>3, <1>4, <1>5, <1>6, NextQuiet

LEMMA NextLoadHistory == ASSUME ChatInv, NEW t \in Turn, LoadHistory(t) PROVE ChatInv'
<1>1. PICK s \in turns[t].on :
         turns' = [turns EXCEPT ![t].pc = "user", ![t].sent = LastOf(MessagesOf(s), Window)]
  BY DEF LoadHistory
<1>2. /\ turns[t].pc = "history" /\ disordered \subseteq Session /\ turns[t] \in ChatTurn
      /\ messages \in [Session -> Seq(ChatMessage)]
  BY DEF LoadHistory, ChatInv, ChatTypeOK
<1>3. s \in Session /\ turns[t].on = {s}
  BY <1>1, <1>2, TurnIsOnOne
<1> DEFINE new == [turns[t] EXCEPT !.pc = "user", !.sent = LastOf(messages[s], Window)]
<1>4. turns' = [turns EXCEPT ![t] = new]
  BY <1>1 DEF MessagesOf
<1>5. LastOf(messages[s], Window) \in Seq(ChatMessage)
  <2>1. messages[s] \in Seq(ChatMessage)
    BY <1>2, <1>3
  <2> QED
    BY ONLY <2>1, WindowIsPositive, LastOfSeq
<1>6. /\ new \in ChatTurn /\ new.on = {s} /\ new.pc = "user"
      /\ new.count = turns[t].count /\ new.sent = LastOf(messages[s], Window)
  BY <1>2, <1>3, <1>5 DEF ChatTurn, TurnPcs
<1> HIDE DEF new
<1>7. /\ ~Saving(t) /\ turns[t].pc \notin {"idle", "over"} /\ turns[t].pc \in {"open", "history"}
      /\ new.pc \in {"history", "user", "assistant", "over"}
  BY <1>2, <1>6 DEF Saving
<1>8. UNCHANGED <<sessions, messages, deleters, halfDeleted, crossed>> /\ disordered' = disordered
  BY DEF LoadHistory, OnlyTurns
<1> QED
  BY ONLY ChatInv, <1>2, <1>3, <1>4, <1>6, <1>7, <1>8, NextQuiet

LEMMA NextStreamAnswer == ASSUME ChatInv, NEW t \in Turn, StreamAnswer(t) PROVE ChatInv'
<1>1. PICK pc \in {"assistant", "over"} :
         turns' = [turns EXCEPT ![t].pc = pc, ![t].sent = <<>>,
                                ![t].count = IF pc = "over" THEN 0 ELSE @]
  BY DEF StreamAnswer
<1>2. turns[t].pc = "stream" /\ disordered \subseteq Session /\ turns[t] \in ChatTurn
  BY DEF StreamAnswer, ChatInv, ChatTypeOK
<1>3. PICK s \in Session : turns[t].on = {s}
  BY <1>2, TurnIsOnOne
<1> DEFINE c == IF pc = "over" THEN 0 ELSE turns[t].count
           new == [turns[t] EXCEPT !.pc = pc, !.sent = <<>>, !.count = c]
<1>4. turns' = [turns EXCEPT ![t] = new]
  BY <1>1
<1>c. c \in Nat /\ (pc # "over" => c = turns[t].count)
  BY <1>2 DEF ChatTurn
<1>d. pc \in TurnPcs /\ <<>> \in Seq(ChatMessage)
  BY DEF TurnPcs
<1> HIDE DEF c
<1>5. /\ new \in ChatTurn /\ new.on = {s} /\ new.pc = pc
      /\ pc # "over" => new.count = turns[t].count
  BY <1>2, <1>3, <1>c, <1>d DEF ChatTurn
<1> HIDE DEF new
<1>6. /\ ~Saving(t) /\ turns[t].pc \notin {"idle", "over"}
      /\ new.pc \in {"assistant", "over"} /\ new.pc # "over" => new.count = turns[t].count
  BY <1>2, <1>5 DEF Saving
<1>7. UNCHANGED <<sessions, messages, deleters, halfDeleted, crossed>> /\ disordered' = disordered
  BY DEF StreamAnswer, OnlyTurns
<1> QED
  BY ONLY ChatInv, <1>2, <1>3, <1>4, <1>5, <1>6, <1>7, NextQuiet

LEMMA NextCutTurn == ASSUME ChatInv, NEW t \in Turn, CutTurn(t) PROVE ChatInv'
<1>1. /\ Turned(t, "over") /\ ChatTypeOK /\ "over" \in TurnPcs
      /\ turns[t].pc \notin {"idle", "over"} /\ disordered \subseteq Session
  BY DEF CutTurn, ChatInv, ChatTypeOK, TurnPcs
<1>2. PICK new \in ChatTurn : turns' = [turns EXCEPT ![t] = new] /\ new.on = turns[t].on /\ new.pc = "over"
  BY <1>1, TurnedTo
<1>3. PICK s \in Session : turns[t].on = {s}
  BY <1>1, TurnIsOnOne
<1>4. new.on = {s} /\ new.pc \in {"over"}
  BY <1>2, <1>3
<1>5. /\ UNCHANGED <<sessions, messages, deleters, halfDeleted, crossed>>
      /\ disordered' = IF Saving(t) THEN disordered \cup turns[t].on ELSE disordered
  BY DEF CutTurn, OnlyTurns, Saving
<1>6. disordered \subseteq disordered' /\ disordered' \subseteq Session /\ (Saving(t) => s \in disordered')
  BY <1>1, <1>3, <1>5
<1> QED
  BY ONLY ChatInv, <1>1, <1>2, <1>3, <1>4, <1>5, <1>6, NextQuiet

\* A turn stores a message and has yet to count it.
LEMMA NextInsert ==
  ASSUME ChatInv, NEW t \in Turn, NEW s \in Session, NEW new \in ChatTurn, NEW m \in ChatMessage,
         turns' = [turns EXCEPT ![t] = new], turns[t].on = {s}, new.on = {s}, m.turn = t,
         messages' = [messages EXCEPT ![s] = Append(@, m)],
         \/ turns[t].pc = "user" /\ new.pc = "count_user" /\ new.sent = Append(turns[t].sent, m)
         \/ turns[t].pc = "assistant" /\ new.pc = "count_assistant",
         new.count = turns[t].count,
         UNCHANGED <<sessions, deleters, halfDeleted, crossed, disordered>>
  PROVE  ChatInv'
<1>a. ChatTypeOK /\ new.pc # "idle" /\ new.pc # "over" /\ turns[t].pc \notin {"idle", "over"}
  BY DEF ChatInv
<1>1. /\ messages[s] \in Seq(ChatMessage) /\ messages'[s] = Append(messages[s], m)
      /\ \A x \in Session \ {s} : messages'[x] = messages[x]
  BY DEF ChatInv, ChatTypeOK
<1>b. /\ turns'[t] = new
      /\ \A u \in Turn \ {t} : turns'[u] = turns[u]
      /\ new.pc = "over" => TurnsOn(s)' = TurnsOn(s) \ {t}
      /\ new.pc # "over" => TurnsOn(s)' = TurnsOn(s) \cup {t}
  BY ONLY <1>a, turns' = [turns EXCEPT ![t] = new], new.on = {s}, new \in ChatTurn, NextTurnsOn
<1>2. /\ turns'[t] = new
      /\ \A u \in Turn \ {t} : turns'[u] = turns[u]
      /\ TurnsOn(s)' = TurnsOn(s) \cup {t}
  BY <1>a, <1>b
<1>3. t \in TurnsOn(s) /\ DeletersOn(s)' = DeletersOn(s) /\ TurnsOn(s)' = TurnsOn(s)
  BY <1>a, <1>2 DEF TurnsOn, DeletersOn
<1>4. ~Saving(t) /\ Saving(t)' /\ \A u \in TurnsOn(s) \ {t} : turns'[u] = turns[u] /\ (Saving(u)' <=> Saving(u))
  BY <1>2 DEF Saving, TurnsOn
<1>5. /\ Len(messages'[s]) = Len(messages[s]) + 1
      /\ Len(messages[s]) \in Nat
      /\ messages'[s][Len(messages[s]) + 1] = m
      /\ \A i \in 1..Len(messages[s]) : messages'[s][i] = messages[s][i]
      /\ DOMAIN messages'[s] = 1..(Len(messages[s]) + 1) /\ DOMAIN messages[s] = 1..Len(messages[s])
  BY ONLY <1>1, m \in ChatMessage
<1>6. ASSUME s \notin crossed' PROVE Stays(s)'
  <2>1. Stays(s)
    BY <1>6 DEF ChatInv
  <2>2. sessions[s].stored /\ DeletersOn(s) = {}
    BY <2>1, <1>3 DEF Stays
  <2>3. \A d \in Deleter : s \in deleters[d].on => deleters[d].pc # "session"
    BY <2>2 DEF DeletersOn
  <2> QED
    BY <2>1, <2>2, <2>3, <1>3 DEF Stays
<1>7. ASSUME s \notin halfDeleted PROVE Counted(s)'
  <2>1. Counted(s) /\ sessions[s].count \in Nat /\ turns \in [Turn -> ChatTurn]
    BY <1>7 DEF ChatInv, ChatTypeOK
  <2>2. (sessions[s].count <= Len(messages[s]))'
    BY <2>1, <1>5 DEF Counted
  <2>3. ASSUME NEW u \in TurnsOn(s)'
        PROVE  /\ turns'[u].count <= Len(messages'[s])
               /\ Saving(u)' => turns'[u].count + 1 <= Len(messages'[s])
    <3>1. /\ u \in TurnsOn(s) /\ turns'[u].count = turns[u].count /\ turns[u].count \in Nat
          /\ turns[u].count <= Len(messages[s])
      BY <2>1, <1>2, <1>3 DEF Counted, TurnsOn, ChatTurn
    <3> QED
      BY <3>1, <1>5
  <2> QED
    BY <2>2, <2>3 DEF Counted
<1>8. ASSUME s \notin disordered' PROVE InTurn(s)'
  BY <1>8, <1>3 DEF InTurn, ChatInv
<1>9. ASSUME s \notin disordered' \cup halfDeleted PROVE InOrder(s)'
  <2>1. InOrder(s) /\ InTurn(s)
    BY <1>9 DEF ChatInv
  <2>2. TurnsOn(s) = {t}
    BY <2>1, <1>3 DEF InTurn
  <2>3. /\ Len(messages[s]) = sessions[s].count /\ turns[t].count = sessions[s].count
        /\ turns[t].pc = "user" => turns[t].sent = LastOf(messages[s], Window)
    BY <2>1, <2>2, <1>4 DEF InOrder
  <2>4. /\ new.count = sessions'[s].count /\ Len(messages'[s]) = sessions'[s].count + 1
        /\ new.pc \notin {"user", "stream"}
    BY <2>3, <1>5
  <2>5. new.pc = "count_user" => new.sent = LastOf(messages'[s], Window + 1)
    <3>1. Append(LastOf(messages[s], Window), m) = LastOf(Append(messages[s], m), Window + 1)
      BY ONLY <1>1, m \in ChatMessage, WindowIsPositive, LastOfAppend
    <3> QED
      BY <3>1, <2>3, <1>1
  <2>6. turns'[t] = new /\ TurnsOn(s)' = {t} /\ Saving(t)'
    BY <1>2, <1>3, <1>4, <2>2
  <2> QED
    BY ONLY <2>4, <2>5, <2>6 DEF InOrder
<1>10. new.pc \in {"count_user", "stream"} =>
         \A i \in DOMAIN new.sent : new.sent[i].turn = t <=> i = Len(new.sent)
  <2> SUFFICES ASSUME new.pc = "count_user", NEW i \in DOMAIN new.sent
               PROVE  new.sent[i].turn = t <=> i = Len(new.sent)
    OBVIOUS
  <2>1. /\ turns[t].sent \in Seq(ChatMessage) /\ new.sent = Append(turns[t].sent, m)
        /\ \A j \in DOMAIN turns[t].sent : turns[t].sent[j].turn # t
    BY DEF ChatInv, ChatTypeOK, ChatTurn, Prompted
  <2>2. /\ Len(new.sent) = Len(turns[t].sent) + 1 /\ DOMAIN new.sent = 1..(Len(turns[t].sent) + 1)
        /\ new.sent[Len(new.sent)] = m /\ Len(turns[t].sent) \in Nat
        /\ \A j \in 1..Len(turns[t].sent) : new.sent[j] = turns[t].sent[j] /\ j \in DOMAIN turns[t].sent
    BY ONLY <2>1, m \in ChatMessage
  <2>3. CASE i = Len(new.sent)
    BY <2>2, <2>3
  <2>4. CASE i \in 1..Len(turns[t].sent)
    BY <2>1, <2>2, <2>4
  <2> QED
    BY <2>2, <2>3, <2>4
<1>11. /\ sessions' \in [Session -> [stored : BOOLEAN, count : Nat]]
       /\ disordered' \subseteq Session
       /\ crossed' \subseteq halfDeleted
       /\ sessions'[s].stored \/ sessions'[s].count = 0
  BY DEF ChatInv, ChatTypeOK
<1>12. messages' \in [Session -> Seq(ChatMessage)]
  <2>1. messages \in [Session -> Seq(ChatMessage)] /\ Append(messages[s], m) \in Seq(ChatMessage)
    BY <1>a, <1>1 DEF ChatTypeOK
  <2> QED
    BY <2>1
<1>15. new.pc = "user" => \A i \in DOMAIN new.sent : new.sent[i].turn # t
  OBVIOUS
<1>13. \A i \in DOMAIN messages'[s] :
         messages'[s][i].turn # t => \E j \in DOMAIN messages[s] : messages'[s][i] = messages[s][j]
  BY <1>5
<1>14. /\ new.pc \in {"open", "history", "user"} =>
            turns[t].pc \in {"idle", "open", "history", "user"} /\ messages' = messages
       /\ turns[t].on \in {{}, {s}}
       /\ deleters' = deleters /\ halfDeleted' = halfDeleted
       /\ \A x \in Session \ {s} : sessions'[x] = sessions[x] /\ messages'[x] = messages[x]
       /\ crossed \subseteq crossed' /\ disordered \subseteq disordered'
  BY <1>1
<1> QED
  BY ONLY ChatInv, turns' = [turns EXCEPT ![t] = new], new.on = {s}, new \in ChatTurn, <1>a, <1>6, <1>7,
          <1>8, <1>9, <1>10, <1>11, <1>12, <1>13, <1>14, <1>15, NextTurn

LEMMA NextInsertUser == ASSUME ChatInv, NEW t \in Turn, InsertUser(t) PROVE ChatInv'
<1>1. PICK s \in turns[t].on :
         /\ messages' = [messages EXCEPT ![s] = Append(@, ChatMsg(s, t, "user"))]
         /\ turns' = [turns EXCEPT ![t].pc = "count_user",
                                   ![t].sent = Append(@, ChatMsg(s, t, "user"))]
  BY DEF InsertUser
<1>2. turns[t].pc = "user" /\ turns[t] \in ChatTurn
  BY DEF InsertUser, ChatInv, ChatTypeOK
<1>3. s \in Session /\ turns[t].on = {s}
  BY <1>1, <1>2, TurnIsOnOne
<1> DEFINE m == ChatMsg(s, t, "user")
           sent == Append(turns[t].sent, m)
           new == [turns[t] EXCEPT !.pc = "count_user", !.sent = sent]
<1>4. turns' = [turns EXCEPT ![t] = new] /\ messages' = [messages EXCEPT ![s] = Append(@, m)]
  BY <1>1
<1>5. m \in ChatMessage /\ m.turn = t
  BY <1>3 DEF ChatMsg, ChatMessage
<1> HIDE DEF m
<1>6. turns[t].sent \in Seq(ChatMessage)
  BY <1>2 DEF ChatTurn
<1>7. sent \in Seq(ChatMessage) /\ "count_user" \in TurnPcs
  BY <1>5, <1>6 DEF TurnPcs
<1> HIDE DEF sent
<1>8. /\ new \in ChatTurn /\ new.on = {s} /\ new.pc = "count_user"
      /\ new.count = turns[t].count /\ new.sent = sent
  BY <1>2, <1>3, <1>7 DEF ChatTurn
<1>9. UNCHANGED <<sessions, deleters, halfDeleted, crossed, disordered>>
  BY DEF InsertUser, OnlyTurns
<1> HIDE DEF new
<1>10. \/ turns[t].pc = "user" /\ new.pc = "count_user" /\ new.sent = Append(turns[t].sent, m)
       \/ turns[t].pc = "assistant" /\ new.pc = "count_assistant"
  BY <1>2, <1>8 DEF sent
<1> QED
  BY ONLY ChatInv, <1>3, <1>4, <1>5, <1>8, <1>9, <1>10, NextInsert

LEMMA NextInsertAssistant == ASSUME ChatInv, NEW t \in Turn, InsertAssistant(t) PROVE ChatInv'
<1>1. PICK s \in turns[t].on : messages' = [messages EXCEPT ![s] = Append(@, ChatMsg(s, t, "assistant"))]
  BY DEF InsertAssistant
<1>2. /\ turns[t].pc = "assistant" /\ turns[t] \in ChatTurn /\ ChatTypeOK
      /\ "count_assistant" \in TurnPcs /\ Turned(t, "count_assistant")
  BY DEF InsertAssistant, ChatInv, ChatTypeOK, TurnPcs
<1>3. s \in Session /\ turns[t].on = {s}
  BY <1>1, <1>2, TurnIsOnOne
<1>4. PICK new \in ChatTurn : /\ turns' = [turns EXCEPT ![t] = new]
                              /\ new.on = turns[t].on /\ new.pc = "count_assistant"
                              /\ new.count = turns[t].count
  BY <1>2, TurnedTo
<1> DEFINE m == ChatMsg(s, t, "assistant")
<1>5. m \in ChatMessage /\ m.turn = t /\ messages' = [messages EXCEPT ![s] = Append(@, m)]
  BY <1>1, <1>3 DEF ChatMsg, ChatMessage
<1> HIDE DEF m
<1>6. UNCHANGED <<sessions, deleters, halfDeleted, crossed, disordered>>
  BY DEF InsertAssistant, OnlyTurns
<1>7. new.on = {s}
  BY <1>3, <1>4
<1>8. \/ turns[t].pc = "user" /\ new.pc = "count_user" /\ new.sent = Append(turns[t].sent, m)
      \/ turns[t].pc = "assistant" /\ new.pc = "count_assistant"
  BY <1>2, <1>4
<1> QED
  BY ONLY ChatInv, <1>3, <1>4, <1>5, <1>6, <1>7, <1>8, NextInsert

LEMMA NextSaveCount ==
  ASSUME ChatInv, NEW t \in Turn, NEW next \in {"stream", "over"}, Saving(t), SaveCount(t, next),
         next = "stream" => turns[t].pc = "count_user"
  PROVE  ChatInv'
<1>a. /\ ChatTypeOK /\ turns \in [Turn -> ChatTurn] /\ turns[t] \in ChatTurn
      /\ turns[t].pc \notin {"idle", "over", "open", "history", "user", "stream"}
  BY DEF ChatInv, ChatTypeOK, Saving
<1>b. PICK s \in Session : turns[t].on = {s}
  BY <1>a, TurnIsOnOne
<1> DEFINE c == IF next = "over" THEN 0 ELSE turns[t].count + 1
           q == IF next = "over" THEN <<>> ELSE turns[t].sent
           new == [turns[t] EXCEPT !.pc = next, !.count = c, !.sent = q]
<1>c. turns' = [turns EXCEPT ![t] = new]
  BY DEF SaveCount
<1>d. /\ c \in Nat /\ q \in Seq(ChatMessage) /\ next \in TurnPcs /\ turns[t].count \in Nat
      /\ next = "stream" => c = turns[t].count + 1 /\ q = turns[t].sent
  <2>1. turns[t].count \in Nat /\ turns[t].sent \in Seq(ChatMessage)
    BY <1>a DEF ChatTurn
  <2>2. c \in Nat
    BY <2>1
  <2>3. q \in Seq(ChatMessage)
    BY <2>1
  <2> QED
    BY <2>1, <2>2, <2>3 DEF TurnPcs
<1> HIDE DEF c, q
<1>e. new \in ChatTurn /\ new.on = {s} /\ new.pc = next /\ new.count = c /\ new.sent = q
  BY <1>a, <1>b, <1>d DEF ChatTurn
<1> HIDE DEF new
<1>f. /\ sessions'[s].stored = TRUE /\ sessions'[s].count = turns[t].count + 1
      /\ \A x \in Session \ {s} : sessions'[x] = sessions[x]
      /\ sessions' \in [Session -> [stored : BOOLEAN, count : Nat]]
  <2>1. /\ sessions' = [x \in Session |-> IF x = s THEN [stored |-> TRUE, count |-> turns[t].count + 1]
                                          ELSE sessions[x]]
        /\ sessions \in [Session -> [stored : BOOLEAN, count : Nat]]
    BY <1>b DEF SaveCount, ChatInv, ChatTypeOK
  <2> QED
    BY ONLY <2>1, <1>d, s \in Session
<1>g. /\ deleters' = deleters /\ halfDeleted' = halfDeleted /\ messages' = messages
      /\ crossed' = crossed /\ disordered' = disordered
  BY DEF SaveCount, OnlyTurns
<1>h. new.pc # "idle"
  BY <1>e
<1>1. /\ turns'[t] = new
      /\ \A u \in Turn \ {t} : turns'[u] = turns[u]
      /\ new.pc = "over" => TurnsOn(s)' = TurnsOn(s) \ {t}
      /\ new.pc # "over" => TurnsOn(s)' = TurnsOn(s) \cup {t}
  BY ONLY <1>a, <1>c, <1>e, <1>h, NextTurnsOn
<1>2. t \in TurnsOn(s) /\ DeletersOn(s)' = DeletersOn(s)
  BY <1>a, <1>b, <1>g DEF TurnsOn, DeletersOn
<1>3. TurnsOn(s)' \subseteq TurnsOn(s)
  BY <1>1, <1>2, new.pc = "over" \/ new.pc # "over"
<1>4. ~Saving(t)' /\ \A u \in TurnsOn(s) \ {t} : turns'[u] = turns[u] /\ (Saving(u)' <=> Saving(u))
  BY <1>1, <1>e DEF Saving, TurnsOn
<1>5. ASSUME s \notin crossed' PROVE Stays(s)'
  <2>1. Stays(s)
    BY <1>5, <1>g DEF ChatInv
  <2>2. sessions[s].stored /\ DeletersOn(s) = {}
    BY <2>1, <1>2 DEF Stays
  <2>3. \A d \in Deleter : s \in deleters[d].on => deleters[d].pc # "done"
    BY <2>1, <2>2 DEF Stays
  <2> QED
    BY <2>1, <2>2, <2>3, <1>2, <1>f, <1>g DEF Stays
<1>6. ASSUME s \notin halfDeleted PROVE Counted(s)'
  <2>1. Counted(s)
    BY <1>6 DEF ChatInv
  <2>2. turns[t].count + 1 <= Len(messages[s])
    BY <2>1, <1>2 DEF Counted
  <2>3. (sessions[s].count <= Len(messages[s]))'
    BY <2>2, <1>f, <1>g
  <2>4. ASSUME NEW u \in TurnsOn(s)'
        PROVE  /\ turns'[u].count <= Len(messages'[s])
               /\ Saving(u)' => turns'[u].count + 1 <= Len(messages'[s])
    <3>1. u \in TurnsOn(s)
      BY <1>3
    <3>2. CASE u = t
      <4>1. new.pc = "stream"
        BY <3>2, <1>1, <1>e, new.pc = "over" \/ new.pc # "over"
      <4>2. turns'[u].count = turns[t].count + 1 /\ ~Saving(u)'
        BY <3>2, <4>1, <1>1, <1>d, <1>e, <1>4
      <4> QED
        BY <4>2, <2>2, <1>g
    <3>3. CASE u # t
      BY <3>1, <3>3, <2>1, <1>4, <1>g DEF Counted
    <3> QED
      BY <3>2, <3>3
  <2> QED
    BY <2>3, <2>4 DEF Counted
<1>7. ASSUME s \notin disordered' PROVE InTurn(s)'
  BY <1>7, <1>3, <1>g DEF InTurn, ChatInv
<1>8. ASSUME s \notin disordered' \cup halfDeleted PROVE InOrder(s)'
  <2>1. InOrder(s) /\ InTurn(s)
    BY <1>8, <1>g DEF ChatInv
  <2>2. TurnsOn(s) = {t}
    BY <2>1, <1>2 DEF InTurn
  <2>3. /\ Len(messages'[s]) = sessions'[s].count
        /\ next = "stream" => turns[t].sent = LastOf(messages'[s], Window + 1)
    <3>1. /\ turns[t].count = sessions[s].count
          /\ Len(messages[s]) = sessions[s].count + 1
          /\ turns[t].pc = "count_user" => turns[t].sent = LastOf(messages[s], Window + 1)
      BY <2>1, <1>2 DEF InOrder
    <3> QED
      BY <3>1, <1>f, <1>g
  <2>4. ASSUME NEW u \in TurnsOn(s)'
        PROVE  /\ turns'[u].count = sessions'[s].count
               /\ ~Saving(u)'
               /\ turns'[u].pc # "user"
               /\ turns'[u].pc \in {"count_user", "stream"} =>
                    turns'[u].sent = LastOf(messages'[s], Window + 1)
    <3>1. u = t /\ new.pc = "stream"
      BY <2>2, <1>1, <1>3, <1>e
    <3> QED
      BY <3>1, <2>3, <1>1, <1>4, <1>d, <1>e, <1>f
  <2> QED
    BY <2>3, <2>4 DEF InOrder
<1>9. new.pc \in {"count_user", "stream"} =>
        \A i \in DOMAIN new.sent : new.sent[i].turn = t <=> i = Len(new.sent)
  <2> SUFFICES ASSUME new.pc = "stream"
               PROVE  \A i \in DOMAIN new.sent : new.sent[i].turn = t <=> i = Len(new.sent)
    BY <1>e
  <2>1. turns[t].pc = "count_user" /\ new.sent = turns[t].sent
    BY <1>d, <1>e
  <2> QED
    BY <2>1 DEF ChatInv, Prompted
<1>10. /\ messages' \in [Session -> Seq(ChatMessage)]
       /\ disordered \subseteq disordered' /\ disordered' \subseteq Session
       /\ crossed \subseteq crossed' /\ crossed' \subseteq halfDeleted
       /\ \A x \in Session \ {s} : sessions'[x] = sessions[x] /\ messages'[x] = messages[x]
  BY <1>f, <1>g DEF ChatInv, ChatTypeOK
<1>11. /\ new.pc \in {"open", "history", "user"} =>
            turns[t].pc \in {"idle", "open", "history", "user"} /\ messages' = messages
       /\ turns[t].on \in {{}, {s}}
       /\ new.pc = "user" => \A i \in DOMAIN new.sent : new.sent[i].turn # t
       /\ sessions'[s].stored \/ sessions'[s].count = 0
  BY <1>b, <1>e, <1>f
<1>12. \A i \in DOMAIN messages'[s] :
         messages'[s][i].turn # t => \E j \in DOMAIN messages[s] : messages'[s][i] = messages[s][j]
  BY <1>g
<1> QED
  BY ONLY ChatInv, <1>c, <1>e, <1>h, <1>f, <1>g, <1>5, <1>6, <1>7, <1>8, <1>9, <1>10, <1>11, <1>12, NextTurn

LEMMA NextCountUser == ASSUME ChatInv, NEW t \in Turn, CountUser(t) PROVE ChatInv'
BY NextSaveCount DEF CountUser, Saving

LEMMA NextCountAssistant == ASSUME ChatInv, NEW t \in Turn, CountAssistant(t) PROVE ChatInv'
BY NextSaveCount DEF CountAssistant, Saving

\* A step of deletion d of session s.
LEMMA NextDeleter ==
  ASSUME ChatInv, NEW d \in Deleter, NEW s \in Session,
         NEW pc \in {"messages", "session", "done", "cut"},
         deleters' = [deleters EXCEPT ![d] = [pc |-> pc, on |-> {s}]], deleters[d].on \in {{}, {s}},
         turns' = turns, disordered' = disordered, halfDeleted' = halfDeleted \cup {s},
         crossed \subseteq crossed', crossed' \subseteq halfDeleted',
         sessions' \in [Session -> [stored : BOOLEAN, count : Nat]], messages' \in [Session -> Seq(ChatMessage)],
         sessions'[s] = sessions[s] \/ sessions'[s] = Unsaved,
         messages'[s] = messages[s] \/ messages'[s] = <<>>,
         \A x \in Session \ {s} : sessions'[x] = sessions[x] /\ messages'[x] = messages[x],
         s \notin crossed' => Stays(s)'
  PROVE  ChatInv'
<1> DEFINE new == [pc |-> pc, on |-> {s}]
<1>a. new \in [pc : {"idle", "messages", "session", "done", "cut"}, on : SUBSET Session] /\ new.pc = pc /\ new.on = {s}
  OBVIOUS
<1> HIDE DEF new
<1>b. deleters' = [deleters EXCEPT ![d] = new] /\ ChatTypeOK
  BY DEF new, ChatInv
<1>1. deleters'[d] = new /\ \A e \in Deleter \ {d} : deleters'[e] = deleters[e]
  BY <1>b DEF ChatTypeOK
<1>2. ChatTypeOK'
  <2>1. deleters' \in [Deleter -> [pc : {"idle", "messages", "session", "done", "cut"}, on : SUBSET Session]]
    BY <1>a, <1>b DEF ChatTypeOK
  <2>2. crossed' \subseteq Session /\ halfDeleted' \subseteq Session
    BY <1>b DEF ChatTypeOK
  <2> QED
    BY <1>b, <2>1, <2>2 DEF ChatTypeOK
<1>3. OnOne'
  <2>0. OnOne
    BY DEF ChatInv
  <2>1. ASSUME NEW e \in Deleter
        PROVE  /\ deleters'[e].pc = "idle" => deleters'[e].on = {}
               /\ deleters'[e].pc # "idle" => \E x \in halfDeleted' : deleters'[e].on = {x}
    <3>1. CASE e = d
      BY ONLY <3>1, <1>1, <1>a, halfDeleted' = halfDeleted \cup {s}
    <3>2. CASE e # d
      BY ONLY <3>2, <1>1, <2>0, halfDeleted' = halfDeleted \cup {s}, e \in Deleter DEF OnOne
    <3> QED
      BY <3>1, <3>2
  <2>2. \A t \in Turn : /\ turns'[t].pc = "idle" => turns'[t].on = {}
                        /\ turns'[t].pc # "idle" => \E x \in Session : turns'[t].on = {x}
    BY <2>0 DEF OnOne
  <2> QED
    BY <2>1, <2>2 DEF OnOne
<1>4. NotYetSaid'
  <2> SUFFICES ASSUME NEW u \in Turn, turns'[u].pc \in {"idle", "open", "history", "user"},
                      NEW x \in Session, NEW i \in DOMAIN messages'[x]
               PROVE  messages'[x][i].turn # u
    BY DEF NotYetSaid
  <2>1. messages'[x] = messages[x]
    <3>1. messages'[x] # <<>>
      OBVIOUS
    <3> QED
      BY <3>1
  <2> QED
    BY <2>1 DEF ChatInv, NotYetSaid
<1>5. Prompted'
  BY DEF ChatInv, Prompted
<1>6. \A x \in Session : sessions'[x].stored \/ sessions'[x].count = 0
  <2> TAKE x \in Session
  <2>1. sessions'[x] = sessions[x] \/ sessions'[x] = Unsaved
    OBVIOUS
  <2> QED
    BY <2>1 DEF ChatInv, Unsaved
<1>7. ASSUME NEW x \in Session \ crossed' PROVE Stays(x)'
  <2>1. CASE x = s
    BY <2>1
  <2>2. CASE x # s
    <3>1. Stays(x) /\ TurnsOn(x)' = TurnsOn(x) /\ sessions'[x] = sessions[x] /\ messages'[x] = messages[x]
      BY <2>2 DEF ChatInv, TurnsOn
    <3>2. x \notin deleters'[d].on /\ x \notin deleters[d].on
      BY <2>2, <1>1, <1>a
    <3>3. DeletersOn(x)' = DeletersOn(x)
      BY <3>2, <1>1 DEF DeletersOn
    <3> QED
      BY ONLY <3>1, <3>2, <3>3, <1>1 DEF Stays
  <2> QED
    BY <2>1, <2>2
<1>8. ASSUME NEW x \in Session \ halfDeleted'
      PROVE  Counted(x)' /\ (x \notin disordered' => InOrder(x)')
  <2>1. x # s /\ sessions'[x] = sessions[x] /\ messages'[x] = messages[x] /\ TurnsOn(x)' = TurnsOn(x)
    BY DEF TurnsOn
  <2>2. Counted(x) /\ (x \notin disordered' => InOrder(x))
    BY DEF ChatInv
  <2> QED
    BY ONLY <2>1, <2>2, turns' = turns DEF Counted, InOrder, Saving
<1>9. \A x \in Session \ disordered' : InTurn(x)'
  BY DEF ChatInv, InTurn, TurnsOn
<1> QED
  BY <1>2, <1>3, <1>4, <1>5, <1>6, <1>7, <1>8, <1>9 DEF ChatInv

\* The session of a deletion that has begun.
LEMMA DeleterIsOnOne ==
  ASSUME ChatInv, NEW d \in Deleter, deleters[d].pc # "idle"
  PROVE  \E s \in Session : s \in halfDeleted /\ deleters[d].on = {s}
BY DEF ChatInv, OnOne, ChatTypeOK

\* How a deletion moves on.
LEMMA DeletingOn ==
  ASSUME ChatTypeOK, NEW d \in Deleter, NEW pc, Deleting(d, pc)
  PROVE  deleters' = [deleters EXCEPT ![d] = [pc |-> pc, on |-> deleters[d].on]]
<1>1. deleters[d] \in [pc : {"idle", "messages", "session", "done", "cut"}, on : SUBSET Session]
  BY DEF ChatTypeOK
<1>2. [deleters[d] EXCEPT !.pc = pc] = [pc |-> pc, on |-> deleters[d].on]
  BY <1>1
<1>3. deleters' = [deleters EXCEPT ![d] = [deleters[d] EXCEPT !.pc = pc]]
  BY DEF Deleting
<1> QED
  BY <1>2, <1>3

LEMMA NextStartDelete ==
  ASSUME ChatInv, NEW d \in Deleter, NEW s \in Session, StartDelete(d, s)
  PROVE  ChatInv'
<1>1. /\ deleters' = [deleters EXCEPT ![d] = [pc |-> "messages", on |-> {s}]]
      /\ halfDeleted' = halfDeleted \cup {s}
      /\ crossed' = IF TurnsOn(s) # {} THEN crossed \cup {s} ELSE crossed
      /\ sessions' = sessions /\ messages' = messages /\ turns' = turns /\ disordered' = disordered
      /\ sessions[s].stored
  BY DEF StartDelete
<1>2. deleters[d].on \in {{}, {s}}
  BY DEF StartDelete, ChatInv, OnOne
<1>3. /\ sessions' \in [Session -> [stored : BOOLEAN, count : Nat]]
      /\ messages' \in [Session -> Seq(ChatMessage)]
      /\ crossed \subseteq crossed' /\ crossed' \subseteq halfDeleted'
  BY <1>1 DEF ChatInv, ChatTypeOK
<1>4. ASSUME s \notin crossed' PROVE Stays(s)'
  <2>1. Stays(s) /\ TurnsOn(s) = {} /\ TurnsOn(s)' = {}
    BY <1>1, <1>4 DEF ChatInv, TurnsOn
  <2>2. \A e \in Deleter : s \in deleters'[e].on =>
          /\ deleters'[e].pc = "session" => s \in deleters[e].on /\ deleters[e].pc = "session"
          /\ deleters'[e].pc = "done" => s \in deleters[e].on /\ deleters[e].pc = "done"
    BY <1>1 DEF ChatInv, ChatTypeOK
  <2> QED
    BY <2>1, <2>2, <1>1 DEF Stays
<1> QED
  BY ONLY ChatInv, <1>1, <1>2, <1>3, <1>4, NextDeleter

LEMMA NextDeleteMessages == ASSUME ChatInv, NEW d \in Deleter, DeleteMessages(d) PROVE ChatInv'
<1>1. PICK s \in Session : s \in halfDeleted /\ deleters[d].on = {s}
  BY DeleterIsOnOne DEF DeleteMessages
<1>2. /\ deleters' = [deleters EXCEPT ![d] = [pc |-> "session", on |-> {s}]]
      /\ messages' = [x \in Session |-> IF x = s THEN <<>> ELSE messages[x]]
      /\ deleters[d].pc = "messages"
      /\ halfDeleted' = halfDeleted \cup {s} /\ crossed' = crossed
      /\ sessions' = sessions /\ turns' = turns /\ disordered' = disordered
  BY <1>1, DeletingOn DEF DeleteMessages, ChatInv
<1>3. /\ sessions' \in [Session -> [stored : BOOLEAN, count : Nat]]
      /\ crossed \subseteq crossed' /\ crossed' \subseteq halfDeleted'
  BY <1>2 DEF ChatInv, ChatTypeOK
<1>4. messages' \in [Session -> Seq(ChatMessage)]
  <2>1. messages \in [Session -> Seq(ChatMessage)] /\ <<>> \in Seq(ChatMessage)
    BY DEF ChatInv, ChatTypeOK
  <2> QED
    BY <1>2, <2>1
<1>5. messages'[s] = <<>> /\ \A x \in Session \ {s} : sessions'[x] = sessions[x] /\ messages'[x] = messages[x]
  BY <1>2
<1>6. ASSUME s \notin crossed' PROVE Stays(s)'
  <2>1. Stays(s) /\ d \in DeletersOn(s)
    BY <1>1, <1>2, <1>6 DEF ChatInv, DeletersOn
  <2>2. TurnsOn(s)' = {}
    BY <2>1, <1>2 DEF Stays, TurnsOn
  <2>3. \A e \in Deleter : deleters'[e].pc = "done" => deleters'[e] = deleters[e]
    BY <1>2 DEF ChatInv, ChatTypeOK
  <2> QED
    BY <2>1, <2>2, <2>3, <1>2, <1>5 DEF Stays
<1>7. deleters[d].on \in {{}, {s}} /\ "session" \in {"messages", "session", "done", "cut"}
  BY <1>1
<1> QED
  BY ONLY ChatInv, <1>2, <1>3, <1>4, <1>5, <1>6, <1>7, NextDeleter

LEMMA NextDeleteSession == ASSUME ChatInv, NEW d \in Deleter, DeleteSession(d) PROVE ChatInv'
<1>1. PICK s \in Session : s \in halfDeleted /\ deleters[d].on = {s}
  BY DeleterIsOnOne DEF DeleteSession
<1>2. /\ deleters' = [deleters EXCEPT ![d] = [pc |-> "done", on |-> {s}]]
      /\ sessions' = [x \in Session |-> IF x = s THEN Unsaved ELSE sessions[x]]
      /\ deleters[d].pc = "session"
      /\ halfDeleted' = halfDeleted \cup {s} /\ crossed' = crossed
      /\ messages' = messages /\ turns' = turns /\ disordered' = disordered
  BY <1>1, DeletingOn DEF DeleteSession, ChatInv
<1>3. /\ messages' \in [Session -> Seq(ChatMessage)]
      /\ crossed \subseteq crossed' /\ crossed' \subseteq halfDeleted'
  BY <1>2 DEF ChatInv, ChatTypeOK
<1>4. sessions' \in [Session -> [stored : BOOLEAN, count : Nat]]
  <2>1. sessions \in [Session -> [stored : BOOLEAN, count : Nat]] /\ Unsaved \in [stored : BOOLEAN, count : Nat]
    BY DEF ChatInv, ChatTypeOK, Unsaved
  <2> QED
    BY <1>2, <2>1
<1>5. sessions'[s] = Unsaved /\ \A x \in Session \ {s} : sessions'[x] = sessions[x] /\ messages'[x] = messages[x]
  BY <1>2
<1>6. ASSUME s \notin crossed' PROVE Stays(s)'
  <2>1. Stays(s) /\ d \in DeletersOn(s)
    BY <1>1, <1>2, <1>6 DEF ChatInv, DeletersOn
  <2>2. TurnsOn(s)' = {} /\ messages'[s] = <<>>
    BY <2>1, <1>1, <1>2 DEF Stays, TurnsOn
  <2> QED
    BY <2>2, <1>5 DEF Stays, Unsaved
<1>7. deleters[d].on \in {{}, {s}} /\ "done" \in {"messages", "session", "done", "cut"}
  BY <1>1
<1> QED
  BY ONLY ChatInv, <1>2, <1>3, <1>4, <1>5, <1>6, <1>7, NextDeleter

LEMMA NextCutDelete == ASSUME ChatInv, NEW d \in Deleter, CutDelete(d) PROVE ChatInv'
<1>1. PICK s \in Session : s \in halfDeleted /\ deleters[d].on = {s}
  BY DeleterIsOnOne DEF CutDelete
<1>2. /\ deleters' = [deleters EXCEPT ![d] = [pc |-> "cut", on |-> {s}]]
      /\ halfDeleted' = halfDeleted \cup {s} /\ crossed' = crossed
      /\ messages' = messages /\ sessions' = sessions /\ turns' = turns /\ disordered' = disordered
  BY <1>1, DeletingOn DEF CutDelete, ChatInv
<1>3. /\ messages' \in [Session -> Seq(ChatMessage)]
      /\ sessions' \in [Session -> [stored : BOOLEAN, count : Nat]]
      /\ crossed \subseteq crossed' /\ crossed' \subseteq halfDeleted'
      /\ \A x \in Session \ {s} : sessions'[x] = sessions[x] /\ messages'[x] = messages[x]
      /\ \A e \in Deleter \ {d} : deleters'[e] = deleters[e]
      /\ deleters'[d].pc = "cut" /\ deleters'[d].on = deleters[d].on
  BY <1>1, <1>2 DEF ChatInv, ChatTypeOK
<1>4. ASSUME s \notin crossed' PROVE Stays(s)'
  <2>1. Stays(s) /\ TurnsOn(s)' = TurnsOn(s)
    BY <1>2, <1>4 DEF ChatInv, TurnsOn
  <2>2. DeletersOn(s)' \subseteq DeletersOn(s)
    BY <1>3 DEF DeletersOn
  <2>3. \A e \in Deleter : deleters'[e].pc \in {"session", "done"} => deleters'[e] = deleters[e]
    BY <1>3
  <2> QED
    BY <2>1, <2>2, <2>3, <1>2 DEF Stays
<1>5. deleters[d].on \in {{}, {s}} /\ "cut" \in {"messages", "session", "done", "cut"}
  BY <1>1
<1> QED
  BY ONLY ChatInv, <1>2, <1>3, <1>4, <1>5, NextDeleter

LEMMA NextChat == ChatInv /\ [ChatNext]_chatVars => ChatInv'
<1> SUFFICES ASSUME ChatInv, [ChatNext]_chatVars PROVE ChatInv'
  OBVIOUS
<1>1. ASSUME NEW t \in Turn, NEW s \in Session, StartTurn(t, s) PROVE ChatInv'
  BY <1>1, NextStartTurn
<1>2. ASSUME NEW t \in Turn,
             \/ OpenTurn(t) \/ LoadHistory(t) \/ InsertUser(t) \/ CountUser(t)
             \/ StreamAnswer(t) \/ InsertAssistant(t) \/ CountAssistant(t) \/ CutTurn(t)
      PROVE  ChatInv'
  BY <1>2, NextOpenTurn, NextLoadHistory, NextInsertUser, NextCountUser, NextStreamAnswer,
     NextInsertAssistant, NextCountAssistant, NextCutTurn
<1>3. ASSUME NEW d \in Deleter, NEW s \in Session, StartDelete(d, s) PROVE ChatInv'
  BY <1>3, NextStartDelete
<1>4. ASSUME NEW d \in Deleter, DeleteMessages(d) \/ DeleteSession(d) \/ CutDelete(d) PROVE ChatInv'
  BY <1>4, NextDeleteMessages, NextDeleteSession, NextCutDelete
<1>5. CASE UNCHANGED chatVars
  <2> USE <1>5 DEF chatVars
  <2>1. \A s \in Session : TurnsOn(s)' = TurnsOn(s) /\ DeletersOn(s)' = DeletersOn(s)
    BY DEF TurnsOn, DeletersOn
  <2>2. ChatTypeOK'
    BY DEF ChatInv, ChatTypeOK
  <2>4. OnOne' /\ NotYetSaid'
    BY DEF ChatInv, OnOne, NotYetSaid
  <2>5. Prompted'
    BY DEF ChatInv, Prompted
  <2>3. ASSUME NEW s \in Session
        PROVE  /\ Stays(s) => Stays(s)'
               /\ Counted(s) => Counted(s)'
               /\ InTurn(s) => InTurn(s)'
               /\ InOrder(s) => InOrder(s)'
    BY <2>1 DEF Stays, Counted, InTurn, InOrder, Saving
  <2> QED
    BY <2>2, <2>3, <2>4, <2>5 DEF ChatInv
<1> QED
  BY <1>1, <1>2, <1>3, <1>4, <1>5 DEF ChatNext

\* The count of the stored messages.
LEMMA ChatCountIsHonest == ChatInv => CountIsHonest
<1> SUFFICES ASSUME ChatInv, NEW s \in Session, sessions[s].stored, s \notin halfDeleted
             PROVE  /\ sessions[s].count <= Len(MessagesOf(s))
                    /\ s \notin disordered =>
                         Len(MessagesOf(s)) = sessions[s].count
                           + Cardinality({t \in TurnsOn(s) : turns[t].pc \in {"count_user", "count_assistant"}})
  BY DEF CountIsHonest
<1>1. sessions[s].count <= Len(MessagesOf(s))
  BY DEF ChatInv, Counted, MessagesOf
<1>2. ASSUME s \notin disordered
      PROVE  Len(MessagesOf(s)) = sessions[s].count
               + Cardinality({t \in TurnsOn(s) : turns[t].pc \in {"count_user", "count_assistant"}})
  <2> DEFINE S == {t \in TurnsOn(s) : turns[t].pc \in {"count_user", "count_assistant"}}
  <2>1. InOrder(s) /\ InTurn(s) /\ sessions[s].count \in Nat
    BY <1>2 DEF ChatInv, ChatTypeOK
  <2>2. CASE S = {}
    <3>1. Len(messages[s]) = sessions[s].count
      BY <2>1, <2>2 DEF InOrder, Saving
    <3>2. Cardinality(S) = 0
      BY <2>2, FS_EmptySet
    <3> QED
      BY <3>1, <3>2, <2>1 DEF MessagesOf
  <2>3. CASE S # {}
    <3>1. PICK t \in TurnsOn(s) : turns[t].pc \in {"count_user", "count_assistant"}
      BY <2>3
    <3>2. S = {t}
      BY <3>1, <2>1 DEF InTurn
    <3>3. Cardinality(S) = 1
      BY <3>2, FS_Singleton
    <3>4. Len(messages[s]) = sessions[s].count + 1
      BY <3>1, <2>1 DEF InOrder, Saving
    <3> QED
      BY <3>3, <3>4 DEF MessagesOf
  <2> QED
    BY <2>2, <2>3
<1> QED
  BY <1>1, <1>2

LEMMA ChatPrompt == ChatInv => PromptIsTheConversation
<1> SUFFICES ASSUME ChatInv, NEW t \in Turn, turns[t].pc = "stream", NEW s \in turns[t].on
             PROVE  /\ \A i \in DOMAIN turns[t].sent : turns[t].sent[i].turn = t <=> i = Len(turns[t].sent)
                    /\ s \notin disordered \cup halfDeleted =>
                         turns[t].sent = LastOf(MessagesOf(s), Window + 1)
  BY DEF PromptIsTheConversation
<1>1. \A i \in DOMAIN turns[t].sent : turns[t].sent[i].turn = t <=> i = Len(turns[t].sent)
  BY DEF ChatInv, Prompted
<1>2. s \in Session /\ t \in TurnsOn(s)
  BY TurnIsOnOne DEF TurnsOn
<1>3. s \notin disordered \cup halfDeleted => turns[t].sent = LastOf(MessagesOf(s), Window + 1)
  BY <1>2 DEF ChatInv, InOrder, MessagesOf
<1> QED
  BY <1>1, <1>3

LEMMA ChatDeletion == ChatInv => DeletionLeavesNothing
BY DEF ChatInv, Stays, DeletionLeavesNothing, MessagesOf

\* Until a deletion a session never counts more messages than there are, and
\* counts them exactly if turns follow one another, for any number of turns.
THEOREM CountsAreHonest == ChatSpec => []CountIsHonest
<1> QED
  BY InitChat, NextChat, ChatCountIsHonest, PTL DEF ChatSpec

\* What the model is sent ends with this turn's message and is, if no other turn
\* overlaps, the end of the stored conversation, for any window of it.
THEOREM PromptsAreTheConversation == ChatSpec => []PromptIsTheConversation
<1> QED
  BY InitChat, NextChat, ChatPrompt, PTL DEF ChatSpec

\* A session whose deletion no turn overlapped leaves no messages, and is not
\* stored again, wherever a deletion is cut.
THEOREM DeletionsLeaveNothing == ChatSpec => []DeletionLeavesNothing
<1> QED
  BY InitChat, NextChat, ChatDeletion, PTL DEF ChatSpec

-----------------------------------------------------------------------------
(* CustomTools *)

ToolOp == [pc : ToolPcs, id : ToolId \cup {NoTool}, held : Tool \cup {NoTool}, name : OptName,
           source : OptSource, schema : {"given", NoTool}, env : EnvConfig,
           left : SUBSET TokenName, got : [TokenName -> TokenValue \cup {Absence}],
           process : {"none", "running", "killed", "ended"}]

ToolOpsTyped ==
  /\ toolDb \in {"mongo", "postgres"}
  /\ tools \in [ToolId -> Tool \cup {NoTool, GoneTool}]
  /\ tokens \in [TokenName -> TokenValue \cup {Absence}]
  /\ toolOps \in [ToolActor -> ToolOp]
  /\ rewritten \in [ToolActor -> SUBSET TokenName]

\* What a request or a loader has read and is going to write, changed, is a tool,
\* and one that is whole, unless with MongoDB it was torn when it was read; a
\* loader has found it under the name of its plugin.
HeldToWrite(op, db) ==
  op.pc \in {"update", "mapping", "switch", "load"} =>
    /\ op.pc = "load" => op.name \in PluginName
    /\ ~(op.pc = "load" /\ op.id = NoTool) =>
         /\ op.held \in Tool
         /\ db = "postgres" => Whole(op.held)
         /\ op.pc = "load" => op.held.name = op.name

\* What a call has got for the references that it has looked up: what is stored
\* now, or was before a token was rewritten; all that it needs, in the end.
LookedUp(op, stored, again) ==
  op.pc \in {"fetch", "spawn"} =>
    /\ \A t \in References(op.env) \ op.left :
         /\ op.got[t] \in Secrets \cup {"quoting", Absence}
         /\ t \notin again => op.got[t] = stored[t]
    /\ op.pc = "spawn" => op.left = {} /\ \A t \in References(op.env) : op.got[t] \in Secrets

ToolInv ==
  /\ ToolOpsTyped
  /\ \A k \in ToolActor :
       HeldToWrite(toolOps[k], toolDb) /\ LookedUp(toolOps[k], tokens, rewritten[k])
  /\ toolDb = "postgres" => torn = {}
  /\ ToolsAreWhole

LEMMA NoOpIsTyped == NoOp \in ToolOp /\ [NoOp EXCEPT !.pc = "done"] \in ToolOp
  BY SMT DEF NoOp, ToolOp, ToolPcs, OptName, OptSource, EnvConfig

LEMMA InitTool == ToolsInit => ToolInv
<1> SUFFICES ASSUME ToolsInit PROVE ToolInv OBVIOUS
<1>1. PICK i \in ToolId, doc \in InitialTools \cup {NoTool} :
        tools = [j \in ToolId |-> IF j = i THEN doc ELSE NoTool]
  BY DEF ToolsInit
<1>2. doc \in Tool \cup {NoTool}
  BY InitialToolsAreWhole
<1>3. tools \in [ToolId -> Tool \cup {NoTool, GoneTool}]
  BY <1>1, <1>2
<1>4. tokens \in [TokenName -> TokenValue \cup {Absence}]
  BY DEF ToolsInit, TokenValue, Secrets
<1>5. /\ toolOps \in [ToolActor -> ToolOp] /\ rewritten \in [ToolActor -> SUBSET TokenName]
      /\ toolDb \in {"mongo", "postgres"} /\ torn = {}
  BY NoOpIsTyped DEF ToolsInit
<1>6. ASSUME NEW k \in ToolActor PROVE HeldToWrite(toolOps[k], toolDb) /\ LookedUp(toolOps[k], tokens, rewritten[k])
  <2>1. toolOps[k].pc = "free"
    BY DEF ToolsInit, NoOp
  <2> QED
    BY <2>1 DEF HeldToWrite, LookedUp
<1>7. ASSUME NEW j \in Stored \ torn PROVE Whole(tools[j])
  BY <1>1, InitialToolsAreWhole DEF Stored
<1> QED
  BY <1>3, <1>4, <1>5, <1>6, <1>7 DEF ToolInv, ToolOpsTyped, ToolsAreWhole

\* A step that reads, or that ends an operation: what is stored stays.
LEMMA NextHeld ==
  ASSUME ToolInv, NEW k \in ToolActor, NEW op \in ToolOp, HeldToWrite(op, toolDb),
         LookedUp(op, tokens, rewritten[k]), toolOps' = [toolOps EXCEPT ![k] = op], OnlyOps
  PROVE  ToolInv'
<1>1. ToolOpsTyped'
  BY DEF ToolInv, ToolOpsTyped, OnlyOps
<1>2. ASSUME NEW j \in ToolActor
      PROVE  HeldToWrite(toolOps'[j], toolDb') /\ LookedUp(toolOps'[j], tokens', rewritten'[j])
  <2>1. /\ toolDb' = toolDb /\ tokens' = tokens /\ rewritten' = rewritten
        /\ toolOps'[j] = (IF j = k THEN op ELSE toolOps[j])
    BY DEF ToolInv, ToolOpsTyped, OnlyOps
  <2>2. HeldToWrite(toolOps[j], toolDb) /\ LookedUp(toolOps[j], tokens, rewritten[j])
    BY DEF ToolInv
  <2> QED
    BY <2>1, <2>2
<1>3. ToolsAreWhole' /\ (toolDb' = "postgres" => torn' = {})
  BY DEF ToolInv, ToolsAreWhole, Stored, OnlyOps
<1> QED
  BY <1>1, <1>2, <1>3 DEF ToolInv

\* A step that writes a tool and ends its operation.
LEMMA NextStored ==
  ASSUME ToolInv, NEW k \in ToolActor, NEW i, NEW doc \in Tool \cup {GoneTool},
         Put(i, doc), EndOp(k), OnlyTools,
         \A j \in ToolId : j # i /\ j \in torn => j \in torn',
         doc # GoneTool => Whole(doc) \/ i \in torn',
         toolDb = "postgres" => torn' = {}
  PROVE  ToolInv'
<1>1. /\ tools' = [tools EXCEPT ![i] = doc] /\ toolDb' = toolDb /\ tokens' = tokens
      /\ rewritten' = rewritten /\ toolOps' = [toolOps EXCEPT ![k] = [NoOp EXCEPT !.pc = "done"]]
  BY DEF Put, EndOp, OnlyTools
<1>2. ToolOpsTyped'
  <2>1. tools' \in [ToolId -> Tool \cup {NoTool, GoneTool}]
    BY <1>1 DEF ToolInv, ToolOpsTyped
  <2>2. toolOps' \in [ToolActor -> ToolOp]
    BY <1>1, NoOpIsTyped DEF ToolInv, ToolOpsTyped
  <2> QED
    BY <1>1, <2>1, <2>2 DEF ToolInv, ToolOpsTyped
<1>3. ASSUME NEW j \in ToolActor
      PROVE  HeldToWrite(toolOps'[j], toolDb') /\ LookedUp(toolOps'[j], tokens', rewritten'[j])
  <2>1. CASE j = k
    <3>1. toolOps'[j] = [NoOp EXCEPT !.pc = "done"]
      BY <1>1, <2>1 DEF ToolInv, ToolOpsTyped
    <3>2. toolOps'[j].pc = "done"
      BY <3>1 DEF NoOp
    <3> QED
      BY <3>2 DEF HeldToWrite, LookedUp
  <2>2. CASE j # k
    <3>1. toolOps'[j] = toolOps[j]
      BY <1>1, <2>2 DEF ToolInv, ToolOpsTyped
    <3> QED
      BY <3>1, <1>1 DEF ToolInv
  <2> QED
    BY <2>1, <2>2
<1>4. ASSUME NEW j \in Stored' \ torn' PROVE Whole(tools'[j])
  <2>1. j \in ToolId /\ tools'[j] \notin {NoTool, GoneTool} /\ j \notin torn'
    BY DEF Stored
  <2>2. CASE j = i
    <3>1. tools'[j] = doc
      BY <1>1, <2>1, <2>2 DEF ToolInv, ToolOpsTyped
    <3> QED
      BY <3>1, <2>1, <2>2
  <2>3. CASE j # i
    <3>1. tools'[j] = tools[j]
      BY <1>1, <2>1, <2>3 DEF ToolInv, ToolOpsTyped
    <3>2. j \in Stored \ torn
      BY <3>1, <2>1, <2>3 DEF Stored
    <3> QED
      BY <3>1, <3>2 DEF ToolInv, ToolsAreWhole
  <2> QED
    BY <2>2, <2>3
<1>5. ToolsAreWhole'
  BY <1>4 DEF ToolsAreWhole
<1> QED
  BY <1>1, <1>2, <1>3, <1>5 DEF ToolInv

LEMMA NextReadTool ==
  ASSUME ToolInv, NEW k \in ToolActor, NEW op \in ToolOp, op.pc \in {"update", "mapping", "switch"},
         op.id \in Stored, op.held = tools[op.id],
         toolOps' = [toolOps EXCEPT ![k] = op], OnlyOps
  PROVE  ToolInv'
<1>1. op.held \in Tool
  BY DEF ToolInv, ToolOpsTyped, Stored
<1>2. toolDb = "postgres" => Whole(op.held)
  BY DEF ToolInv, ToolsAreWhole
<1>3. HeldToWrite(op, toolDb)
  BY <1>1, <1>2 DEF HeldToWrite
<1>4. LookedUp(op, tokens, rewritten[k])
  BY DEF LookedUp
<1> QED
  BY <1>3, <1>4, NextHeld

LEMMA NextCreate ==
  ASSUME ToolInv, NEW k \in ToolActor, NEW i \in ToolId, NEW n \in ToolName, NEW s \in ToolSource,
         NEW c \in ToolSource \cup {"given", "empty"}, NEW e \in Mappings, CreateTool(k, i, n, s, c, e)
  PROVE  ToolInv'
<1> DEFINE doc == [name |-> n, source |-> s, schema |-> c, env |-> e,
                   plugin |-> FALSE, enabled |-> TRUE]
<1>1. doc \in Tool
  BY MappingsAreEnvironments DEF Tool
<1>2. Whole(doc)
  BY DEF Whole, CreateTool
<1>3. Put(i, doc) /\ EndOp(k) /\ OnlyTools /\ torn' = torn
  BY DEF CreateTool
<1> HIDE DEF doc
<1> QED
  BY <1>1, <1>2, <1>3, NextStored DEF ToolInv

LEMMA UpdatedIsWhole ==
  ASSUME NEW op \in ToolOp, NEW doc \in Tool, NEW inferred, op.held = doc, Validates(op),
         inferred \in Inferred(Given(op.source, op.held.source))
  PROVE  Whole(doc) => Whole(Updated(op, doc, inferred))
<1>1. /\ Updated(op, doc, inferred).name = Given(op.name, doc.name)
      /\ Updated(op, doc, inferred).source = Given(op.source, doc.source)
      /\ Updated(op, doc, inferred).schema =
           IF op.schema # NoTool THEN op.schema
           ELSE IF op.source # NoTool \/ op.name # NoTool THEN inferred ELSE doc.schema
  BY DEF Updated, Tool
<1>2. op.schema # NoTool => op.schema = "given"
  BY DEF ToolOp
<1>3. CASE op.source # NoTool \/ op.name # NoTool
  BY <1>1, <1>2, <1>3 DEF Whole, Validates, Inferred
<1>4. CASE ~(op.source # NoTool \/ op.name # NoTool)
  BY <1>1, <1>2, <1>4 DEF Whole, Given
<1> QED
  BY <1>3, <1>4

LEMMA UpdatedIsTyped ==
  ASSUME NEW op \in ToolOp, NEW doc \in Tool, NEW inferred, op.held \in Tool,
         inferred \in Inferred(Given(op.source, op.held.source))
  PROVE  Updated(op, doc, inferred) \in Tool
<1>1. Given(op.name, doc.name) \in ToolName
  BY DEF Given, Tool, ToolOp, OptName
<1>2. Given(op.source, doc.source) \in ToolSource /\ Given(op.source, op.held.source) \in ToolSource
  BY DEF Given, Tool, ToolOp, OptSource
<1>3. inferred \in ToolSource \cup {"given", "empty"}
  BY <1>2 DEF Inferred
<1>4. op.schema # NoTool => op.schema = "given"
  BY DEF ToolOp
<1> QED
  BY <1>1, <1>2, <1>3, <1>4 DEF Updated, Tool

LEMMA NextSetTool == ASSUME ToolInv, NEW k \in ToolActor, SetTool(k) PROVE ToolInv'
<1> DEFINE op == toolOps[k]
<1>1. op \in ToolOp /\ op.pc = "update" /\ Validates(op) /\ EndOp(k) /\ OnlyTools
  BY DEF SetTool, Doing, ToolInv, ToolOpsTyped
<1>2. op.held \in Tool /\ (toolDb = "postgres" => Whole(op.held))
  BY <1>1 DEF ToolInv, HeldToWrite
<1>3. PICK inferred \in Inferred(Given(op.source, op.held.source)) :
        IF toolDb = "mongo"
        THEN /\ op.id \in Stored /\ Put(op.id, Updated(op, tools[op.id], inferred))
             /\ torn' = IF tools[op.id] = op.held THEN torn ELSE torn \cup {op.id}
        ELSE Put(op.id, Updated(op, op.held, inferred)) /\ UNCHANGED torn
  BY DEF SetTool
<1> HIDE DEF op
<1>4. CASE toolDb = "mongo"
  <2> DEFINE doc == tools[op.id]
             new == Updated(op, doc, inferred)
  <2>1. /\ op.id \in Stored /\ Put(op.id, new)
        /\ torn' = IF doc = op.held THEN torn ELSE torn \cup {op.id}
    BY <1>3, <1>4
  <2>2. doc \in Tool
    BY <2>1 DEF ToolInv, ToolOpsTyped, Stored
  <2>3. op.id \notin torn => Whole(doc)
    BY <2>1 DEF ToolInv, ToolsAreWhole
  <2>4. new \in Tool
    BY <1>1, <1>2, <2>2, UpdatedIsTyped
  <2>5. op.id \notin torn' => doc = op.held /\ op.id \notin torn
    BY <2>1
  <2>6. op.id \notin torn' => Whole(new)
    BY <1>1, <2>2, <2>3, <2>5, UpdatedIsWhole
  <2>7. \A j \in ToolId : j \in torn => j \in torn'
    BY <2>1
  <2> HIDE DEF new
  <2> QED
    BY <1>1, <1>4, <2>1, <2>4, <2>6, <2>7, NextStored
<1>5. CASE toolDb = "postgres"
  <2> DEFINE new == Updated(op, op.held, inferred)
  <2>1. Put(op.id, new) /\ torn' = torn
    BY <1>3, <1>5
  <2>2. new \in Tool
    BY <1>1, <1>2, UpdatedIsTyped
  <2>3. Whole(new)
    BY <1>1, <1>2, <1>5, UpdatedIsWhole
  <2> HIDE DEF new
  <2> QED
    BY <1>1, <2>1, <2>2, <2>3, NextStored DEF ToolInv
<1> QED
  BY <1>4, <1>5 DEF ToolInv, ToolOpsTyped

\* A document saved is torn only if it was torn when it was read.
LEMMA NextSaveWhole ==
  ASSUME ToolInv, NEW k \in ToolActor, NEW doc \in Tool, SaveWhole(k, doc),
         Whole(toolOps[k].held) => Whole(doc),
         toolDb = "postgres" => Whole(toolOps[k].held)
  PROVE  ToolInv'
<1> DEFINE i == toolOps[k].id
<1>1. /\ Put(i, doc) /\ EndOp(k) /\ OnlyTools
      /\ torn' = IF Whole(doc) THEN torn \ {i} ELSE IF Whole(toolOps[k].held) THEN torn ELSE torn \cup {i}
  BY DEF SaveWhole
<1>2. Whole(doc) \/ i \in torn'
  BY <1>1
<1>3. \A j \in ToolId : j # i /\ j \in torn => j \in torn'
  BY <1>1
<1>4. toolDb = "postgres" => torn' = {}
  BY <1>1 DEF ToolInv
<1> HIDE DEF i
<1> QED
  BY <1>1, <1>2, <1>3, <1>4, NextStored

LEMMA PluginIsWhole ==
  ASSUME NEW p \in PluginName, NEW doc \in Tool, doc.name = p
  PROVE  PluginOver(p, doc) \in Tool /\ Whole(PluginOver(p, doc))
<1>1. PluginSource[p] \in ToolSource /\ Defines[PluginSource[p]] = p
  BY PluginsDefineThemselves
<1>2. PluginOver(p, doc) \in Tool
  BY <1>1 DEF Tool, PluginOver, EnvConfig
<1>3. /\ PluginOver(p, doc).source = PluginSource[p] /\ PluginOver(p, doc).name = p
      /\ PluginOver(p, doc).schema = PluginSource[p]
  BY DEF PluginOver, Tool
<1> QED
  BY <1>1, <1>2, <1>3 DEF Whole, Inferred

LEMMA NextSaves ==
  ASSUME ToolInv, NEW k \in ToolActor, SaveMapping(k) \/ LoadOver(k) \/ SwitchOff(k)
  PROVE  ToolInv'
<1> DEFINE op == toolOps[k]
<1>1. op \in ToolOp /\ HeldToWrite(op, toolDb)
  BY DEF ToolInv, ToolOpsTyped
<1>2. CASE SaveMapping(k)
  <2> DEFINE doc == [op.held EXCEPT !.env = op.env]
  <2>1. op.pc = "mapping" /\ SaveWhole(k, doc)
    BY <1>2 DEF SaveMapping, Doing
  <2>2. op.held \in Tool /\ (toolDb = "postgres" => Whole(op.held))
    BY <1>1, <2>1 DEF HeldToWrite
  <2>3. doc \in Tool
    BY <1>1, <2>2 DEF Tool, ToolOp
  <2>4. Whole(op.held) => Whole(doc)
    BY <2>2 DEF Whole, Tool
  <2> HIDE DEF doc
  <2> QED
    BY <2>1, <2>2, <2>3, <2>4, NextSaveWhole
<1>3. CASE LoadOver(k)
  <2> DEFINE doc == PluginOver(op.name, op.held)
  <2>1. op.pc = "load" /\ op.id # NoTool /\ SaveWhole(k, doc)
    BY <1>3 DEF LoadOver, Doing
  <2>2. op.held \in Tool /\ (toolDb = "postgres" => Whole(op.held)) /\ op.held.name = op.name
        /\ op.name \in PluginName
    BY <1>1, <2>1 DEF HeldToWrite
  <2>4. doc \in Tool /\ Whole(doc)
    BY <2>2, PluginIsWhole
  <2> HIDE DEF doc
  <2> QED
    BY <2>1, <2>2, <2>4, NextSaveWhole
<1>4. CASE SwitchOff(k)
  <2> DEFINE doc == [op.held EXCEPT !.enabled = FALSE]
  <2>1. op.pc = "switch" /\ SaveWhole(k, doc)
    BY <1>4 DEF SwitchOff, Doing
  <2>2. op.held \in Tool /\ (toolDb = "postgres" => Whole(op.held))
    BY <1>1, <2>1 DEF HeldToWrite
  <2>3. doc \in Tool
    BY <2>2 DEF Tool
  <2>4. Whole(op.held) => Whole(doc)
    BY <2>2 DEF Whole, Tool
  <2> HIDE DEF doc
  <2> QED
    BY <2>1, <2>2, <2>3, <2>4, NextSaveWhole
<1> QED
  BY <1>2, <1>3, <1>4

LEMMA NextLoadNew == ASSUME ToolInv, NEW k \in ToolActor, NEW i \in ToolId, LoadNew(k, i) PROVE ToolInv'
<1> DEFINE p == toolOps[k].name
           old == [name |-> p, source |-> PluginSource[p], schema |-> "empty",
                   env |-> NoOp.env, plugin |-> TRUE, enabled |-> TRUE]
           doc == PluginOver(p, old)
<1>1. /\ toolOps[k].pc = "load" /\ Put(i, doc) /\ EndOp(k) /\ OnlyTools /\ torn' = torn
  BY DEF LoadNew, Doing
<1>2. p \in PluginName
  BY <1>1 DEF ToolInv, HeldToWrite
<1>3. PluginSource[p] \in ToolSource /\ Defines[PluginSource[p]] = p /\ p \in ToolName
  BY <1>2, PluginsDefineThemselves
<1>4. NoOp.env \in EnvConfig
  BY DEF NoOp, EnvConfig
<1>5. old \in Tool /\ old.name = p
  BY <1>3, <1>4 DEF Tool
<1> HIDE DEF old
<1>6. doc \in Tool /\ Whole(doc)
  BY <1>2, <1>5, PluginIsWhole
<1> HIDE DEF doc
<1> QED
  BY <1>1, <1>6, NextStored DEF ToolInv

LEMMA NextReads ==
  ASSUME ToolInv, NEW k \in ToolActor, NEW i \in ToolId,
         \/ \E n \in OptName, s \in OptSource, c \in {"given", NoTool} : ReadToUpdate(k, i, n, s, c)
         \/ \E e \in Mappings : ReadToMap(k, i, e)
         \/ FindToSwitchOff(k, i)
  PROVE  ToolInv'
<1>1. ASSUME NEW n \in OptName, NEW s \in OptSource, NEW c \in {"given", NoTool}, ReadToUpdate(k, i, n, s, c)
      PROVE  ToolInv'
  <2> DEFINE op == [NoOp EXCEPT !.pc = "update", !.id = i, !.held = tools[i],
                                !.name = n, !.source = s, !.schema = c]
  <2>1. i \in Stored /\ toolOps' = [toolOps EXCEPT ![k] = op] /\ OnlyOps
    BY <1>1 DEF ReadToUpdate
  <2>2. tools[i] \in Tool
    BY <2>1 DEF ToolInv, ToolOpsTyped, Stored
  <2>3. op \in ToolOp
    BY <2>2 DEF NoOp, ToolOp, ToolPcs, EnvConfig
  <2>4. op.pc = "update" /\ op.id = i /\ op.held = tools[i]
    BY DEF NoOp
  <2> HIDE DEF op
  <2> QED
    BY <2>1, <2>3, <2>4, NextReadTool
<1>2. ASSUME NEW e \in Mappings, ReadToMap(k, i, e) PROVE ToolInv'
  <2> DEFINE op == [NoOp EXCEPT !.pc = "mapping", !.id = i, !.held = tools[i], !.env = e]
  <2>1. i \in Stored /\ toolOps' = [toolOps EXCEPT ![k] = op] /\ OnlyOps
    BY <1>2 DEF ReadToMap
  <2>2. tools[i] \in Tool
    BY <2>1 DEF ToolInv, ToolOpsTyped, Stored
  <2>3. op \in ToolOp
    BY <2>2, MappingsAreEnvironments DEF NoOp, ToolOp, ToolPcs, OptName, OptSource
  <2>4. op.pc = "mapping" /\ op.id = i /\ op.held = tools[i]
    BY DEF NoOp
  <2> HIDE DEF op
  <2> QED
    BY <2>1, <2>3, <2>4, NextReadTool
<1>3. CASE FindToSwitchOff(k, i)
  <2> DEFINE op == [NoOp EXCEPT !.pc = "switch", !.id = i, !.held = tools[i]]
  <2>1. i \in Stored /\ toolOps' = [toolOps EXCEPT ![k] = op] /\ OnlyOps
    BY <1>3 DEF FindToSwitchOff
  <2>2. tools[i] \in Tool
    BY <2>1 DEF ToolInv, ToolOpsTyped, Stored
  <2>3. op \in ToolOp
    BY <2>2 DEF NoOp, ToolOp, ToolPcs, OptName, OptSource, EnvConfig
  <2>4. op.pc = "switch" /\ op.id = i /\ op.held = tools[i]
    BY DEF NoOp
  <2> HIDE DEF op
  <2> QED
    BY <2>1, <2>3, <2>4, NextReadTool
<1> QED
  BY <1>1, <1>2, <1>3

LEMMA NextFindToLoad ==
  ASSUME ToolInv, NEW k \in ToolActor, NEW p \in PluginName, NEW i \in ToolId \cup {NoTool}, FindToLoad(k, p, i)
  PROVE  ToolInv'
<1> DEFINE named == {j \in Stored : tools[j].name = p}
           held == IF i = NoTool THEN NoTool ELSE tools[i]
           op == [NoOp EXCEPT !.pc = "load", !.id = i, !.name = p, !.held = held]
<1>1. /\ IF named = {} THEN i = NoTool ELSE i \in named
      /\ toolOps' = [toolOps EXCEPT ![k] = op] /\ OnlyOps
  BY DEF FindToLoad
<1>2. ASSUME i # NoTool PROVE i \in Stored /\ tools[i].name = p /\ held = tools[i]
  BY <1>1, <1>2
<1>3. i # NoTool => tools[i] \in Tool /\ (toolDb = "postgres" => Whole(tools[i]))
  BY <1>2 DEF ToolInv, ToolOpsTyped, Stored, ToolsAreWhole
<1>4. held \in Tool \cup {NoTool}
  BY <1>3
<1>5. p \in ToolName
  BY PluginsDefineThemselves
<1> HIDE DEF held
<1>6. op \in ToolOp
  BY <1>4, <1>5 DEF NoOp, ToolOp, ToolPcs, OptName, OptSource, EnvConfig
<1>7. op.pc = "load" /\ op.id = i /\ op.held = held /\ op.name = p
  BY DEF NoOp
<1> HIDE DEF op
<1>8. HeldToWrite(op, toolDb)
  BY <1>2, <1>3, <1>7 DEF HeldToWrite
<1>9. LookedUp(op, tokens, rewritten[k])
  BY <1>7 DEF LookedUp
<1> QED
  BY <1>1, <1>6, <1>8, <1>9, NextHeld
LEMMA NextDelete == ASSUME ToolInv, NEW k \in ToolActor, NEW i \in ToolId, DeleteTool(k, i) PROVE ToolInv'
<1>1. Put(i, GoneTool) /\ EndOp(k) /\ OnlyTools /\ torn' = torn
  BY DEF DeleteTool
<1> QED
  BY <1>1, NextStored DEF ToolInv

\* A step of a call, or one that ends an operation, has nothing to write.
LEMMA NextFree ==
  ASSUME ToolInv, NEW k \in ToolActor, NEW op \in ToolOp, op.pc \in {"fetch", "spawn", "wait", "done"},
         LookedUp(op, tokens, rewritten[k]), toolOps' = [toolOps EXCEPT ![k] = op], OnlyOps
  PROVE  ToolInv'
<1>1. HeldToWrite(op, toolDb)
  BY DEF HeldToWrite
<1> QED
  BY <1>1, NextHeld

LEMMA NextEnds == ASSUME ToolInv, NEW k \in ToolActor, EndOp(k), OnlyOps PROVE ToolInv'
<1> DEFINE op == [NoOp EXCEPT !.pc = "done"]
<1>1. op.pc = "done"
  BY DEF NoOp
<1>2. op \in ToolOp /\ toolOps' = [toolOps EXCEPT ![k] = op]
  BY NoOpIsTyped DEF EndOp
<1> HIDE DEF op
<1>3. LookedUp(op, tokens, rewritten[k])
  BY <1>1 DEF LookedUp
<1> QED
  BY <1>1, <1>2, <1>3, NextFree

LEMMA NextToolStart ==
  ASSUME ToolInv, NEW k \in ToolActor, NEW i \in ToolId,
         StartTestRun(k, i) \/ \E over \in Overrides : StartCall(k, i, over)
  PROVE  ToolInv'
<1>1. CASE StartTestRun(k, i)
  <2> DEFINE op == [NoOp EXCEPT !.pc = "spawn", !.held = tools[i]]
  <2>1. i \in Stored /\ toolOps' = [toolOps EXCEPT ![k] = op] /\ OnlyOps
    BY <1>1 DEF StartTestRun
  <2>2. tools[i] \in Tool
    BY <2>1 DEF ToolInv, ToolOpsTyped, Stored
  <2>3. op \in ToolOp
    BY <2>2, NoOpIsTyped DEF NoOp, ToolOp, ToolPcs
  <2>4. op.pc = "spawn" /\ op.env = NoOp.env /\ op.left = {}
    BY DEF NoOp
  <2>5. References(op.env) = {}
    BY <2>4 DEF References, NoOp
  <2> HIDE DEF op
  <2>6. LookedUp(op, tokens, rewritten[k])
    BY <2>4, <2>5 DEF LookedUp
  <2> QED
    BY <2>1, <2>3, <2>4, <2>6, NextFree
<1>2. ASSUME NEW over \in Overrides, StartCall(k, i, over) PROVE ToolInv'
  <2> DEFINE env == [v \in EnvVar |-> IF v \in DOMAIN over THEN over[v] ELSE tools[i].env[v]]
             op == [NoOp EXCEPT !.pc = "fetch", !.held = tools[i], !.env = env, !.left = References(env)]
  <2>1. i \in Stored /\ toolOps' = [toolOps EXCEPT ![k] = op] /\ OnlyOps
    BY <1>2 DEF StartCall
  <2>2. tools[i] \in Tool
    BY <2>1 DEF ToolInv, ToolOpsTyped, Stored
  <2>3. env \in EnvConfig
    BY <2>2, OverridesAreTokens DEF Tool, EnvConfig
  <2> HIDE DEF env
  <2>4. References(env) \subseteq TokenName
    BY <2>3 DEF References, EnvConfig
  <2>5. op \in ToolOp
    BY <2>2, <2>3, <2>4, NoOpIsTyped DEF NoOp, ToolOp, ToolPcs
  <2>6. op.pc = "fetch" /\ op.env = env /\ op.left = References(env)
    BY DEF NoOp
  <2> HIDE DEF op
  <2>7. LookedUp(op, tokens, rewritten[k])
    BY <2>6 DEF LookedUp
  <2> QED
    BY <2>1, <2>5, <2>6, <2>7, NextFree
<1> QED
  BY <1>1, <1>2

LEMMA NextFetch == ASSUME ToolInv, NEW k \in ToolActor, NEW t \in TokenName, FetchToken(k, t) PROVE ToolInv'
<1> DEFINE was == toolOps[k]
<1>1. was \in ToolOp /\ was.pc = "fetch" /\ t \in was.left /\ OnlyOps /\ LookedUp(was, tokens, rewritten[k])
  BY DEF FetchToken, Doing, ToolInv, ToolOpsTyped
<1>2. CASE tokens[t] = "undecryptable"
  BY <1>2, NextEnds DEF FetchToken
<1>3. CASE tokens[t] # "undecryptable"
  <2> DEFINE got == [was.got EXCEPT ![t] = tokens[t]]
             op == [was EXCEPT !.left = @ \ {t}, !.got = got]
  <2>1. toolOps' = [toolOps EXCEPT ![k] = op]
    BY <1>3, <1>1 DEF FetchToken, ToolOp, ToolInv, ToolOpsTyped
  <2>2. tokens[t] \in Secrets \cup {"quoting", Absence}
    BY <1>3 DEF ToolInv, ToolOpsTyped, TokenValue
  <2>3. /\ got \in [TokenName -> TokenValue \cup {Absence}] /\ got[t] = tokens[t]
        /\ \A u : u # t => got[u] = was.got[u]
    BY <1>1, <2>2 DEF ToolOp, TokenValue
  <2> HIDE DEF got
  <2>4. op \in ToolOp /\ op.pc = "fetch" /\ op.left = was.left \ {t} /\ op.got = got /\ op.env = was.env
    BY <1>1, <2>3 DEF ToolOp
  <2> HIDE DEF op, was
  <2>5. ASSUME NEW u \in References(op.env) \ op.left
        PROVE  /\ op.got[u] \in Secrets \cup {"quoting", Absence}
               /\ u \notin rewritten[k] => op.got[u] = tokens[u]
    BY <1>1, <2>2, <2>3, <2>4 DEF LookedUp
  <2>6. LookedUp(op, tokens, rewritten[k])
    BY <2>4, <2>5 DEF LookedUp
  <2> QED
    BY <1>1, <2>1, <2>4, <2>6, NextFree
<1> QED
  BY <1>2, <1>3

LEMMA NextResolve == ASSUME ToolInv, NEW k \in ToolActor, Resolve(k) PROVE ToolInv'
<1> DEFINE was == toolOps[k]
<1>1. was \in ToolOp /\ was.pc = "fetch" /\ was.left = {} /\ OnlyOps /\ LookedUp(was, tokens, rewritten[k])
  BY DEF Resolve, Doing, ToolInv, ToolOpsTyped
<1>2. CASE Unresolved(was) # {}
  BY <1>2, NextEnds DEF Resolve
<1>3. CASE Unresolved(was) = {}
  <2> DEFINE op == [was EXCEPT !.pc = "spawn"]
  <2>1. toolOps' = [toolOps EXCEPT ![k] = op]
    BY <1>3 DEF Resolve
  <2>2. op \in ToolOp /\ op.pc = "spawn" /\ op.left = {} /\ op.got = was.got /\ op.env = was.env
    BY <1>1 DEF ToolOp, ToolPcs
  <2> HIDE DEF op, was
  <2>3. \A t \in References(op.env) : op.got[t] \in Secrets
    BY <1>1, <1>3, <2>2 DEF Unresolved, LookedUp
  <2>4. LookedUp(op, tokens, rewritten[k])
    BY <1>1, <2>2, <2>3 DEF LookedUp
  <2> QED
    BY <1>1, <2>1, <2>2, <2>4, NextFree
<1> QED
  BY <1>2, <1>3

\* The process.
LEMMA NextProcess ==
  ASSUME ToolInv, NEW k \in ToolActor,
         Spawn(k) \/ ProcessEnds(k) \/ Collect(k) \/ TimesOut(k) \/ CancelCall(k)
  PROVE  ToolInv'
<1> DEFINE was == toolOps[k]
<1>1. was \in ToolOp /\ OnlyOps /\ HeldToWrite(was, toolDb) /\ LookedUp(was, tokens, rewritten[k])
  BY DEF Spawn, ProcessEnds, Collect, TimesOut, CancelCall, ToolInv, ToolOpsTyped
<1>2. CASE Spawn(k)
  <2> DEFINE op == [NoOp EXCEPT !.pc = "wait", !.process = "running"]
  <2>1. toolOps' = [toolOps EXCEPT ![k] = op]
    BY <1>2 DEF Spawn
  <2>2. op \in ToolOp /\ op.pc = "wait"
    BY NoOpIsTyped DEF NoOp, ToolOp, ToolPcs
  <2> HIDE DEF op
  <2> QED
    BY <1>1, <2>1, <2>2, NextFree DEF LookedUp
<1>3. CASE ProcessEnds(k)
  <2> DEFINE op == [was EXCEPT !.process = "ended"]
  <2>1. toolOps' = [toolOps EXCEPT ![k] = op]
    BY <1>3 DEF ProcessEnds
  <2>2. /\ op \in ToolOp /\ op.pc = was.pc /\ op.id = was.id /\ op.held = was.held /\ op.name = was.name
        /\ op.env = was.env /\ op.left = was.left /\ op.got = was.got
    BY <1>1 DEF ToolOp
  <2> HIDE DEF op, was
  <2>3. HeldToWrite(op, toolDb) /\ LookedUp(op, tokens, rewritten[k])
    BY <1>1, <2>2 DEF HeldToWrite, LookedUp
  <2> QED
    BY <1>1, <2>1, <2>2, <2>3, NextHeld
<1>4. CASE Collect(k)
  BY <1>1, <1>4, NextEnds DEF Collect
<1>5. CASE TimesOut(k)
  <2> DEFINE op == [was EXCEPT !.pc = "done", !.process = "killed"]
  <2>1. toolOps' = [toolOps EXCEPT ![k] = op]
    BY <1>5, <1>1 DEF TimesOut, ToolInv, ToolOpsTyped
  <2>2. op \in ToolOp /\ op.pc = "done"
    BY <1>1 DEF ToolOp, ToolPcs
  <2> HIDE DEF op, was
  <2> QED
    BY <1>1, <2>1, <2>2, NextFree DEF LookedUp
<1>6. CASE CancelCall(k)
  <2> DEFINE op == [NoOp EXCEPT !.pc = "done", !.process = was.process]
  <2>1. toolOps' = [toolOps EXCEPT ![k] = op]
    BY <1>6 DEF CancelCall
  <2>2. op \in ToolOp /\ op.pc = "done"
    BY <1>1, NoOpIsTyped DEF NoOp, ToolOp, ToolPcs
  <2> HIDE DEF op, was
  <2> QED
    BY <1>1, <2>1, <2>2, NextFree DEF LookedUp
<1> QED
  BY <1>2, <1>3, <1>4, <1>5, <1>6

LEMMA NextTokens ==
  ASSUME ToolInv, NEW t \in TokenName, NEW value \in TokenValue \cup {Absence}, WriteToken(t, value)
  PROVE  ToolInv'
<1>1. /\ tokens' = [tokens EXCEPT ![t] = value] /\ toolDb' = toolDb /\ tools' = tools
      /\ toolOps' = toolOps /\ torn' = torn
      /\ rewritten' = [k \in ToolActor |-> IF toolOps[k].pc \in {"fetch", "spawn"}
                                           THEN rewritten[k] \cup {t} ELSE rewritten[k]]
  BY DEF WriteToken
<1>2. ToolOpsTyped'
  BY <1>1 DEF ToolInv, ToolOpsTyped
<1>3. ASSUME NEW k \in ToolActor PROVE LookedUp(toolOps[k], tokens', rewritten'[k])
  <2>1. CASE toolOps[k].pc \in {"fetch", "spawn"}
    <3>1. rewritten'[k] = rewritten[k] \cup {t}
      BY <1>1, <2>1
    <3>2. \A u : u # t => tokens'[u] = tokens[u]
      BY <1>1 DEF ToolInv, ToolOpsTyped
    <3>3. LookedUp(toolOps[k], tokens, rewritten[k])
      BY DEF ToolInv
    <3> QED
      BY <2>1, <3>1, <3>2, <3>3 DEF LookedUp
  <2>2. CASE toolOps[k].pc \notin {"fetch", "spawn"}
    BY <2>2 DEF LookedUp
  <2> QED
    BY <2>1, <2>2
<1>4. ASSUME NEW k \in ToolActor PROVE HeldToWrite(toolOps[k], toolDb)
  BY DEF ToolInv
<1>5. ToolsAreWhole' /\ (toolDb' = "postgres" => torn' = {})
  BY <1>1 DEF ToolInv, ToolsAreWhole, Stored
<1> QED
  BY <1>1, <1>2, <1>3, <1>4, <1>5 DEF ToolInv

LEMMA NextTool == ToolInv /\ [ToolsNext]_toolVars => ToolInv'
<1> SUFFICES ASSUME ToolInv, [ToolsNext]_toolVars PROVE ToolInv' OBVIOUS
<1>1. CASE UNCHANGED toolVars
  BY <1>1 DEF toolVars, ToolInv, ToolOpsTyped, HeldToWrite, LookedUp, ToolsAreWhole, Stored
<1>2. ASSUME NEW k \in ToolActor, NEW i \in ToolId,
             \/ \E n \in ToolName, s \in ToolSource, c \in ToolSource \cup {"given", "empty"}, e \in Mappings :
                  CreateTool(k, i, n, s, c, e)
             \/ \E n \in OptName, s \in OptSource, c \in {"given", NoTool} : ReadToUpdate(k, i, n, s, c)
             \/ \E e \in Mappings : ReadToMap(k, i, e)
             \/ DeleteTool(k, i) \/ LoadNew(k, i) \/ FindToSwitchOff(k, i) \/ StartTestRun(k, i)
             \/ \E over \in Overrides : StartCall(k, i, over)
      PROVE  ToolInv'
  BY <1>2, NextCreate, NextReads, NextDelete, NextLoadNew, NextToolStart
<1>3. ASSUME NEW k \in ToolActor, NEW p \in PluginName, NEW i \in ToolId \cup {NoTool}, FindToLoad(k, p, i)
      PROVE  ToolInv'
  BY <1>3, NextFindToLoad
<1>4. ASSUME NEW k \in ToolActor,
             \/ SetTool(k) \/ UpdateFails(k) \/ SaveMapping(k) \/ LoadOver(k) \/ SwitchOff(k)
             \/ Resolve(k) \/ Spawn(k) \/ ProcessEnds(k) \/ Collect(k) \/ TimesOut(k) \/ CancelCall(k)
             \/ \E t \in TokenName : FetchToken(k, t)
      PROVE  ToolInv'
  <2>1. CASE UpdateFails(k)
    BY <2>1, NextEnds DEF UpdateFails
  <2> QED
    BY <1>4, <2>1, NextSetTool, NextSaves, NextResolve, NextProcess, NextFetch
<1>5. ASSUME NEW t \in TokenName,
             DeleteToken(t) \/ \E v \in TokenValue : CreateToken(t, v) \/ UpdateToken(t, v)
      PROVE  ToolInv'
  BY <1>5, NextTokens DEF DeleteToken, CreateToken, UpdateToken
<1> QED
  BY <1>1, <1>2, <1>3, <1>4, <1>5 DEF ToolsNext

\* However many requests and loaders create, change, map, load and delete tools at
\* the same time, a stored tool is named for the function that its source defines,
\* with a schema of this source, unless a PUT has set fields of a document that
\* it had not read: custom_tools.py, loader.py.
THEOREM StoredToolsAreWhole == ToolsSpec => []ToolsAreWhole
<1>1. ToolInv => ToolsAreWhole
  BY DEF ToolInv
<1> QED
  BY InitTool, NextTool, <1>1, PTL DEF ToolsSpec

\* However many calls resolve their credentials while tokens are created, updated
\* and deleted, a call that goes on to the process has a credential for every
\* reference, and those not rewritten meanwhile are the ones stored:
\* token_resolver.py, token_store.py.
THEOREM CallsHaveTheirCredentials == ToolsSpec => []CredentialsAreCurrent
<1>1. ToolInv => CredentialsAreCurrent
  BY DEF ToolInv, LookedUp, CredentialsAreCurrent, Doing
<1> QED
  BY InitTool, NextTool, <1>1, PTL DEF ToolsSpec

-----------------------------------------------------------------------------
(* CustomTools: the types *)

\* What remains to look up is wanted, a process runs only while its call waits or
\* after it was cut, and a document is going to be written under an id.
OpFits(op) ==
  /\ op.left \subseteq References(op.env)
  /\ op.process = "running" => op.pc \in {"wait", "done"}
  /\ op.pc \in {"mapping", "switch"} => op.id \in ToolId

ToolBounds ==
  /\ \A k \in ToolActor : OpFits(toolOps[k])
  /\ tokenWrites \in 0 .. MaxTokenWrites /\ torn \subseteq ToolId

LEMMA NoOpFits == OpFits(NoOp) /\ OpFits([NoOp EXCEPT !.pc = "done"])
  BY DEF NoOp, OpFits

LEMMA InitToolBounds == ToolsInit => ToolBounds
  BY NoOpFits, TokenWritesAreBounded DEF ToolsInit, ToolBounds

LEMMA NextOpFits ==
  ASSUME ToolInv, ToolBounds, NEW k \in ToolActor, NEW op, OpFits(op),
         toolOps' = [toolOps EXCEPT ![k] = op], tokenWrites' = tokenWrites, torn' \subseteq ToolId
  PROVE  ToolBounds'
<1>1. ASSUME NEW j \in ToolActor PROVE OpFits(toolOps'[j])
  <2>1. toolOps'[j] = IF j = k THEN op ELSE toolOps[j]
    BY DEF ToolInv, ToolOpsTyped
  <2> QED
    BY <2>1 DEF ToolBounds
<1> QED
  BY <1>1 DEF ToolBounds

\* The requests and loads that read a tool.
LEMMA NextReadFits ==
  ASSUME ToolInv, ToolBounds, NEW k \in ToolActor,
         \/ \E i \in ToolId : \/ \E n, s, c : ReadToUpdate(k, i, n, s, c)
                              \/ \E e : ReadToMap(k, i, e)
                              \/ FindToSwitchOff(k, i) \/ StartTestRun(k, i)
                              \/ \E over : StartCall(k, i, over)
         \/ \E p, i : FindToLoad(k, p, i)
  PROVE  ToolBounds'
<1>1. PICK op : OpFits(op) /\ toolOps' = [toolOps EXCEPT ![k] = op] /\ OnlyOps
  <2>1. ASSUME NEW i \in ToolId, NEW n, NEW s, NEW c, ReadToUpdate(k, i, n, s, c)
        PROVE  \E op : OpFits(op) /\ toolOps' = [toolOps EXCEPT ![k] = op] /\ OnlyOps
    <3> DEFINE new == [NoOp EXCEPT !.pc = "update", !.id = i, !.held = tools[i],
                                   !.name = n, !.source = s, !.schema = c]
    <3>1. OpFits(new)
      BY DEF NoOp, OpFits
    <3>2. toolOps' = [toolOps EXCEPT ![k] = new] /\ OnlyOps
      BY <2>1 DEF ReadToUpdate
    <3> HIDE DEF new
    <3> QED
      BY <3>1, <3>2
  <2>2. ASSUME NEW i \in ToolId, NEW e, ReadToMap(k, i, e)
        PROVE  \E op : OpFits(op) /\ toolOps' = [toolOps EXCEPT ![k] = op] /\ OnlyOps
    <3> DEFINE new == [NoOp EXCEPT !.pc = "mapping", !.id = i, !.held = tools[i], !.env = e]
    <3>1. OpFits(new)
      BY DEF NoOp, OpFits
    <3>2. toolOps' = [toolOps EXCEPT ![k] = new] /\ OnlyOps
      BY <2>2 DEF ReadToMap
    <3> HIDE DEF new
    <3> QED
      BY <3>1, <3>2
  <2>3. ASSUME NEW i \in ToolId, FindToSwitchOff(k, i)
        PROVE  \E op : OpFits(op) /\ toolOps' = [toolOps EXCEPT ![k] = op] /\ OnlyOps
    <3> DEFINE new == [NoOp EXCEPT !.pc = "switch", !.id = i, !.held = tools[i]]
    <3>1. OpFits(new)
      BY DEF NoOp, OpFits
    <3>2. toolOps' = [toolOps EXCEPT ![k] = new] /\ OnlyOps
      BY <2>3 DEF FindToSwitchOff
    <3> HIDE DEF new
    <3> QED
      BY <3>1, <3>2
  <2>4. ASSUME NEW i \in ToolId, StartTestRun(k, i)
        PROVE  \E op : OpFits(op) /\ toolOps' = [toolOps EXCEPT ![k] = op] /\ OnlyOps
    <3> DEFINE new == [NoOp EXCEPT !.pc = "spawn", !.held = tools[i]]
    <3>1. OpFits(new)
      BY DEF NoOp, OpFits
    <3>2. toolOps' = [toolOps EXCEPT ![k] = new] /\ OnlyOps
      BY <2>4 DEF StartTestRun
    <3> HIDE DEF new
    <3> QED
      BY <3>1, <3>2
  <2>5. ASSUME NEW i \in ToolId, NEW over, StartCall(k, i, over)
        PROVE  \E op : OpFits(op) /\ toolOps' = [toolOps EXCEPT ![k] = op] /\ OnlyOps
    <3> DEFINE env == [v \in EnvVar |-> IF v \in DOMAIN over THEN over[v] ELSE tools[i].env[v]]
               new == [NoOp EXCEPT !.pc = "fetch", !.held = tools[i], !.env = env,
                                   !.left = References(env)]
    <3>1. toolOps' = [toolOps EXCEPT ![k] = new] /\ OnlyOps
      BY <2>5 DEF StartCall
    <3> HIDE DEF env
    <3>2. /\ new.left = References(env) /\ new.env = env /\ new.process = "none" /\ new.pc = "fetch"
      BY DEF NoOp
    <3> HIDE DEF new
    <3> QED
      BY <3>1, <3>2 DEF OpFits
  <2>6. ASSUME NEW p, NEW i, FindToLoad(k, p, i)
        PROVE  \E op : OpFits(op) /\ toolOps' = [toolOps EXCEPT ![k] = op] /\ OnlyOps
    <3> DEFINE held == IF i = NoTool THEN NoTool ELSE tools[i]
               new == [NoOp EXCEPT !.pc = "load", !.id = i, !.name = p, !.held = held]
    <3>1. OpFits(new)
      BY DEF NoOp, OpFits
    <3>2. toolOps' = [toolOps EXCEPT ![k] = new] /\ OnlyOps
      BY <2>6 DEF FindToLoad
    <3> HIDE DEF new
    <3> QED
      BY <3>1, <3>2
  <2> QED
    BY <2>1, <2>2, <2>3, <2>4, <2>5, <2>6
<1> QED
  BY <1>1, NextOpFits DEF OnlyOps, ToolBounds

\* The routes and loads that write one, and all that ends an operation.
LEMMA NextEndFits ==
  ASSUME ToolInv, ToolBounds, NEW k \in ToolActor, EndOp(k), UNCHANGED tokenWrites, torn' \subseteq ToolId
  PROVE  ToolBounds'
  BY NextOpFits, NoOpFits DEF EndOp

LEMMA NextSaveFits ==
  ASSUME ToolInv, ToolBounds, NEW k \in ToolActor,
         SetTool(k) \/ SaveMapping(k) \/ LoadOver(k) \/ SwitchOff(k)
  PROVE  ToolBounds'
<1>1. ASSUME NEW doc, SaveWhole(k, doc), toolOps[k].id \in ToolId PROVE ToolBounds'
  <2>1. EndOp(k) /\ UNCHANGED tokenWrites /\ torn' \subseteq torn \cup {toolOps[k].id}
    BY <1>1 DEF SaveWhole, OnlyTools
  <2> QED
    BY <1>1, <2>1, NextEndFits DEF ToolBounds
<1>2. CASE SetTool(k)
  <2>1. EndOp(k) /\ UNCHANGED tokenWrites
    BY <1>2 DEF SetTool, OnlyTools
  <2>2. torn' \subseteq torn \cup Stored
    BY <1>2 DEF SetTool
  <2> QED
    BY <2>1, <2>2, NextEndFits DEF ToolBounds, Stored
<1>3. CASE SaveMapping(k)
  BY <1>1, <1>3 DEF SaveMapping, Doing, ToolBounds, OpFits
<1>4. CASE SwitchOff(k)
  BY <1>1, <1>4 DEF SwitchOff, Doing, ToolBounds, OpFits
<1>5. CASE LoadOver(k)
  <2>1. toolOps[k].id \in ToolId
    BY <1>5 DEF LoadOver, ToolInv, ToolOpsTyped, ToolOp
  <2> QED
    BY <1>1, <1>5, <2>1 DEF LoadOver
<1> QED
  BY <1>2, <1>3, <1>4, <1>5

\* A call, from its first look-up to the end of its process.
LEMMA NextCallFits ==
  ASSUME ToolInv, ToolBounds, NEW k \in ToolActor,
         \/ Resolve(k) \/ Spawn(k) \/ ProcessEnds(k) \/ Collect(k) \/ TimesOut(k) \/ CancelCall(k)
         \/ \E t \in TokenName : FetchToken(k, t)
  PROVE  ToolBounds'
<1> DEFINE op == toolOps[k]
<1>1. op \in ToolOp /\ OpFits(op)
  BY DEF ToolInv, ToolOpsTyped, ToolBounds
<1>2. OnlyOps
  BY DEF Resolve, Spawn, ProcessEnds, Collect, TimesOut, CancelCall, FetchToken
<1>3. torn' \subseteq ToolId /\ UNCHANGED tokenWrites
  BY <1>2 DEF OnlyOps, ToolBounds
<1>4. toolOps \in [ToolActor -> ToolOp]
  BY DEF ToolInv, ToolOpsTyped
<1>5. CASE EndOp(k)
  BY <1>3, <1>5, NextEndFits
<1>6. ASSUME NEW new, OpFits(new), toolOps' = [toolOps EXCEPT ![k] = new] PROVE ToolBounds'
  BY <1>3, <1>6, NextOpFits
<1>7. ASSUME NEW t \in TokenName, FetchToken(k, t), ~EndOp(k) PROVE ToolBounds'
  <2> DEFINE new == [op EXCEPT !.left = @ \ {t}, !.got[t] = tokens[t]]
  <2>1. toolOps' = [toolOps EXCEPT ![k] = new]
    BY <1>4, <1>7 DEF FetchToken
  <2>2. OpFits(new)
    BY <1>1 DEF OpFits, ToolOp
  <2> HIDE DEF new
  <2> QED
    BY <1>6, <2>1, <2>2
<1>8. CASE Resolve(k) /\ ~EndOp(k)
  <2> DEFINE new == [op EXCEPT !.pc = "spawn"]
  <2>1. toolOps' = [toolOps EXCEPT ![k] = new] /\ op.pc = "fetch"
    BY <1>4, <1>8 DEF Resolve, Doing
  <2>2. OpFits(new)
    BY <1>1, <2>1 DEF OpFits, ToolOp
  <2> HIDE DEF new
  <2> QED
    BY <1>6, <2>1, <2>2
<1>9. CASE Spawn(k)
  <2> DEFINE new == [NoOp EXCEPT !.pc = "wait", !.process = "running"]
  <2>1. toolOps' = [toolOps EXCEPT ![k] = new]
    BY <1>9 DEF Spawn
  <2>2. OpFits(new)
    BY DEF OpFits, NoOp
  <2> HIDE DEF new
  <2> QED
    BY <1>6, <2>1, <2>2
<1>10. CASE ProcessEnds(k)
  <2> DEFINE new == [op EXCEPT !.process = "ended"]
  <2>1. toolOps' = [toolOps EXCEPT ![k] = new]
    BY <1>4, <1>10 DEF ProcessEnds
  <2>2. OpFits(new)
    BY <1>1 DEF OpFits, ToolOp
  <2> HIDE DEF new
  <2> QED
    BY <1>6, <2>1, <2>2
<1>11. CASE TimesOut(k)
  <2> DEFINE new == [op EXCEPT !.pc = "done", !.process = "killed"]
  <2>1. toolOps' = [toolOps EXCEPT ![k] = new]
    BY <1>4, <1>11 DEF TimesOut
  <2>2. OpFits(new)
    BY <1>1 DEF OpFits, ToolOp
  <2> HIDE DEF new
  <2> QED
    BY <1>6, <2>1, <2>2
<1>12. CASE CancelCall(k)
  <2> DEFINE new == [NoOp EXCEPT !.pc = "done", !.process = op.process]
  <2>1. toolOps' = [toolOps EXCEPT ![k] = new]
    BY <1>12 DEF CancelCall
  <2>2. OpFits(new)
    BY DEF OpFits, NoOp
  <2> HIDE DEF new
  <2> QED
    BY <1>6, <2>1, <2>2
<1> QED
  BY <1>5, <1>7, <1>8, <1>9, <1>10, <1>11, <1>12 DEF Collect

LEMMA NextToolBounds == ToolInv /\ ToolBounds /\ [ToolsNext]_toolVars => ToolBounds'
<1> SUFFICES ASSUME ToolInv, ToolBounds, [ToolsNext]_toolVars PROVE ToolBounds' OBVIOUS
<1>1. CASE UNCHANGED toolVars
  BY <1>1 DEF toolVars, ToolBounds
<1>2. ASSUME NEW k \in ToolActor, NEW i \in ToolId,
             \/ \E n \in ToolName, s \in ToolSource, c \in ToolSource \cup {"given", "empty"}, e \in Mappings :
                  CreateTool(k, i, n, s, c, e)
             \/ \E n \in OptName, s \in OptSource, c \in {"given", NoTool} : ReadToUpdate(k, i, n, s, c)
             \/ \E e \in Mappings : ReadToMap(k, i, e)
             \/ DeleteTool(k, i) \/ LoadNew(k, i) \/ FindToSwitchOff(k, i) \/ StartTestRun(k, i)
             \/ \E over \in Overrides : StartCall(k, i, over)
      PROVE  ToolBounds'
  <2>1. ASSUME EndOp(k), OnlyTools, UNCHANGED torn PROVE ToolBounds'
    BY <2>1, NextEndFits DEF OnlyTools, ToolBounds
  <2>2. CASE \E n \in ToolName, s \in ToolSource, c \in ToolSource \cup {"given", "empty"}, e \in Mappings :
               CreateTool(k, i, n, s, c, e)
    BY <2>1, <2>2 DEF CreateTool
  <2>3. CASE DeleteTool(k, i) \/ LoadNew(k, i)
    BY <2>1, <2>3 DEF DeleteTool, LoadNew
  <2> QED
    BY <1>2, <2>2, <2>3, NextReadFits
<1>3. ASSUME NEW k \in ToolActor, NEW p \in PluginName, NEW i \in ToolId \cup {NoTool}, FindToLoad(k, p, i)
      PROVE  ToolBounds'
  BY <1>3, NextReadFits
<1>4. ASSUME NEW k \in ToolActor,
             \/ SetTool(k) \/ UpdateFails(k) \/ SaveMapping(k) \/ LoadOver(k) \/ SwitchOff(k)
             \/ Resolve(k) \/ Spawn(k) \/ ProcessEnds(k) \/ Collect(k) \/ TimesOut(k) \/ CancelCall(k)
             \/ \E t \in TokenName : FetchToken(k, t)
      PROVE  ToolBounds'
  <2>1. CASE UpdateFails(k)
    BY <2>1, NextEndFits DEF UpdateFails, OnlyOps, ToolBounds
  <2> QED
    BY <1>4, <2>1, NextSaveFits, NextCallFits
<1>5. ASSUME NEW t \in TokenName,
             DeleteToken(t) \/ \E v \in TokenValue : CreateToken(t, v) \/ UpdateToken(t, v)
      PROVE  ToolBounds'
  <2>1. /\ tokenWrites < MaxTokenWrites /\ tokenWrites' = tokenWrites + 1
        /\ toolOps' = toolOps /\ torn' = torn
    BY <1>5 DEF DeleteToken, CreateToken, UpdateToken, WriteToken
  <2>2. tokenWrites' \in 0 .. MaxTokenWrites
    BY <2>1, TokenWritesAreBounded DEF ToolBounds
  <2> QED
    BY <2>1, <2>2 DEF ToolBounds
<1> QED
  BY <1>1, <1>2, <1>3, <1>4, <1>5 DEF ToolsNext

LEMMA ToolsTyped == ToolInv /\ ToolBounds => ToolsTypeOK
  BY DEF ToolInv, ToolBounds, ToolOpsTyped, ToolsTypeOK, ToolOp, OpFits

-----------------------------------------------------------------------------
(* Migration *)

JobPcs == {"off"} \cup MigratePcs \cup VerifyPcs
\* A collection is being copied, or compared.
Copying == {"find", "read", "flush", "last"}
Comparing == {"vcount", "vsample", "vspot"}

JobShaped(j) ==
  j \in [pc : JobPcs, target : SUBSET Collection, todo : SUBSET Collection, coll : {j.coll},
         dry : BOOLEAN, due : {j.due}, seen : {j.seen}, batch : {j.batch}, counted : {j.counted},
         migrated : {j.migrated}, skipped : Nat, failed : BOOLEAN]

JobTyped(j) ==
  /\ JobShaped(j) /\ j.todo \subseteq j.target
  /\ IsFiniteSet(DOMAIN j.batch)
  /\ j.pc \in Copying \cup Comparing => j.coll \in j.target \ j.todo

TablesTyped ==
  /\ DOMAIN mongo = Collection /\ DOMAIN pg = Collection
  /\ \A c \in Collection : IsFiniteSet(DOMAIN mongo[c]) /\ IsFiniteSet(DOMAIN pg[c])

\* What a verdict says of a collection.
Told(c, i) == i \in DOMAIN pg[c] /\ Says(pg[c][i], mongo[c][i])
Copied(c) == \A i \in Documents(c) : Told(c, i)
SameNumber(c) == Cardinality(DOMAIN pg[c]) = Cardinality(Documents(c))
SameRow(c, i) == i \in DOMAIN pg[c] /\ pg[c][i].v = mongo[c][i].v
Compared(c) ==
  /\ SameNumber(c)
  /\ Cardinality(Documents(c)) <= SpotSample => \A i \in Documents(c) : SameRow(c, i)

\* Where the copy of the collection at hand is: what the cursor has given is in
\* the batch or in the table.
HalfCopied ==
  LET c == job.coll IN
  /\ job.pc = "find" => job.seen = {}
  /\ job.pc \in {"read", "flush", "last"} =>
       /\ DOMAIN job.batch \subseteq Documents(c)
       /\ \A i \in DOMAIN job.batch : job.batch[i] = RowOf(mongo[c][i])
       /\ \A i \in job.seen \ DOMAIN job.batch : Told(c, i)
  /\ job.pc \in {"read", "flush"} => job.due = Documents(c)
  /\ job.pc = "last" => Documents(c) \subseteq job.seen

HalfCompared ==
  LET c == job.coll IN
  /\ job.pc = "vcount" => job.counted = Cardinality(Documents(c))
  /\ job.pc \in {"vsample", "vspot"} => SameNumber(c)
  /\ job.pc = "vspot" /\ Cardinality(Documents(c)) <= SpotSample =>
       \A i \in Documents(c) \ job.due : SameRow(c, i)

\* Undisturbed and without an error, the collections that a script is done with
\* are what its verdict is going to say.
Earning ==
  quiet /\ ~job.failed =>
    /\ job.pc \in MigratePcs /\ ~job.dry /\ job.skipped = 0 =>
         /\ \A c \in job.target \ job.todo : c # job.coll \/ job.pc = "next" => Copied(c)
         /\ HalfCopied
    /\ job.pc \in VerifyPcs =>
         /\ \A c \in job.target \ job.todo : c # job.coll \/ job.pc = "vnext" => Compared(c)
         /\ HalfCompared

MigInv ==
  /\ JobTyped(job) /\ TablesTyped
  /\ job.pc # "off" => ~verdict.ok
  /\ Earning
  /\ VerdictsAreEarned

\* Whoever wrote created_at, it was one of the hosts that migrations have run on.
Origins ==
  /\ job.pc \in MigratePcs /\ ~job.dry => host \in hosts
  /\ \A i \in DOMAIN job.batch : job.batch[i].born = host
  /\ \A c \in Collection : \A i \in DOMAIN pg[c] : pg[c][i].born \in hosts

LEMMA WithIs ==
  ASSUME NEW f, NEW g
  PROVE  /\ DOMAIN With(f, g) = DOMAIN f \cup DOMAIN g
         /\ \A x \in DOMAIN g : With(f, g)[x] = g[x]
         /\ \A x \in DOMAIN f \ DOMAIN g : With(f, g)[x] = f[x]
  BY DEF With

LEMMA WithIsFinite ==
  ASSUME NEW f, NEW g, IsFiniteSet(DOMAIN f), IsFiniteSet(DOMAIN g)
  PROVE  IsFiniteSet(DOMAIN With(f, g))
<1>1. DOMAIN With(f, g) = DOMAIN f \cup DOMAIN g
  BY DEF With
<1> QED
  BY <1>1, FS_Union

\* The rows of the batch, but with the created_at of the rows that they replace.
LEMMA UpsertedIs ==
  ASSUME NEW f, NEW g
  PROVE  /\ DOMAIN Upserted(f, g) = DOMAIN f \cup DOMAIN g
         /\ \A x \in DOMAIN g \cap DOMAIN f : Upserted(f, g)[x] = [g[x] EXCEPT !.born = f[x].born]
         /\ \A x \in DOMAIN g \ DOMAIN f : Upserted(f, g)[x] = g[x]
         /\ \A x \in DOMAIN f \ DOMAIN g : Upserted(f, g)[x] = f[x]
<1> DEFINE rows == [i \in DOMAIN g |-> IF i \in DOMAIN f THEN [g[i] EXCEPT !.born = f[i].born] ELSE g[i]]
<1>1. /\ DOMAIN rows = DOMAIN g
      /\ \A x \in DOMAIN g \cap DOMAIN f : rows[x] = [g[x] EXCEPT !.born = f[x].born]
      /\ \A x \in DOMAIN g \ DOMAIN f : rows[x] = g[x]
  OBVIOUS
<1>2. Upserted(f, g) = With(f, rows)
  BY DEF Upserted
<1> HIDE DEF rows
<1>3. /\ DOMAIN With(f, rows) = DOMAIN f \cup DOMAIN rows
      /\ \A x \in DOMAIN rows : With(f, rows)[x] = rows[x]
      /\ \A x \in DOMAIN f \ DOMAIN rows : With(f, rows)[x] = f[x]
  BY DEF With
<1> QED
  BY <1>1, <1>2, <1>3

LEMMA UpsertedIsFinite ==
  ASSUME NEW f, NEW g, IsFiniteSet(DOMAIN f), IsFiniteSet(DOMAIN g)
  PROVE  IsFiniteSet(DOMAIN Upserted(f, g))
<1>1. DOMAIN Upserted(f, g) = DOMAIN f \cup DOMAIN g
  BY DEF Upserted, With
<1> QED
  BY <1>1, FS_Union

\* The row of a document says what it says, whichever host has written created_at.
LEMMA RowsSay ==
  ASSUME NEW d, host \in hosts
  PROVE  /\ Says(RowOf(d), d)
         /\ \A z \in hosts : Says([RowOf(d) EXCEPT !.born = z], d)
<1>1. ASSUME NEW z PROVE /\ [RowOf(d) EXCEPT !.born = z].born = z
                         /\ [[RowOf(d) EXCEPT !.born = z] EXCEPT !.born = host] = RowOf(d)
  <2> DEFINE at(x) == [v |-> d.v, full |-> d.shape = "whole", null |-> d.shape = "lacks",
                       born |-> x, zone |-> host]
  <2>1. [at(host) EXCEPT !.born = z] = at(z)
    OBVIOUS
  <2>2. [at(z) EXCEPT !.born = host] = at(host) /\ at(z).born = z
    OBVIOUS
  <2>3. RowOf(d) = at(host)
    BY DEF RowOf
  <2> QED
    BY <2>1, <2>2, <2>3
<1>2. RowOf(d).born = host /\ [RowOf(d) EXCEPT !.born = host] = RowOf(d)
  BY DEF RowOf
<1>3. ASSUME NEW z \in hosts PROVE Says([RowOf(d) EXCEPT !.born = z], d)
  BY <1>1 DEF Says
<1> QED
  BY <1>2, <1>3 DEF Says

LEMMA NoBatch == DOMAIN << >> = {} /\ IsFiniteSet(DOMAIN << >>)
<1>1. DOMAIN << >> = {}
  OBVIOUS
<1> QED
  BY <1>1, FS_EmptySet

LEMMA NoJobIsTyped == NoJob.pc = "off" /\ JobTyped(NoJob)
<1> DEFINE first == CHOOSE c \in Collection : TRUE
           none == [pc |-> "off", target |-> {}, todo |-> {}, coll |-> first,
                    dry |-> FALSE, due |-> {}, seen |-> {}, batch |-> << >>, counted |-> 0,
                    migrated |-> 0, skipped |-> 0, failed |-> FALSE]
<1>1. NoJob = none
  BY DEF NoJob
<1> HIDE DEF first
<1>2. none.pc = "off" /\ none.batch = << >> /\ none.todo = {}
  OBVIOUS
<1>3. JobShaped(none)
  BY DEF JobShaped, JobPcs
<1> HIDE DEF none
<1> QED
  BY <1>1, <1>2, <1>3, NoBatch DEF JobTyped, Copying, Comparing

LEMMA InitMig == MigrationInit => MigInv
<1> SUFFICES ASSUME MigrationInit PROVE MigInv OBVIOUS
<1>1. TablesTyped
  <2>1. DOMAIN mongo = Collection /\ \A c \in Collection : IsFiniteSet(DOMAIN mongo[c])
    BY ContentsAreFinite DEF MigrationInit
  <2>2. DOMAIN pg = Collection /\ \A c \in Collection : IsFiniteSet(DOMAIN pg[c])
    BY NoBatch DEF MigrationInit
  <2> QED
    BY <2>1, <2>2 DEF TablesTyped
<1>2. JobTyped(job) /\ job.pc = "off"
  BY NoJobIsTyped DEF MigrationInit
<1>3. ~verdict.ok
  BY DEF MigrationInit, NoVerdict
<1>4. Earning
  BY <1>2 DEF Earning, MigratePcs, VerifyPcs
<1> QED
  BY <1>1, <1>2, <1>3, <1>4 DEF MigInv, VerdictsAreEarned

\* A script that runs has said nothing, so the verdict cannot be wrong.
LEMMA NextRunning ==
  ASSUME MigInv, job.pc # "off", UNCHANGED verdict, JobTyped(job)', TablesTyped', Earning'
  PROVE  MigInv'
  BY DEF MigInv, VerdictsAreEarned

LEMMA SameTables ==
  ASSUME UNCHANGED <<mongo, pg, host, hosts>>, NEW c
  PROVE  /\ Copied(c)' <=> Copied(c)
         /\ \A i : Told(c, i)' <=> Told(c, i)
         /\ \A i : RowOf(mongo[c][i])' = RowOf(mongo[c][i])
         /\ Compared(c)' <=> Compared(c)
         /\ Documents(c)' = Documents(c) /\ (SameNumber(c)' <=> SameNumber(c))
         /\ \A i : SameRow(c, i)' <=> SameRow(c, i)
<1>1. \A row, d : (Says(row, d)' <=> Says(row, d)) /\ RowOf(d)' = RowOf(d)
  BY DEF Says, RowOf
<1>2. \A i : (Told(c, i)' <=> Told(c, i)) /\ RowOf(mongo[c][i])' = RowOf(mongo[c][i])
  BY <1>1 DEF Told
<1>3. Documents(c)' = Documents(c)
  BY DEF Documents
<1> HIDE DEF Told, Documents
<1> QED
  BY <1>2, <1>3 DEF Copied, Compared, SameNumber, SameRow

LEMMA SameTyped == ASSUME TablesTyped, UNCHANGED <<mongo, pg>> PROVE TablesTyped'
  BY DEF TablesTyped

\* A script starts.
LEMMA NextStartJob ==
  ASSUME MigInv, NEW t \in SUBSET Collection, NEW dry \in BOOLEAN, NEW zone \in Zone,
         StartMigration(t, dry, zone) \/ StartVerification(t)
  PROVE  MigInv'
<1>1. UNCHANGED <<mongo, pg>> /\ verdict' = NoVerdict
  BY DEF StartMigration, StartVerification
<1>2. ~verdict'.ok
  BY <1>1 DEF NoVerdict
<1>3. /\ job'.pc \in {"next", "vnext"} /\ job'.target = t /\ job'.todo = t
      /\ JobTyped(job')
  <2> DEFINE new == [NoJob EXCEPT !.pc = "next", !.target = t, !.todo = t, !.dry = dry]
             other == [NoJob EXCEPT !.pc = "vnext", !.target = t, !.todo = t]
  <2>1. job' = new \/ job' = other
    BY DEF StartMigration, StartVerification
  <2>2. JobTyped(NoJob)
    BY NoJobIsTyped
  <2>3. /\ new.pc = "next" /\ new.target = t /\ new.todo = t /\ new.batch = NoJob.batch
        /\ JobShaped(new)
    BY <2>2 DEF JobTyped, JobShaped, JobPcs, MigratePcs
  <2>4. /\ other.pc = "vnext" /\ other.target = t /\ other.todo = t /\ other.batch = NoJob.batch
        /\ JobShaped(other)
    BY <2>2 DEF JobTyped, JobShaped, JobPcs, VerifyPcs
  <2> HIDE DEF new, other
  <2> QED
    BY <2>1, <2>2, <2>3, <2>4 DEF JobTyped, Copying, Comparing
<1>4. Earning'
  BY <1>3 DEF Earning, HalfCopied, HalfCompared
<1> QED
  BY <1>1, <1>2, <1>3, <1>4, SameTyped DEF MigInv, VerdictsAreEarned

LEMMA NextCount == ASSUME MigInv, NEW c \in Collection, CountCollection(c) PROVE MigInv'
<1> DEFINE pc == IF Documents(c) = {} THEN "next" ELSE "find"
           new == [job EXCEPT !.todo = @ \ {c}, !.coll = c, !.seen = {},
                              !.counted = Cardinality(Documents(c)), !.migrated = 0, !.pc = pc]
<1>1. /\ job.pc = "next" /\ c \in job.todo /\ job' = new
      /\ UNCHANGED <<mongo, pg, verdict, host, hosts, quiet>>
  BY DEF CountCollection, Runs
<1>2. /\ new.pc = pc /\ new.coll = c /\ new.seen = {} /\ new.todo = job.todo \ {c}
      /\ new.target = job.target /\ new.dry = job.dry /\ new.skipped = job.skipped
      /\ new.failed = job.failed /\ new.batch = job.batch
      /\ JobShaped(new)
  BY DEF MigInv, JobTyped, JobShaped, JobPcs, MigratePcs
<1> HIDE DEF new
<1>3. JobTyped(new)
  BY <1>1, <1>2 DEF MigInv, JobTyped
<1>4. Documents(c) = {} => Copied(c)
  BY DEF Copied
<1>5. Earning'
  <2>1. ASSUME quiet, ~new.failed, ~new.dry, new.skipped = 0
        PROVE  \A d \in new.target \ new.todo : d # new.coll \/ new.pc = "next" => Copied(d)
    BY <1>1, <1>2, <1>4, <2>1 DEF MigInv, Earning, MigratePcs
  <2>2. \A d : Copied(d)' <=> Copied(d)
    BY <1>1, SameTables
  <2> QED
    BY <1>1, <1>2, <2>1, <2>2 DEF Earning, HalfCopied, VerifyPcs
<1> QED
  BY <1>1, <1>3, <1>5, NextRunning, SameTyped DEF MigInv

LEMMA NextOpenCursor == ASSUME MigInv, OpenCursor PROVE MigInv'
<1> DEFINE c == job.coll
           new == [job EXCEPT !.pc = "read", !.due = Documents(c), !.batch = << >>]
<1>1. job.pc = "find" /\ job' = new /\ UNCHANGED <<mongo, pg, verdict, host, hosts, quiet>>
  BY DEF OpenCursor, Runs
<1>2. /\ new.pc = "read" /\ new.coll = c /\ new.seen = job.seen /\ new.todo = job.todo
      /\ new.target = job.target /\ new.dry = job.dry /\ new.skipped = job.skipped
      /\ new.failed = job.failed /\ new.batch = << >> /\ new.due = Documents(c)
      /\ JobShaped(new)
  BY DEF MigInv, JobTyped, JobShaped, JobPcs, MigratePcs
<1> HIDE DEF new, c
<1>3. JobTyped(new)
  BY <1>1, <1>2, NoBatch DEF MigInv, JobTyped, Copying, c
<1>4. Earning'
  <2>1. ASSUME quiet, ~new.failed, ~new.dry, new.skipped = 0
        PROVE  /\ \A d \in new.target \ new.todo : d # new.coll \/ new.pc = "next" => Copied(d)
               /\ new.seen = {}
    BY <1>1, <1>2, <2>1 DEF MigInv, Earning, MigratePcs, HalfCopied, c
  <2>2. \A d : (Copied(d)' <=> Copied(d)) /\ Documents(d)' = Documents(d)
    BY <1>1, SameTables
  <2> QED
    BY <1>1, <1>2, <2>1, <2>2, NoBatch DEF Earning, HalfCopied, VerifyPcs
<1> QED
  BY <1>1, <1>3, <1>4, NextRunning, SameTyped DEF MigInv

LEMMA NextReadDocument == ASSUME MigInv, NEW i, ReadDocument(i) PROVE MigInv'
<1> DEFINE c == job.coll
           d == mongo[c][i]
           row == [k \in {i} |-> RowOf(d)]
           batch == IF d.shape = "odd" THEN job.batch ELSE With(job.batch, row)
           pc == IF Cardinality(DOMAIN batch) >= BatchSize THEN "flush" ELSE "read"
           more == job.skipped + IF d.shape = "odd" THEN 1 ELSE 0
           new == [job EXCEPT !.seen = @ \cup {i}, !.batch = batch, !.skipped = more, !.pc = pc]
<1>1. /\ job.pc = "read" /\ i \in Documents(c) \ job.seen /\ job' = new
      /\ UNCHANGED <<mongo, pg, verdict, host, hosts, quiet>>
  BY DEF ReadDocument, Runs
<1>2. more \in Nat /\ (more = 0 => job.skipped = 0 /\ d.shape # "odd")
  BY DEF MigInv, JobTyped, JobShaped
<1>3. pc \in {"read", "flush"}
  OBVIOUS
<1>4. IsFiniteSet(DOMAIN batch)
  <2>1. IsFiniteSet(DOMAIN job.batch)
    BY DEF MigInv, JobTyped
  <2>2. DOMAIN row = {i} /\ IsFiniteSet({i})
    BY FS_Singleton
  <2> QED
    BY <2>1, <2>2, WithIsFinite
<1>5. d.shape # "odd" =>
        /\ DOMAIN batch = DOMAIN job.batch \cup {i} /\ batch[i] = RowOf(d)
        /\ \A k \in DOMAIN job.batch \ {i} : batch[k] = job.batch[k]
  <2>1. DOMAIN row = {i} /\ row[i] = RowOf(d)
    OBVIOUS
  <2>2. d.shape # "odd" => batch = With(job.batch, row)
    OBVIOUS
  <2> HIDE DEF row
  <2>3. /\ DOMAIN With(job.batch, row) = DOMAIN job.batch \cup DOMAIN row
        /\ \A x \in DOMAIN row : With(job.batch, row)[x] = row[x]
        /\ \A x \in DOMAIN job.batch \ DOMAIN row : With(job.batch, row)[x] = job.batch[x]
    BY WithIs
  <2> HIDE DEF batch, d
  <2> QED
    BY <2>1, <2>2, <2>3
<1> HIDE DEF batch, row, pc, more
<1>6. /\ new.pc = pc /\ new.coll = c /\ new.seen = job.seen \cup {i} /\ new.todo = job.todo
      /\ new.target = job.target /\ new.dry = job.dry /\ new.skipped = more
      /\ new.failed = job.failed /\ new.batch = batch /\ new.due = job.due
      /\ JobShaped(new)
  BY <1>2, <1>3 DEF MigInv, JobTyped, JobShaped, JobPcs, MigratePcs
<1> HIDE DEF new, c, d
<1>7. JobTyped(new)
  BY <1>1, <1>3, <1>4, <1>6 DEF MigInv, JobTyped, Copying, c
<1>8. Earning'
  <2>1. ASSUME quiet, ~new.failed, ~new.dry, new.skipped = 0
        PROVE  /\ \A e \in new.target \ new.todo : e # new.coll => Copied(e)
               /\ DOMAIN batch \subseteq Documents(c) /\ \A k \in DOMAIN batch : batch[k] = RowOf(mongo[c][k])
               /\ \A k \in new.seen \ DOMAIN batch : Told(c, k)
               /\ new.due = Documents(c)
    <3>1. /\ \A e \in job.target \ job.todo : e # c => Copied(e)
          /\ DOMAIN job.batch \subseteq Documents(c)
          /\ \A k \in DOMAIN job.batch : job.batch[k] = RowOf(mongo[c][k])
          /\ \A k \in job.seen \ DOMAIN job.batch : Told(c, k)
          /\ job.due = Documents(c)
      BY <1>1, <1>2, <1>6, <2>1 DEF MigInv, Earning, MigratePcs, HalfCopied, c
    <3>2. d.shape # "odd"
      BY <1>2, <1>6, <2>1
    <3> QED
      BY <3>1, <3>2, <1>1, <1>5, <1>6 DEF d
  <2>2. \A e : /\ (Copied(e)' <=> Copied(e)) /\ Documents(e)' = Documents(e)
             /\ \A k : (Told(e, k)' <=> Told(e, k)) /\ RowOf(mongo[e][k])' = RowOf(mongo[e][k])
    BY <1>1, SameTables
  <2> QED
    BY <1>1, <1>3, <1>6, <2>1, <2>2 DEF Earning, HalfCopied, VerifyPcs
<1> QED
  BY <1>1, <1>7, <1>8, NextRunning, SameTyped DEF MigInv

LEMMA NextEndCursor == ASSUME MigInv, EndCursor PROVE MigInv'
<1> DEFINE c == job.coll
           pc == IF job.batch = << >> THEN "next" ELSE "last"
           new == [job EXCEPT !.pc = pc]
<1>1. /\ job.pc = "read" /\ job.due \cap Documents(c) \subseteq job.seen /\ job' = new
      /\ UNCHANGED <<mongo, pg, verdict, host, hosts, quiet>>
  BY DEF EndCursor, Runs
<1>2. pc \in {"next", "last"} /\ (pc = "next" => DOMAIN job.batch = {})
  BY NoBatch
<1> HIDE DEF pc
<1>3. /\ new.pc = pc /\ new.coll = c /\ new.seen = job.seen /\ new.todo = job.todo
      /\ new.target = job.target /\ new.dry = job.dry /\ new.skipped = job.skipped
      /\ new.failed = job.failed /\ new.batch = job.batch
      /\ JobShaped(new)
  BY <1>2 DEF MigInv, JobTyped, JobShaped, JobPcs, MigratePcs
<1> HIDE DEF new, c
<1>4. JobTyped(new)
  BY <1>1, <1>3 DEF MigInv, JobTyped, Copying, c
<1>5. Earning'
  <2>1. ASSUME quiet, ~new.failed, ~new.dry, new.skipped = 0
        PROVE  /\ \A e \in job.target \ job.todo : e # c => Copied(e)
               /\ DOMAIN job.batch \subseteq Documents(c)
               /\ \A k \in DOMAIN job.batch : job.batch[k] = RowOf(mongo[c][k])
               /\ \A k \in job.seen \ DOMAIN job.batch : Told(c, k)
               /\ Documents(c) \subseteq job.seen
    BY <1>1, <1>3, <2>1 DEF MigInv, Earning, MigratePcs, HalfCopied, c
  <2>2. ASSUME quiet, ~new.failed, ~new.dry, new.skipped = 0, pc = "next" PROVE Copied(c)
    BY <1>2, <2>1, <2>2 DEF Copied
  <2>3. \A e : /\ (Copied(e)' <=> Copied(e)) /\ Documents(e)' = Documents(e)
             /\ \A k : (Told(e, k)' <=> Told(e, k)) /\ RowOf(mongo[e][k])' = RowOf(mongo[e][k])
    BY <1>1, SameTables
  <2> QED
    BY <1>1, <1>2, <1>3, <2>1, <2>2, <2>3 DEF Earning, HalfCopied, VerifyPcs
<1> QED
  BY <1>1, <1>4, <1>5, NextRunning, SameTyped DEF MigInv

LEMMA NextFlush == ASSUME MigInv, Origins, FlushBatch PROVE MigInv'
<1>0. PICK c : c = job.coll
  OBVIOUS
<1> DEFINE refused == ~job.dry /\ \E i \in DOMAIN job.batch : job.batch[i].null
           done == IF refused THEN job.migrated ELSE job.migrated + Cardinality(DOMAIN job.batch)
           pc == IF refused \/ Runs("last") THEN "next" ELSE "read"
           new == [job EXCEPT !.batch = << >>, !.failed = @ \/ refused, !.migrated = done, !.pc = pc]
<1>1. /\ job.pc \in {"flush", "last"} /\ job' = new /\ UNCHANGED <<mongo, verdict, host, hosts, quiet>>
      /\ pg' = IF job.dry \/ refused THEN pg ELSE [pg EXCEPT ![c] = Upserted(@, job.batch)]
  BY <1>0 DEF FlushBatch
<1>2. pc \in {"next", "read"} /\ (~refused => (pc = "next" <=> job.pc = "last"))
  BY <1>1 DEF Runs
<1>3. refused \in BOOLEAN
  OBVIOUS
<1> HIDE DEF pc, refused, done
<1>4. /\ new.pc = pc /\ new.coll = c /\ new.seen = job.seen /\ new.todo = job.todo
      /\ new.target = job.target /\ new.dry = job.dry /\ new.skipped = job.skipped
      /\ new.failed = (job.failed \/ refused) /\ new.batch = << >> /\ new.due = job.due
      /\ JobShaped(new)
  BY <1>0, <1>2, <1>3 DEF MigInv, JobTyped, JobShaped, JobPcs, MigratePcs
<1> HIDE DEF new
<1>5. JobTyped(new)
  BY <1>0, <1>1, <1>2, <1>4, NoBatch DEF MigInv, JobTyped, Copying
<1>6. c \in Collection /\ c \in job.target \ job.todo
  BY <1>0, <1>1 DEF MigInv, JobTyped, JobShaped, Copying
<1>7. TablesTyped'
  <2>1. IsFiniteSet(DOMAIN Upserted(pg[c], job.batch))
    BY <1>6, UpsertedIsFinite DEF MigInv, TablesTyped, JobTyped
  <2> QED
    BY <1>1, <2>1 DEF MigInv, TablesTyped
<1>8. Earning'
  <2>1. ASSUME quiet, ~new.failed, ~new.dry, new.skipped = 0
        PROVE  /\ \A e \in job.target \ job.todo : e # c => Copied(e)'
               /\ \A i \in job.seen : Told(c, i)'
               /\ job.pc = "flush" => job.due = Documents(c)
               /\ job.pc = "last" => Documents(c) \subseteq job.seen
    <3>1. /\ \A e \in job.target \ job.todo : e # c => Copied(e)
          /\ DOMAIN job.batch \subseteq Documents(c)
          /\ \A k \in DOMAIN job.batch : job.batch[k] = RowOf(mongo[c][k])
          /\ \A k \in job.seen \ DOMAIN job.batch : Told(c, k)
          /\ job.pc = "flush" => job.due = Documents(c)
          /\ job.pc = "last" => Documents(c) \subseteq job.seen
      BY <1>0, <1>1, <1>4, <2>1 DEF MigInv, Earning, MigratePcs, HalfCopied
    <3>2. pg' = [pg EXCEPT ![c] = Upserted(pg[c], job.batch)]
      BY <1>1, <1>4, <2>1
    <3>3. pg'[c] = Upserted(pg[c], job.batch) /\ \A e \in Collection \ {c} : pg'[e] = pg[e]
      BY <1>6, <3>2 DEF MigInv, TablesTyped
    <3>4. ASSUME NEW e \in job.target \ job.todo, e # c PROVE Copied(e)'
      <4>1. e \in Collection
        BY DEF MigInv, JobTyped, JobShaped
      <4>2. pg'[e] = pg[e] /\ mongo' = mongo
        BY <1>1, <3>3, <3>4, <4>1
      <4> QED
        BY <1>1, <3>1, <3>4, <4>2 DEF Copied, Told, Says, RowOf, Documents
    <3>5. ASSUME NEW i \in job.seen PROVE Told(c, i)'
      <4>1. /\ DOMAIN pg'[c] = DOMAIN pg[c] \cup DOMAIN job.batch
            /\ \A x \in DOMAIN job.batch \cap DOMAIN pg[c] :
                 pg'[c][x] = [job.batch[x] EXCEPT !.born = pg[c][x].born]
            /\ \A x \in DOMAIN job.batch \ DOMAIN pg[c] : pg'[c][x] = job.batch[x]
            /\ \A x \in DOMAIN pg[c] \ DOMAIN job.batch : pg'[c][x] = pg[c][x]
        <5> DEFINE table == Upserted(pg[c], job.batch)
        <5>1. /\ DOMAIN table = DOMAIN pg[c] \cup DOMAIN job.batch
              /\ \A x \in DOMAIN job.batch \cap DOMAIN pg[c] :
                   table[x] = [job.batch[x] EXCEPT !.born = pg[c][x].born]
              /\ \A x \in DOMAIN job.batch \ DOMAIN pg[c] : table[x] = job.batch[x]
              /\ \A x \in DOMAIN pg[c] \ DOMAIN job.batch : table[x] = pg[c][x]
          BY UpsertedIs
        <5>2. pg'[c] = table
          BY <3>3
        <5> HIDE DEF table
        <5> QED
          BY <5>1, <5>2
      <4>2. host \in hosts
        BY <1>1, <1>4, <2>1 DEF Origins, MigratePcs
      <4>3. \A row, d : Says(row, d)' <=> Says(row, d)
        BY <1>1 DEF Says, RowOf
      <4>4. CASE i \in DOMAIN job.batch
        <5>1. job.batch[i] = RowOf(mongo[c][i])
          BY <3>1, <4>4
        <5>2. CASE i \in DOMAIN pg[c]
          <6>1. pg[c][i].born \in hosts
            BY <1>6, <5>2 DEF Origins
          <6>2. pg'[c][i] = [RowOf(mongo[c][i]) EXCEPT !.born = pg[c][i].born]
            BY <4>1, <4>4, <5>1, <5>2
          <6>3. Says(pg'[c][i], mongo[c][i])
            BY <4>2, <6>1, <6>2, RowsSay
          <6> QED
            BY <1>1, <4>1, <4>3, <4>4, <6>3 DEF Told
        <5>3. CASE i \notin DOMAIN pg[c]
          <6>1. pg'[c][i] = RowOf(mongo[c][i])
            BY <4>1, <4>4, <5>1, <5>3
          <6>2. Says(pg'[c][i], mongo[c][i])
            BY <4>2, <6>1, RowsSay
          <6> QED
            BY <1>1, <4>1, <4>3, <4>4, <6>2 DEF Told
        <5> QED
          BY <5>2, <5>3
      <4>5. CASE i \notin DOMAIN job.batch
        BY <1>1, <3>1, <4>1, <4>3, <4>5 DEF Told
      <4> QED
        BY <4>4, <4>5
    <3> QED
      BY <3>1, <3>4, <3>5
  <2>2. \A e : Documents(e)' = Documents(e)
    BY <1>1 DEF Documents
  <2>3. ASSUME quiet, ~new.failed, ~new.dry, new.skipped = 0, pc = "next" PROVE Copied(c)'
    BY <1>1, <1>2, <1>4, <2>1, <2>2, <2>3 DEF Copied
  <2> QED
    BY <1>1, <1>2, <1>4, <2>1, <2>2, <2>3, NoBatch DEF Earning, HalfCopied, VerifyPcs
<1> QED
  BY <1>1, <1>5, <1>7, <1>8, NextRunning DEF MigInv

\* An exception, or a step of the verification that finds a failure.
LEMMA NextRaises == ASSUME MigInv, MigrationRaises \/ VerificationRaises PROVE MigInv'
<1>1. /\ job.pc # "off" /\ UNCHANGED <<mongo, pg, verdict, host, hosts, quiet>>
  BY DEF MigrationRaises, VerificationRaises
<1>2. JobTyped(job') /\ job'.failed
  <2> DEFINE new == [job EXCEPT !.pc = "next", !.failed = TRUE, !.batch = << >>]
             other == [job EXCEPT !.pc = "vnext", !.due = {}, !.failed = TRUE]
  <2>1. job' = new \/ job' = other
    BY DEF MigrationRaises, VerificationRaises
  <2>2. /\ new.pc = "next" /\ new.failed /\ new.batch = << >> /\ new.todo = job.todo /\ new.target = job.target
        /\ JobShaped(new)
    BY DEF MigInv, JobTyped, JobShaped, JobPcs, MigratePcs
  <2>3. /\ other.pc = "vnext" /\ other.failed /\ other.batch = job.batch
        /\ other.todo = job.todo /\ other.target = job.target /\ JobShaped(other)
    BY DEF MigInv, JobTyped, JobShaped, JobPcs, VerifyPcs
  <2> HIDE DEF new, other
  <2> QED
    BY <2>1, <2>2, <2>3, NoBatch DEF MigInv, JobTyped, Copying, Comparing
<1> QED
  BY <1>1, <1>2, NextRunning, SameTyped DEF MigInv, Earning

\* A script ends, with a verdict.
LEMMA NextVerdict == ASSUME MigInv, EndMigration \/ EndVerification PROVE MigInv'
<1>1. /\ job.todo = {} /\ job' = NoJob /\ UNCHANGED <<mongo, pg, host, hosts, quiet>>
  BY DEF EndMigration, EndVerification
<1>2. NoJob.pc = "off" /\ JobTyped(NoJob)
  BY NoJobIsTyped
<1>3. Earning'
  BY <1>1, <1>2 DEF Earning, MigratePcs, VerifyPcs
<1>4. VerdictsAreEarned'
  <2>1. \A c : (Copied(c)' <=> Copied(c)) /\ (Compared(c)' <=> Compared(c))
    BY <1>1, SameTables
  <2>2. CASE EndMigration
    <3> DEFINE of == IF job.dry THEN "dry run" ELSE "migration"
    <3>1. /\ job.pc = "next" /\ verdict'.of = of /\ verdict'.target = job.target
          /\ verdict'.ok = ~job.failed /\ verdict'.skipped = job.skipped
      BY <2>2 DEF EndMigration, Runs
    <3>2. ASSUME verdict'.ok, quiet', NEW c \in verdict'.target, of = "migration", verdict'.skipped = 0
          PROVE  Copied(c)'
      BY <1>1, <2>1, <3>1, <3>2 DEF MigInv, Earning, MigratePcs
    <3>3. of \in {"dry run", "migration"}
      OBVIOUS
    <3> HIDE DEF of
    <3> QED
      BY <3>1, <3>2, <3>3 DEF VerdictsAreEarned, Copied, Told
  <2>3. CASE EndVerification
    <3>1. /\ job.pc = "vnext" /\ verdict'.of = "verification" /\ verdict'.target = job.target
          /\ verdict'.ok = ~job.failed
      BY <2>3 DEF EndVerification, Runs
    <3>2. ASSUME verdict'.ok, quiet', NEW c \in verdict'.target
          PROVE  /\ Cardinality(DOMAIN pg[c]) = Cardinality(Documents(c))
                 /\ Cardinality(Documents(c)) <= SpotSample =>
                      DOMAIN pg[c] = Documents(c) /\ \A i \in Documents(c) : pg[c][i].v = mongo[c][i].v
      <4>1. Compared(c)
        BY <1>1, <3>1, <3>2 DEF MigInv, Earning, VerifyPcs
      <4>2. IsFiniteSet(DOMAIN pg[c])
        BY <3>1, <3>2 DEF MigInv, JobTyped, JobShaped, TablesTyped
      <4>3. ASSUME Documents(c) \subseteq DOMAIN pg[c] PROVE DOMAIN pg[c] = Documents(c)
        BY <4>1, <4>2, <4>3, FS_Subset DEF Compared, SameNumber
      <4> QED
        BY <4>1, <4>3 DEF Compared, SameNumber, SameRow
    <3> QED
      BY <1>1, <3>1, <3>2 DEF VerdictsAreEarned, Documents
  <2> QED
    BY <2>2, <2>3
<1> QED
  BY <1>1, <1>2, <1>3, <1>4, SameTyped DEF MigInv

LEMMA NextKilled == ASSUME MigInv, Killed PROVE MigInv'
<1>1. job.pc # "off" /\ job' = NoJob /\ UNCHANGED <<mongo, pg, verdict, host, hosts, quiet>>
  BY DEF Killed, Runs
<1>2. NoJob.pc = "off" /\ JobTyped(NoJob)
  BY NoJobIsTyped
<1>3. Earning'
  BY <1>1, <1>2 DEF Earning, MigratePcs, VerifyPcs
<1> QED
  BY <1>1, <1>2, <1>3, NextRunning, SameTyped DEF MigInv

LEMMA NextAppWrite == ASSUME MigInv, NEW c \in Collection, OneWrite(c) PROVE MigInv'
<1>1. PICK docs : ApplicationWrites(c, docs) /\ IsFiniteSet(DOMAIN docs)
  <2>1. IsFiniteSet(DOMAIN mongo[c])
    BY DEF MigInv, TablesTyped
  <2>2. ASSUME NEW i \in Documents(c), ApplicationWrites(c, Restrict(mongo[c], Documents(c) \ {i}))
        PROVE  \E docs : ApplicationWrites(c, docs) /\ IsFiniteSet(DOMAIN docs)
    <3>1. DOMAIN Restrict(mongo[c], Documents(c) \ {i}) = Documents(c) \ {i}
      BY DEF Restrict
    <3>2. IsFiniteSet(Documents(c) \ {i})
      BY <2>1, FS_Subset DEF Documents
    <3> QED
      BY <2>2, <3>1, <3>2
  <2>3. ASSUME NEW i, NEW d, ApplicationWrites(c, With(mongo[c], [j \in {i} |-> d]))
        PROVE  \E docs : ApplicationWrites(c, docs) /\ IsFiniteSet(DOMAIN docs)
    <3> DEFINE row == [j \in {i} |-> d]
    <3>1. IsFiniteSet(DOMAIN row)
      BY FS_Singleton
    <3> HIDE DEF row
    <3>2. IsFiniteSet(DOMAIN With(mongo[c], row))
      BY <2>1, <3>1, WithIsFinite
    <3> QED
      BY <2>3, <3>2 DEF row
  <2> QED
    BY <2>2, <2>3 DEF OneWrite
<1>2. mongo' = [mongo EXCEPT ![c] = docs] /\ ~quiet' /\ UNCHANGED <<pg, job, verdict>>
  BY <1>1 DEF ApplicationWrites
<1>3. TablesTyped'
  BY <1>1, <1>2 DEF MigInv, TablesTyped
<1> QED
  BY <1>2, <1>3 DEF MigInv, Earning, VerdictsAreEarned

LEMMA NextCountMongo == ASSUME MigInv, NEW c \in Collection, CountMongo(c) PROVE MigInv'
<1> DEFINE n == Cardinality(Documents(c))
           new == [job EXCEPT !.pc = "vcount", !.todo = @ \ {c}, !.coll = c, !.counted = n]
<1>1. /\ job.pc = "vnext" /\ c \in job.todo /\ job' = new
      /\ UNCHANGED <<mongo, pg, verdict, host, hosts, quiet>>
  BY DEF CountMongo, Runs
<1>2. /\ new.pc = "vcount" /\ new.coll = c /\ new.todo = job.todo \ {c} /\ new.counted = n
      /\ new.target = job.target /\ new.failed = job.failed /\ new.batch = job.batch
      /\ JobShaped(new)
  BY DEF MigInv, JobTyped, JobShaped, JobPcs, VerifyPcs
<1> HIDE DEF new
<1>3. JobTyped(new)
  BY <1>1, <1>2 DEF MigInv, JobTyped
<1>4. Earning'
  <2>1. ASSUME quiet, ~new.failed
        PROVE  \A d \in new.target \ new.todo : d # new.coll => Compared(d)
    BY <1>1, <1>2, <2>1 DEF MigInv, Earning, VerifyPcs
  <2>2. \A d : (Compared(d)' <=> Compared(d)) /\ Documents(d)' = Documents(d)
    BY <1>1, SameTables
  <2> QED
    BY <1>1, <1>2, <2>1, <2>2 DEF Earning, HalfCompared, MigratePcs
<1> QED
  BY <1>1, <1>3, <1>4, NextRunning, SameTyped DEF MigInv

\* The other steps of a verification: it stays at its collection, or is done with it.
LEMMA NextCompares ==
  ASSUME MigInv, job.pc \in Comparing, UNCHANGED <<mongo, pg, verdict, host, hosts, quiet>>,
         NEW new, job' = new, JobShaped(new), new.pc \in {"vnext"} \cup Comparing,
         new.coll = job.coll, new.todo = job.todo, new.target = job.target, new.batch = job.batch,
         ~new.failed => ~job.failed,
         ~new.failed /\ HalfCompared => HalfCompared' /\ (new.pc = "vnext" => Compared(job.coll))
  PROVE  MigInv'
<1>1. JobTyped(new)
  BY DEF MigInv, JobTyped, Comparing
<1>2. \A c : Compared(c)' <=> Compared(c)
  BY SameTables
<1>3. Earning'
  <2>1. job.pc \in VerifyPcs /\ job.pc # "vnext" /\ new.pc \notin MigratePcs
    BY DEF Comparing, VerifyPcs, MigratePcs
  <2>2. ASSUME quiet, ~new.failed
        PROVE  /\ \A c \in job.target \ job.todo : c # job.coll => Compared(c)
               /\ HalfCompared
    BY <2>1, <2>2 DEF MigInv, Earning
  <2>3. ASSUME quiet, ~new.failed
        PROVE  /\ \A c \in new.target \ new.todo : c # new.coll \/ new.pc = "vnext" => Compared(c)'
               /\ HalfCompared'
    BY <1>2, <2>2, <2>3
  <2> HIDE DEF HalfCompared
  <2> QED
    BY <2>1, <2>3 DEF Earning
<1> QED
  BY <1>1, <1>3, NextRunning, SameTyped DEF MigInv, Comparing

LEMMA NextCountRows == ASSUME MigInv, CountRows PROVE MigInv'
<1> DEFINE wrong == job.counted # Cardinality(DOMAIN pg[job.coll])
           new == [job EXCEPT !.pc = "vsample", !.failed = @ \/ wrong]
<1>1. job.pc = "vcount" /\ job' = new /\ UNCHANGED <<mongo, pg, verdict, host, hosts, quiet>>
  BY DEF CountRows, Runs
<1>2. wrong \in BOOLEAN
  OBVIOUS
<1>3. ~wrong => job.counted = Cardinality(DOMAIN pg[job.coll])
  OBVIOUS
<1> HIDE DEF wrong
<1>4. /\ new.pc = "vsample" /\ new.coll = job.coll /\ new.todo = job.todo /\ new.target = job.target
      /\ new.batch = job.batch /\ new.failed = (job.failed \/ wrong) /\ JobShaped(new)
  BY <1>2 DEF MigInv, JobTyped, JobShaped, JobPcs, VerifyPcs
<1> HIDE DEF new
<1>5. \A c : SameNumber(c)' <=> SameNumber(c)
  BY <1>1, SameTables
<1>6. ~new.failed /\ HalfCompared => HalfCompared' /\ (new.pc = "vnext" => Compared(job.coll))
  BY <1>1, <1>3, <1>4, <1>5 DEF HalfCompared, SameNumber
<1> QED
  BY <1>1, <1>4, <1>6, NextCompares DEF Comparing

LEMMA NextDraw == ASSUME MigInv, NEW I, DrawSample(I) PROVE MigInv'
<1>0. PICK c : c = job.coll
  OBVIOUS
<1> DEFINE new == [job EXCEPT !.pc = "vspot", !.due = I]
<1>1. /\ job.pc = "vsample" /\ job' = new /\ UNCHANGED <<mongo, pg, verdict, host, hosts, quiet>>
      /\ I \subseteq Documents(c)
      /\ Cardinality(I) = IF Cardinality(Documents(c)) < SpotSample THEN Cardinality(Documents(c)) ELSE SpotSample
  BY <1>0 DEF DrawSample, Runs
<1>2. /\ new.pc = "vspot" /\ new.coll = c /\ new.todo = job.todo /\ new.target = job.target
      /\ new.batch = job.batch /\ new.failed = job.failed /\ new.due = I /\ JobShaped(new)
  BY <1>0 DEF MigInv, JobTyped, JobShaped, JobPcs, VerifyPcs
<1> HIDE DEF new
<1>3. IsFiniteSet(Documents(c))
  BY <1>0, <1>1 DEF MigInv, JobTyped, JobShaped, TablesTyped, Comparing, Documents
<1>4. Cardinality(Documents(c)) \in Nat /\ SpotSample \in Nat
  BY <1>3, FS_CardinalityType, BatchesHaveRows
<1>5. Cardinality(Documents(c)) <= SpotSample => Cardinality(I) = Cardinality(Documents(c))
  BY <1>1, <1>4
<1>6. Cardinality(Documents(c)) <= SpotSample => I = Documents(c)
  BY <1>1, <1>3, <1>5, FS_Subset
<1>7. (SameNumber(c)' <=> SameNumber(c)) /\ Documents(c)' = Documents(c)
  BY <1>1, SameTables
<1>8. ~new.failed /\ HalfCompared => HalfCompared' /\ (new.pc = "vnext" => Compared(job.coll))
  BY <1>0, <1>1, <1>2, <1>6, <1>7 DEF HalfCompared
<1> QED
  BY <1>0, <1>1, <1>2, <1>8, NextCompares DEF Comparing

LEMMA NextSpot == ASSUME MigInv, NEW i, SpotCheck(i) PROVE MigInv'
<1>0. PICK c : c = job.coll
  OBVIOUS
<1> DEFINE sound == i \in Documents(c) /\ SameRow(c, i)
           new == [job EXCEPT !.due = @ \ {i}, !.failed = @ \/ ~sound]
<1>1. job.pc = "vspot" /\ job' = new /\ UNCHANGED <<mongo, pg, verdict, host, hosts, quiet>>
  BY <1>0 DEF SpotCheck, Runs, SameRow
<1>2. sound \in BOOLEAN /\ (sound => SameRow(c, i))
  BY DEF SameRow
<1> HIDE DEF sound
<1>3. /\ new.pc = "vspot" /\ new.coll = c /\ new.todo = job.todo /\ new.target = job.target
      /\ new.batch = job.batch /\ new.failed = (job.failed \/ ~sound) /\ new.due = job.due \ {i}
      /\ JobShaped(new)
  BY <1>0, <1>1, <1>2 DEF MigInv, JobTyped, JobShaped, JobPcs, VerifyPcs
<1> HIDE DEF new
<1>4. /\ (SameNumber(c)' <=> SameNumber(c)) /\ Documents(c)' = Documents(c)
      /\ \A k : SameRow(c, k)' <=> SameRow(c, k)
  BY <1>1, SameTables
<1>5. ~new.failed /\ HalfCompared => HalfCompared' /\ (new.pc = "vnext" => Compared(job.coll))
  BY <1>0, <1>1, <1>2, <1>3, <1>4 DEF HalfCompared
<1> QED
  BY <1>0, <1>1, <1>3, <1>5, NextCompares DEF Comparing

LEMMA NextEndCollection == ASSUME MigInv, EndCollection PROVE MigInv'
<1> DEFINE new == [job EXCEPT !.pc = "vnext"]
<1>1. job.pc = "vspot" /\ job.due = {} /\ job' = new /\ UNCHANGED <<mongo, pg, verdict, host, hosts, quiet>>
  BY DEF EndCollection, Runs
<1>2. /\ new.pc = "vnext" /\ new.coll = job.coll /\ new.todo = job.todo /\ new.target = job.target
      /\ new.batch = job.batch /\ new.failed = job.failed /\ JobShaped(new)
  BY DEF MigInv, JobTyped, JobShaped, JobPcs, VerifyPcs
<1> HIDE DEF new
<1>3. ~new.failed /\ HalfCompared => HalfCompared' /\ (new.pc = "vnext" => Compared(job.coll))
  BY <1>1, <1>2 DEF HalfCompared, Compared
<1> QED
  BY <1>1, <1>2, <1>3, NextCompares DEF Comparing

LEMMA NextMig == MigInv /\ Origins /\ [MigrationNext]_migVars => MigInv'
<1> SUFFICES ASSUME MigInv, Origins, [MigrationNext]_migVars PROVE MigInv' OBVIOUS
<1>1. CASE UNCHANGED migVars
  <2>1. \A c : /\ (Copied(c)' <=> Copied(c)) /\ (Compared(c)' <=> Compared(c))
             /\ Documents(c)' = Documents(c)
             /\ \A i : /\ (Told(c, i)' <=> Told(c, i)) /\ (SameRow(c, i)' <=> SameRow(c, i))
                      /\ RowOf(mongo[c][i])' = RowOf(mongo[c][i])
    BY <1>1, SameTables DEF migVars
  <2>2. HalfCopied' <=> HalfCopied
    BY <1>1, <2>1 DEF migVars, HalfCopied
  <2>3. HalfCompared' <=> HalfCompared
    BY <1>1, <2>1 DEF migVars, HalfCompared, SameNumber
  <2>4. Earning'
    BY <1>1, <2>1, <2>2, <2>3 DEF migVars, MigInv, Earning
  <2>5. VerdictsAreEarned'
    BY <1>1 DEF migVars, MigInv, VerdictsAreEarned, Documents, Says, RowOf
  <2> QED
    BY <1>1, <2>4, <2>5 DEF migVars, MigInv, JobTyped, TablesTyped
<1>2. ASSUME NEW t \in Targets, NEW dry \in BOOLEAN, NEW zone \in Zone,
             StartMigration(t, dry, zone) \/ StartVerification(t)
      PROVE  MigInv'
  <2>1. t \in SUBSET Collection
    BY DEF Targets
  <2> QED
    BY <1>2, <2>1, NextStartJob
<1>3. ASSUME NEW c \in Collection, CountCollection(c) \/ CountMongo(c) \/ OneWrite(c) PROVE MigInv'
  BY <1>3, NextCount, NextCountMongo, NextAppWrite
<1>4. ASSUME NEW i \in DocId, ReadDocument(i) \/ SpotCheck(i) PROVE MigInv'
  BY <1>4, NextReadDocument, NextSpot
<1>5. CASE OpenCursor \/ EndCursor \/ FlushBatch \/ MigrationRaises \/ EndMigration
  BY <1>5, NextOpenCursor, NextEndCursor, NextFlush, NextRaises, NextVerdict
<1>6. CASE CountRows \/ EndCollection \/ VerificationRaises \/ EndVerification \/ Killed
  BY <1>6, NextCountRows, NextEndCollection, NextRaises, NextVerdict, NextKilled
<1>7. ASSUME NEW I \in SUBSET DocId, DrawSample(I) PROVE MigInv'
  BY <1>7, NextDraw
<1>8. ASSUME NEW t \in Targets, StartVerification(t) PROVE MigInv'
  BY <1>2, <1>8, UtcIsAZone
<1> QED
  BY <1>1, <1>2, <1>3, <1>4, <1>5, <1>6, <1>7, <1>8 DEF MigrationNext

-----------------------------------------------------------------------------
(* Migration: the types *)

\* What a script holds: rows of what the cursor has given, no more of them than a
\* batch has, and a count of the others that it has written or left out.
JobFits(j) ==
  /\ j.seen \subseteq DocId /\ IsFiniteSet(j.seen) /\ DOMAIN j.batch \subseteq j.seen
  /\ \A i \in DOMAIN j.batch : j.batch[i] \in Row
  /\ j.counted \in Nat /\ j.migrated \in Nat
  /\ j.migrated + Cardinality(DOMAIN j.batch) <= Cardinality(j.seen)
  /\ Cardinality(DOMAIN j.batch) <= BatchSize
  /\ j.pc = "read" => Cardinality(DOMAIN j.batch) < BatchSize
  /\ j.pc \in {"off", "next", "find"} => DOMAIN j.batch = {}

TableFits(table) == DOMAIN table \subseteq DocId /\ \A i \in DOMAIN table : table[i] \in Row /\ ~table[i].null
ContentFits(docs) == DOMAIN docs \subseteq DocId /\ \A i \in DOMAIN docs : docs[i] \in MongoDocs

MigBounds ==
  /\ JobFits(job)
  /\ \A c \in Collection : ContentFits(mongo[c]) /\ TableFits(pg[c])
  /\ host \in Zone /\ hosts \subseteq Zone

LEMMA NoJobFits == JobFits(NoJob)
<1> DEFINE first == CHOOSE c \in Collection : TRUE
           none == [pc |-> "off", target |-> {}, todo |-> {}, coll |-> first,
                    dry |-> FALSE, due |-> {}, seen |-> {}, batch |-> << >>, counted |-> 0,
                    migrated |-> 0, skipped |-> 0, failed |-> FALSE]
<1>1. NoJob = none
  BY DEF NoJob
<1> HIDE DEF first
<1>2. /\ none.pc = "off" /\ none.batch = << >> /\ none.seen = {} /\ none.counted = 0
      /\ none.migrated = 0
  OBVIOUS
<1> HIDE DEF none
<1>3. IsFiniteSet({}) /\ Cardinality({}) = 0
  BY FS_EmptySet
<1> QED
  BY <1>1, <1>2, <1>3, NoBatch, BatchesHaveRows DEF JobFits

LEMMA InitMigBounds == MigrationInit => MigBounds
<1> SUFFICES ASSUME MigrationInit PROVE MigBounds OBVIOUS
<1>1. ASSUME NEW c \in Collection PROVE ContentFits(mongo[c]) /\ TableFits(pg[c])
  BY <1>1, ContentsAreFinite, NoBatch DEF MigrationInit, ContentFits, TableFits
<1> QED
  BY <1>1, NoJobFits, UtcIsAZone DEF MigrationInit, MigBounds

\* A script moves: the tables stay.
LEMMA NextJobFits ==
  ASSUME MigBounds, UNCHANGED <<mongo, pg, host, hosts>>, JobFits(job') PROVE MigBounds'
  BY DEF MigBounds

\* It moves without the batch.
LEMMA SameBatchFits ==
  ASSUME NEW j, NEW new, JobFits(j), new.seen = j.seen, new.batch = j.batch, new.migrated = j.migrated,
         new.counted \in Nat, new.pc # "read",
         new.pc \in {"off", "next", "find"} => DOMAIN j.batch = {}
  PROVE  JobFits(new)
  BY DEF JobFits

\* Or throws it away.
LEMMA NoBatchFits ==
  ASSUME NEW j, NEW new, JobFits(j), new.seen = j.seen, DOMAIN new.batch = {}, new.counted \in Nat,
         new.migrated \in Nat, new.migrated <= Cardinality(j.seen)
  PROVE  JobFits(new)
  BY FS_EmptySet, BatchesHaveRows DEF JobFits

LEMMA BatchIsCounted ==
  ASSUME NEW j, JobTyped(j), JobFits(j)
  PROVE  /\ Cardinality(DOMAIN j.batch) \in Nat /\ Cardinality(j.seen) \in Nat
         /\ j.migrated <= Cardinality(j.seen)
<1>1. Cardinality(DOMAIN j.batch) \in Nat /\ Cardinality(j.seen) \in Nat
  BY FS_CardinalityType DEF JobTyped, JobFits
<1> QED
  BY <1>1 DEF JobFits

LEMMA FitsStart ==
  ASSUME MigInv, MigBounds, NEW t, NEW dry, NEW zone \in Zone,
         StartMigration(t, dry, zone) \/ StartVerification(t)
  PROVE  MigBounds'
<1> DEFINE new == [NoJob EXCEPT !.pc = "next", !.target = t, !.todo = t, !.dry = dry]
           other == [NoJob EXCEPT !.pc = "vnext", !.target = t, !.todo = t]
<1>1. (job' = new \/ job' = other) /\ UNCHANGED <<mongo, pg>>
  BY DEF StartMigration, StartVerification
<1>2. JobTyped(NoJob) /\ JobFits(NoJob) /\ NoJob.pc = "off"
  BY NoJobIsTyped, NoJobFits
<1>3. /\ new.seen = NoJob.seen /\ new.batch = NoJob.batch /\ new.migrated = NoJob.migrated
      /\ new.counted = NoJob.counted /\ new.pc = "next"
  BY <1>2 DEF JobTyped, JobShaped
<1>4. /\ other.seen = NoJob.seen /\ other.batch = NoJob.batch /\ other.migrated = NoJob.migrated
      /\ other.counted = NoJob.counted /\ other.pc = "vnext"
  BY <1>2 DEF JobTyped, JobShaped
<1> HIDE DEF new, other
<1>5. JobFits(new) /\ JobFits(other)
  BY <1>2, <1>3, <1>4 DEF JobFits
<1>6. host' \in Zone /\ hosts' \subseteq Zone
  BY DEF StartMigration, StartVerification, MigBounds
<1> QED
  BY <1>1, <1>5, <1>6 DEF MigBounds

LEMMA FitsCount ==
  ASSUME MigInv, MigBounds, NEW c \in Collection, CountCollection(c) \/ CountMongo(c)
  PROVE  MigBounds'
<1>1. JobFits(job) /\ UNCHANGED <<mongo, pg, host, hosts>>
  BY DEF MigBounds, CountCollection, CountMongo
<1>2. Cardinality(Documents(c)) \in Nat
  BY FS_CardinalityType DEF MigInv, TablesTyped, Documents
<1>3. CASE CountCollection(c)
  <2> DEFINE size == Cardinality(Documents(c))
             pc == IF Documents(c) = {} THEN "next" ELSE "find"
             new == [job EXCEPT !.todo = @ \ {c}, !.coll = c, !.seen = {}, !.counted = size,
                                !.migrated = 0, !.pc = pc]
  <2>1. job' = new /\ job.pc = "next"
    BY <1>3 DEF CountCollection, Runs
  <2>2. /\ new.seen = {} /\ new.batch = job.batch /\ new.migrated = 0 /\ new.counted = size
        /\ new.pc = pc
    BY DEF MigInv, JobTyped, JobShaped
  <2>3. pc \in {"next", "find"} /\ size \in Nat
    BY <1>2
  <2> HIDE DEF new, pc, size
  <2>4. DOMAIN job.batch = {}
    BY <1>1, <2>1 DEF JobFits
  <2>5. JobFits(new)
    BY <2>2, <2>3, <2>4, FS_EmptySet, BatchesHaveRows DEF JobFits
  <2> QED
    BY <1>1, <2>1, <2>5, NextJobFits
<1>4. CASE CountMongo(c)
  <2> DEFINE size == Cardinality(Documents(c))
             new == [job EXCEPT !.pc = "vcount", !.todo = @ \ {c}, !.coll = c, !.counted = size]
  <2>1. job' = new
    BY <1>4 DEF CountMongo
  <2>2. /\ new.seen = job.seen /\ new.batch = job.batch /\ new.migrated = job.migrated
        /\ new.counted = size /\ new.pc = "vcount"
    BY DEF MigInv, JobTyped, JobShaped
  <2> HIDE DEF new
  <2>3. JobFits(new)
    BY <1>1, <1>2, <2>2, SameBatchFits
  <2> QED
    BY <1>1, <2>1, <2>3, NextJobFits
<1> QED
  BY <1>3, <1>4

LEMMA FitsOpen == ASSUME MigInv, MigBounds, OpenCursor PROVE MigBounds'
<1> DEFINE due == Documents(job.coll)
           new == [job EXCEPT !.pc = "read", !.due = due, !.batch = << >>]
<1>1. job' = new /\ UNCHANGED <<mongo, pg, host, hosts>> /\ JobFits(job) /\ JobTyped(job)
  BY DEF OpenCursor, MigBounds, MigInv
<1>2. /\ new.seen = job.seen /\ new.batch = << >> /\ new.migrated = job.migrated
      /\ new.counted = job.counted
  BY DEF MigInv, JobTyped, JobShaped
<1> HIDE DEF new
<1>3. JobFits(new)
  BY <1>1, <1>2, NoBatch, NoBatchFits, BatchIsCounted DEF JobFits
<1> QED
  BY <1>1, <1>3, NextJobFits

\* A document that the cursor gives is counted as seen, and its row is one more in
\* the batch, at most.
LEMMA FitsRead == ASSUME MigInv, MigBounds, NEW i, ReadDocument(i) PROVE MigBounds'
<1> DEFINE c == job.coll
           d == mongo[c][i]
           row == [k \in {i} |-> RowOf(d)]
           batch == IF d.shape = "odd" THEN job.batch ELSE With(job.batch, row)
           pc == IF Cardinality(DOMAIN batch) >= BatchSize THEN "flush" ELSE "read"
           more == job.skipped + IF d.shape = "odd" THEN 1 ELSE 0
           new == [job EXCEPT !.seen = @ \cup {i}, !.batch = batch, !.skipped = more, !.pc = pc]
<1>1. /\ job.pc = "read" /\ i \in Documents(c) /\ i \notin job.seen /\ job' = new
      /\ UNCHANGED <<mongo, pg, host, hosts>> /\ JobFits(job) /\ JobTyped(job)
  BY DEF ReadDocument, Runs, MigBounds, MigInv
<1>2. c \in Collection
  BY <1>1 DEF JobTyped, JobShaped, Copying
<1>3. d \in MongoDocs /\ i \in DocId
  BY <1>1, <1>2 DEF MigBounds, ContentFits, Documents
<1>4. RowOf(d) \in Row
  BY <1>3 DEF RowOf, Row, MigBounds
<1>5. /\ DOMAIN batch \subseteq DOMAIN job.batch \cup {i}
      /\ \A k \in DOMAIN batch : batch[k] \in Row
  <2>1. DOMAIN row = {i} /\ row[i] = RowOf(d)
    OBVIOUS
  <2> HIDE DEF row
  <2>2. /\ DOMAIN With(job.batch, row) = DOMAIN job.batch \cup DOMAIN row
        /\ \A x \in DOMAIN row : With(job.batch, row)[x] = row[x]
        /\ \A x \in DOMAIN job.batch \ DOMAIN row : With(job.batch, row)[x] = job.batch[x]
    BY WithIs
  <2>3. CASE d.shape = "odd"
    BY <1>1, <2>3 DEF JobFits
  <2>4. CASE d.shape # "odd"
    <3>1. batch = With(job.batch, row)
      BY <2>4
    <3> HIDE DEF batch
    <3> QED
      BY <1>1, <1>4, <2>1, <2>2, <3>1 DEF JobFits
  <2> QED
    BY <2>3, <2>4
<1>6. pc \in {"read", "flush"} /\ (pc = "read" => ~(Cardinality(DOMAIN batch) >= BatchSize))
  OBVIOUS
<1>7. /\ new.seen = job.seen \cup {i} /\ new.batch = batch /\ new.migrated = job.migrated
      /\ new.counted = job.counted /\ new.pc = pc
  BY <1>1 DEF JobTyped, JobShaped
<1> HIDE DEF new, batch, row, pc, more, d, c
<1>8. /\ IsFiniteSet(job.seen \cup {i}) /\ Cardinality(job.seen \cup {i}) = Cardinality(job.seen) + 1
  BY <1>1, FS_AddElement DEF JobFits
<1>9. /\ IsFiniteSet(DOMAIN job.batch \cup {i})
      /\ Cardinality(DOMAIN job.batch \cup {i}) <= Cardinality(DOMAIN job.batch) + 1
      /\ Cardinality(DOMAIN job.batch) \in Nat /\ Cardinality(job.seen) \in Nat
  <2>1. IsFiniteSet(DOMAIN job.batch)
    BY <1>1 DEF JobTyped
  <2>2. Cardinality(DOMAIN job.batch) \in Nat /\ Cardinality(job.seen) \in Nat
    BY <1>1, BatchIsCounted
  <2> DEFINE before == DOMAIN job.batch
  <2>3. IsFiniteSet(before \cup {i}) /\ Cardinality(before \cup {i}) =
          IF i \in before THEN Cardinality(before) ELSE Cardinality(before) + 1
    <3> HIDE DEF before
    <3> QED
      BY <2>1, FS_AddElement DEF before
  <2> QED
    BY <2>2, <2>3
<1>10. /\ Cardinality(DOMAIN batch) \in Nat
       /\ Cardinality(DOMAIN batch) <= Cardinality(DOMAIN job.batch) + 1
  <2>1. IsFiniteSet(DOMAIN batch) /\ Cardinality(DOMAIN batch) <= Cardinality(DOMAIN job.batch \cup {i})
    BY <1>5, <1>9, FS_Subset
  <2>2. Cardinality(DOMAIN batch) \in Nat
    BY <2>1, FS_CardinalityType
  <2>3. Cardinality(DOMAIN job.batch \cup {i}) \in Nat
    BY <1>9, FS_CardinalityType
  <2> QED
    BY <1>9, <2>1, <2>2, <2>3
<1>11. JobFits(new)
  <2>1. /\ new.seen \subseteq DocId /\ IsFiniteSet(new.seen) /\ DOMAIN new.batch \subseteq new.seen
        /\ \A k \in DOMAIN new.batch : new.batch[k] \in Row
        /\ new.counted \in Nat /\ new.migrated \in Nat
    BY <1>1, <1>3, <1>5, <1>7, <1>8 DEF JobFits
  <2>2. /\ new.migrated + Cardinality(DOMAIN new.batch) <= Cardinality(new.seen)
        /\ Cardinality(DOMAIN new.batch) <= BatchSize
        /\ new.pc = "read" => Cardinality(DOMAIN new.batch) < BatchSize
    BY <1>1, <1>6, <1>7, <1>8, <1>9, <1>10, BatchesHaveRows DEF JobFits
  <2>3. new.pc \notin {"off", "next", "find"}
    BY <1>6, <1>7
  <2> QED
    BY <2>1, <2>2, <2>3 DEF JobFits
<1> QED
  BY <1>1, <1>11, NextJobFits

LEMMA FitsEndCursor == ASSUME MigInv, MigBounds, EndCursor PROVE MigBounds'
<1> DEFINE pc == IF job.batch = << >> THEN "next" ELSE "last"
           new == [job EXCEPT !.pc = pc]
<1>1. job' = new /\ UNCHANGED <<mongo, pg, host, hosts>> /\ JobFits(job) /\ JobTyped(job)
  BY DEF EndCursor, MigBounds, MigInv
<1>2. pc \in {"next", "last"} /\ (pc = "next" => DOMAIN job.batch = {})
  BY NoBatch
<1>3. /\ new.seen = job.seen /\ new.batch = job.batch /\ new.migrated = job.migrated
      /\ new.counted = job.counted /\ new.pc = pc
  BY <1>1 DEF JobTyped, JobShaped
<1> HIDE DEF new, pc
<1>4. JobFits(new)
  BY <1>1, <1>2, <1>3, SameBatchFits DEF JobFits
<1> QED
  BY <1>1, <1>4, NextJobFits

\* A row with another created_at.
LEMMA RowsKeep ==
  ASSUME NEW row \in Row, NEW z
  PROVE  LET new == [row EXCEPT !.born = z] IN
         new.born = z /\ new.null = row.null /\ (z \in Zone => new \in Row)
  BY DEF Row

LEMMA FitsFlush == ASSUME MigInv, MigBounds, FlushBatch PROVE MigBounds'
<1>0. PICK c : c = job.coll
  OBVIOUS
<1> DEFINE refused == ~job.dry /\ \E i \in DOMAIN job.batch : job.batch[i].null
           done == IF refused THEN job.migrated ELSE job.migrated + Cardinality(DOMAIN job.batch)
           pc == IF refused \/ Runs("last") THEN "next" ELSE "read"
           failed == job.failed \/ refused
           new == [job EXCEPT !.batch = << >>, !.failed = failed, !.migrated = done, !.pc = pc]
<1>1. /\ job.pc \in {"flush", "last"} /\ job' = new /\ UNCHANGED <<mongo, host, hosts>>
      /\ pg' = IF job.dry \/ refused THEN pg ELSE [pg EXCEPT ![c] = Upserted(@, job.batch)]
      /\ JobFits(job) /\ JobTyped(job)
  BY <1>0 DEF FlushBatch, MigBounds, MigInv
<1>2. ~job.dry /\ ~refused => \A i \in DOMAIN job.batch : ~job.batch[i].null
  OBVIOUS
<1>3. done \in Nat /\ done <= Cardinality(job.seen)
  BY <1>1, BatchIsCounted DEF JobFits
<1>4. /\ new.seen = job.seen /\ new.batch = << >> /\ new.migrated = done /\ new.counted = job.counted
  BY <1>1 DEF JobTyped, JobShaped
<1> HIDE DEF new, pc, done, failed, refused
<1>5. JobFits(new)
  BY <1>1, <1>3, <1>4, NoBatch, NoBatchFits DEF JobFits
<1>6. ASSUME NEW e \in Collection PROVE TableFits(pg'[e])
  <2>1. CASE job.dry \/ refused \/ e # c
    <3>1. pg'[e] = pg[e]
      BY <1>1, <2>1 DEF MigInv, TablesTyped
    <3> QED
      BY <3>1 DEF MigBounds
  <2>2. CASE ~job.dry /\ ~refused /\ e = c
    <3> DEFINE table == Upserted(pg[c], job.batch)
    <3>1. pg'[e] = table
      BY <1>1, <2>2 DEF MigInv, TablesTyped
    <3>2. /\ DOMAIN table = DOMAIN pg[c] \cup DOMAIN job.batch
          /\ \A x \in DOMAIN job.batch \cap DOMAIN pg[c] :
               table[x] = [job.batch[x] EXCEPT !.born = pg[c][x].born]
          /\ \A x \in DOMAIN job.batch \ DOMAIN pg[c] : table[x] = job.batch[x]
          /\ \A x \in DOMAIN pg[c] \ DOMAIN job.batch : table[x] = pg[c][x]
      BY UpsertedIs
    <3> HIDE DEF table
    <3>3. TableFits(pg[c]) /\ DOMAIN job.batch \subseteq DocId
      BY <1>1, <2>2 DEF MigBounds, JobFits
    <3>4. \A x \in DOMAIN job.batch : job.batch[x] \in Row /\ ~job.batch[x].null
      BY <1>1, <1>2, <2>2 DEF JobFits
    <3>5. ASSUME NEW x \in DOMAIN table PROVE table[x] \in Row /\ ~table[x].null
      <4>1. CASE x \in DOMAIN job.batch \cap DOMAIN pg[c]
        <5>1. pg[c][x].born \in Zone
          BY <3>3, <4>1 DEF TableFits, Row
        <5>2. table[x] = [job.batch[x] EXCEPT !.born = pg[c][x].born]
          BY <3>2, <4>1
        <5>3. job.batch[x] \in Row /\ ~job.batch[x].null
          BY <3>4, <4>1
        <5> QED
          BY <5>1, <5>2, <5>3, RowsKeep
      <4>2. CASE x \notin DOMAIN job.batch \cap DOMAIN pg[c]
        BY <3>2, <3>3, <3>4, <3>5, <4>2 DEF TableFits
      <4> QED
        BY <4>1, <4>2
    <3> QED
      BY <3>1, <3>2, <3>3, <3>5 DEF TableFits
  <2> QED
    BY <2>1, <2>2
<1> QED
  BY <1>1, <1>5, <1>6 DEF MigBounds

LEMMA FitsRaises == ASSUME MigInv, MigBounds, MigrationRaises \/ VerificationRaises PROVE MigBounds'
<1> DEFINE new == [job EXCEPT !.pc = "next", !.failed = TRUE, !.batch = << >>]
           other == [job EXCEPT !.pc = "vnext", !.due = {}, !.failed = TRUE]
<1>1. /\ job' = new \/ job' = other
      /\ UNCHANGED <<mongo, pg, host, hosts>> /\ JobFits(job) /\ JobTyped(job)
  BY DEF MigrationRaises, VerificationRaises, MigBounds, MigInv
<1>2. /\ new.seen = job.seen /\ new.batch = << >> /\ new.migrated = job.migrated
      /\ new.counted = job.counted
  BY <1>1 DEF JobTyped, JobShaped
<1>3. /\ other.seen = job.seen /\ other.batch = job.batch /\ other.migrated = job.migrated
      /\ other.counted = job.counted /\ other.pc = "vnext"
  BY <1>1 DEF JobTyped, JobShaped
<1> HIDE DEF new, other
<1>4. JobFits(new)
  BY <1>1, <1>2, NoBatch, NoBatchFits, BatchIsCounted DEF JobFits
<1>5. JobFits(other)
  BY <1>1, <1>3, SameBatchFits DEF JobFits
<1> QED
  BY <1>1, <1>4, <1>5, NextJobFits

\* A verification that goes on.
LEMMA FitsCompares ==
  ASSUME MigInv, MigBounds,
         CountRows \/ EndCollection \/ (\E I : DrawSample(I)) \/ \E i : SpotCheck(i)
  PROVE  MigBounds'
<1>1. UNCHANGED <<mongo, pg, host, hosts>> /\ JobFits(job) /\ JobTyped(job)
  BY DEF CountRows, EndCollection, DrawSample, SpotCheck, MigBounds, MigInv
<1>2. ASSUME NEW pc \in {"vsample", "vspot", "vnext"}, NEW due, NEW failed,
             job' = [job EXCEPT !.pc = pc, !.due = due, !.failed = failed]
      PROVE  MigBounds'
  <2>1. /\ job'.seen = job.seen /\ job'.batch = job.batch /\ job'.migrated = job.migrated
        /\ job'.counted = job.counted /\ job'.pc = pc
    BY <1>1, <1>2 DEF JobTyped, JobShaped
  <2>2. JobFits(job')
    BY <1>1, <2>1, SameBatchFits DEF JobFits
  <2> QED
    BY <1>1, <2>2, NextJobFits
<1>3. CASE CountRows
  <2>1. PICK failed : job' = [job EXCEPT !.pc = "vsample", !.failed = failed]
    BY <1>3 DEF CountRows
  <2>2. [job EXCEPT !.pc = "vsample", !.failed = failed]
          = [job EXCEPT !.pc = "vsample", !.due = job.due, !.failed = failed]
    BY <1>1 DEF JobTyped, JobShaped
  <2> QED
    BY <1>2, <2>1, <2>2
<1>4. CASE EndCollection
  <2>1. job' = [job EXCEPT !.pc = "vnext"]
    BY <1>4 DEF EndCollection
  <2>2. [job EXCEPT !.pc = "vnext"]
          = [job EXCEPT !.pc = "vnext", !.due = job.due, !.failed = job.failed]
    BY <1>1 DEF JobTyped, JobShaped
  <2> QED
    BY <1>2, <2>1, <2>2
<1>5. ASSUME NEW I, DrawSample(I) PROVE MigBounds'
  <2>1. job' = [job EXCEPT !.pc = "vspot", !.due = I]
    BY <1>5 DEF DrawSample
  <2>2. [job EXCEPT !.pc = "vspot", !.due = I]
          = [job EXCEPT !.pc = "vspot", !.due = I, !.failed = job.failed]
    BY <1>1 DEF JobTyped, JobShaped
  <2> QED
    BY <1>2, <2>1, <2>2
<1>6. ASSUME NEW i, SpotCheck(i) PROVE MigBounds'
  <2>1. PICK failed : job' = [job EXCEPT !.due = @ \ {i}, !.failed = failed]
    BY <1>6 DEF SpotCheck
  <2>2. job.pc = "vspot"
    BY <1>6 DEF SpotCheck, Runs
  <2>3. [job EXCEPT !.due = @ \ {i}, !.failed = failed]
          = [job EXCEPT !.pc = "vspot", !.due = job.due \ {i}, !.failed = failed]
    BY <1>1, <2>2 DEF JobTyped, JobShaped
  <2> QED
    BY <1>2, <2>1, <2>3
<1> QED
  BY <1>3, <1>4, <1>5, <1>6

LEMMA FitsEnds == ASSUME MigBounds, EndMigration \/ EndVerification \/ Killed PROVE MigBounds'
  BY NoJobFits, NextJobFits DEF EndMigration, EndVerification, Killed

LEMMA FitsWrite == ASSUME MigInv, MigBounds, NEW c \in Collection, OneWrite(c) PROVE MigBounds'
<1>1. PICK docs : ApplicationWrites(c, docs) /\ ContentFits(docs)
  <2>1. ContentFits(mongo[c])
    BY DEF MigBounds
  <2>2. ASSUME NEW i \in Documents(c), ApplicationWrites(c, Restrict(mongo[c], Documents(c) \ {i}))
        PROVE  \E docs : ApplicationWrites(c, docs) /\ ContentFits(docs)
    <3>1. ContentFits(Restrict(mongo[c], Documents(c) \ {i}))
      BY <2>1 DEF ContentFits, Restrict, Documents
    <3> QED
      BY <2>2, <3>1
  <2>3. ASSUME NEW i \in DocId, NEW d \in MongoDocs,
               ApplicationWrites(c, With(mongo[c], [j \in {i} |-> d]))
        PROVE  \E docs : ApplicationWrites(c, docs) /\ ContentFits(docs)
    <3>1. ContentFits(With(mongo[c], [j \in {i} |-> d]))
      BY <2>1 DEF ContentFits, With
    <3> QED
      BY <2>3, <3>1
  <2> QED
    BY <2>2, <2>3 DEF OneWrite
<1>2. /\ mongo' = [mongo EXCEPT ![c] = docs] /\ UNCHANGED <<pg, job, host, hosts>>
  BY <1>1 DEF ApplicationWrites
<1>3. \A e \in Collection : mongo'[e] = IF e = c THEN docs ELSE mongo[e]
  BY <1>2 DEF MigInv, TablesTyped
<1> QED
  BY <1>1, <1>2, <1>3 DEF MigBounds

LEMMA NextMigBounds == MigInv /\ MigBounds /\ [MigrationNext]_migVars => MigBounds'
<1> SUFFICES ASSUME MigInv, MigBounds, [MigrationNext]_migVars PROVE MigBounds' OBVIOUS
<1>1. CASE UNCHANGED migVars
  BY <1>1 DEF migVars, MigBounds
<1>2. ASSUME NEW c \in Collection, CountCollection(c) \/ CountMongo(c) \/ OneWrite(c) PROVE MigBounds'
  BY <1>2, FitsCount, FitsWrite
<1>3. CASE OpenCursor \/ EndCursor \/ FlushBatch \/ MigrationRaises \/ VerificationRaises
  BY <1>3, FitsOpen, FitsEndCursor, FitsFlush, FitsRaises
<1>4. CASE \/ CountRows \/ EndCollection \/ EndMigration \/ EndVerification \/ Killed
           \/ \E I \in SUBSET DocId : DrawSample(I)
  BY <1>4, FitsCompares, FitsEnds
<1>5. ASSUME NEW i \in DocId, ReadDocument(i) \/ SpotCheck(i) PROVE MigBounds'
  BY <1>5, FitsRead, FitsCompares
<1>6. ASSUME NEW t, NEW dry, NEW zone \in Zone, StartMigration(t, dry, zone) \/ StartVerification(t)
      PROVE  MigBounds'
  BY <1>6, FitsStart
<1>7. ASSUME NEW t, StartVerification(t) PROVE MigBounds'
  BY <1>6, <1>7, UtcIsAZone
<1> QED
  BY <1>1, <1>2, <1>3, <1>4, <1>5, <1>6, <1>7 DEF MigrationNext

LEMMA MigrationTyped == MigInv /\ MigBounds => MigrationTypeOK
<1> SUFFICES ASSUME MigInv, MigBounds PROVE MigrationTypeOK OBVIOUS
<1>1. JobTyped(job) /\ JobFits(job)
  BY DEF MigInv, MigBounds
<1>2. job.migrated \in 0 .. Cardinality(job.seen)
  BY <1>1, BatchIsCounted DEF JobFits
<1>3. /\ job.pc \in {"off"} \cup MigratePcs \cup VerifyPcs
      /\ job.todo \subseteq job.target /\ job.target \subseteq Collection
  BY <1>1 DEF JobTyped, JobShaped, JobPcs
<1> QED
  BY <1>1, <1>2, <1>3 DEF MigrationTypeOK, MigBounds, ContentFits, TableFits, JobFits, Documents

LEMMA InitOrigins == MigrationInit => Origins
<1> SUFFICES ASSUME MigrationInit PROVE Origins OBVIOUS
<1>1. job.pc = "off" /\ DOMAIN job.batch = {}
  BY NoJobIsTyped, NoJobFits DEF MigrationInit, JobFits
<1>2. \A c \in Collection : DOMAIN pg[c] = {}
  BY NoBatch DEF MigrationInit
<1> QED
  BY <1>1, <1>2 DEF Origins, MigratePcs

\* A script moves, and what it holds and the table are as before.
LEMMA SameOrigins ==
  ASSUME Origins, UNCHANGED <<pg, host, hosts>>,
         job'.batch = job.batch \/ DOMAIN job'.batch = {},
         job'.pc \in MigratePcs => job.pc \in MigratePcs /\ job'.dry = job.dry
  PROVE  Origins'
  BY DEF Origins

LEMMA StartOrigins ==
  ASSUME Origins, NEW t, NEW dry \in BOOLEAN, NEW zone,
         StartMigration(t, dry, zone) \/ StartVerification(t)
  PROVE  Origins'
<1> DEFINE new == [NoJob EXCEPT !.pc = "next", !.target = t, !.todo = t, !.dry = dry]
           other == [NoJob EXCEPT !.pc = "vnext", !.target = t, !.todo = t]
<1>1. JobTyped(NoJob) /\ DOMAIN NoJob.batch = {}
  BY NoJobIsTyped, NoJobFits DEF JobFits
<1>2. new.dry = dry /\ new.batch = NoJob.batch /\ other.pc = "vnext" /\ other.batch = NoJob.batch
  BY <1>1 DEF JobTyped, JobShaped
<1>3. CASE StartMigration(t, dry, zone)
  <2>1. /\ job' = new /\ UNCHANGED pg /\ host' = zone /\ hosts \subseteq hosts'
        /\ ~dry => zone \in hosts'
    BY <1>3 DEF StartMigration
  <2> HIDE DEF new
  <2> QED
    BY <1>1, <1>2, <2>1 DEF Origins
<1>4. CASE StartVerification(t)
  <2>1. job' = other /\ UNCHANGED <<pg, host, hosts>>
    BY <1>4 DEF StartVerification
  <2> HIDE DEF other
  <2> QED
    BY <1>1, <1>2, <2>1, SameOrigins DEF MigratePcs
<1> QED
  BY <1>3, <1>4

LEMMA ReadOrigins == ASSUME MigInv, Origins, NEW i, ReadDocument(i) PROVE Origins'
<1> DEFINE d == mongo[job.coll][i]
           row == [k \in {i} |-> RowOf(d)]
           batch == IF d.shape = "odd" THEN job.batch ELSE With(job.batch, row)
<1>1. /\ job.pc = "read" /\ UNCHANGED <<pg, host, hosts>> /\ JobShaped(job)
      /\ \E pc, more : job' = [job EXCEPT !.seen = @ \cup {i}, !.batch = batch, !.skipped = more, !.pc = pc]
  BY DEF ReadDocument, Runs, MigInv, JobTyped
<1>2. job'.batch = batch /\ job'.dry = job.dry
  BY <1>1 DEF JobShaped
<1>3. DOMAIN row = {i} /\ row[i].born = host
  BY DEF RowOf
<1> HIDE DEF row
<1>4. \A k \in DOMAIN batch : batch[k].born = host
  <2>1. \A k \in DOMAIN With(job.batch, row) : With(job.batch, row)[k].born = host
    BY <1>3 DEF Origins, With
  <2> QED
    BY <2>1 DEF Origins
<1> HIDE DEF batch
<1> QED
  BY <1>1, <1>2, <1>4 DEF Origins, MigratePcs

LEMMA FlushOrigins == ASSUME MigInv, MigBounds, Origins, FlushBatch PROVE Origins'
<1>0. PICK c : c = job.coll
  OBVIOUS
<1>1. /\ job.pc \in {"flush", "last"} /\ UNCHANGED <<host, hosts>> /\ JobShaped(job)
      /\ pg' = pg \/ (~job.dry /\ pg' = [pg EXCEPT ![c] = Upserted(@, job.batch)])
      /\ \E failed, done, pc :
           job' = [job EXCEPT !.batch = << >>, !.failed = failed, !.migrated = done, !.pc = pc]
  BY <1>0 DEF FlushBatch, MigInv, JobTyped
<1>2. DOMAIN job'.batch = {} /\ job'.dry = job.dry
  BY <1>1, NoBatch DEF JobShaped
<1>3. ASSUME ~job.dry, pg' = [pg EXCEPT ![c] = Upserted(@, job.batch)],
             NEW e \in Collection, NEW i \in DOMAIN pg'[e]
      PROVE  pg'[e][i].born \in hosts
  <2>1. CASE e # c
    BY <1>3, <2>1 DEF Origins, MigInv, TablesTyped
  <2>2. CASE e = c
    <3>1. pg'[c] = Upserted(pg[c], job.batch)
      BY <1>3, <2>2 DEF MigInv, TablesTyped
    <3>2. host \in hosts /\ (i \in DOMAIN job.batch => job.batch[i].born = host /\ job.batch[i] \in Row)
      BY <1>1, <1>3 DEF Origins, MigratePcs, MigBounds, JobFits
    <3>3. i \in DOMAIN pg[c] => pg[c][i].born \in hosts
      BY <2>2 DEF Origins
    <3> DEFINE table == Upserted(pg[c], job.batch)
    <3>4. /\ DOMAIN table = DOMAIN pg[c] \cup DOMAIN job.batch
          /\ \A x \in DOMAIN job.batch \cap DOMAIN pg[c] :
               table[x] = [job.batch[x] EXCEPT !.born = pg[c][x].born]
          /\ \A x \in DOMAIN job.batch \ DOMAIN pg[c] : table[x] = job.batch[x]
          /\ \A x \in DOMAIN pg[c] \ DOMAIN job.batch : table[x] = pg[c][x]
      BY UpsertedIs
    <3>5. pg'[e] = table /\ i \in DOMAIN table
      BY <1>3, <2>2, <3>1
    <3> HIDE DEF table
    <3>6. CASE i \in DOMAIN job.batch \cap DOMAIN pg[c]
      <4>1. table[i] = [job.batch[i] EXCEPT !.born = pg[c][i].born] /\ job.batch[i] \in Row
        BY <3>2, <3>4, <3>6
      <4>2. table[i].born = pg[c][i].born
        BY <4>1, RowsKeep
      <4> QED
        BY <3>3, <3>5, <3>6, <4>2
    <3>7. CASE i \notin DOMAIN job.batch \cap DOMAIN pg[c]
      BY <3>2, <3>3, <3>4, <3>5, <3>7
    <3> QED
      BY <3>6, <3>7
  <2> QED
    BY <2>1, <2>2
<1> QED
  BY <1>1, <1>2, <1>3 DEF Origins, MigratePcs

LEMMA OtherOrigins ==
  ASSUME MigInv, Origins,
         \/ \E c \in Collection : CountCollection(c) \/ CountMongo(c) \/ OneWrite(c)
         \/ \E i \in DocId : SpotCheck(i)
         \/ \E I \in SUBSET DocId : DrawSample(I)
         \/ OpenCursor \/ EndCursor \/ MigrationRaises \/ EndMigration
         \/ CountRows \/ EndCollection \/ VerificationRaises \/ EndVerification \/ Killed
  PROVE  Origins'
<1>1. JobShaped(job) /\ NoJob.pc = "off" /\ DOMAIN NoJob.batch = {}
  BY NoJobIsTyped, NoJobFits DEF MigInv, JobTyped, JobFits
<1>2. UNCHANGED <<pg, host, hosts>>
  BY DEF CountCollection, CountMongo, OneWrite, ApplicationWrites, SpotCheck, DrawSample, OpenCursor, EndCursor,
         MigrationRaises, EndMigration, CountRows, EndCollection, VerificationRaises, EndVerification, Killed
<1>3. CASE EndMigration \/ EndVerification \/ Killed \/ \E c \in Collection : OneWrite(c)
  <2>1. job' = NoJob \/ job' = job
    BY <1>3 DEF EndMigration, EndVerification, Killed, OneWrite, ApplicationWrites
  <2> QED
    BY <1>1, <1>2, <2>1, SameOrigins DEF MigratePcs
<1>4. CASE MigrationRaises \/ OpenCursor \/ EndCursor \/ \E c \in Collection : CountCollection(c)
  <2>1. job.pc \in MigratePcs
    BY <1>4 DEF MigrationRaises, OpenCursor, EndCursor, CountCollection, Runs, MigratePcs
  <2>2. (job'.batch = job.batch \/ job'.batch = << >>) /\ job'.dry = job.dry
    BY <1>1, <1>4 DEF MigrationRaises, OpenCursor, EndCursor, CountCollection, JobShaped
  <2> QED
    BY <1>2, <2>1, <2>2, NoBatch, SameOrigins
<1>5. CASE \/ CountRows \/ EndCollection \/ VerificationRaises \/ \E c \in Collection : CountMongo(c)
           \/ \E i \in DocId : SpotCheck(i)
           \/ \E I \in SUBSET DocId : DrawSample(I)
  <2>1. job'.batch = job.batch /\ job'.pc \in VerifyPcs
    BY <1>1, <1>5 DEF CountRows, EndCollection, VerificationRaises, CountMongo, SpotCheck, DrawSample, Runs,
                      JobShaped, VerifyPcs
  <2> QED
    BY <1>2, <2>1, SameOrigins DEF MigratePcs, VerifyPcs
<1> QED
  BY <1>3, <1>4, <1>5

LEMMA NextOrigins == MigInv /\ MigBounds /\ Origins /\ [MigrationNext]_migVars => Origins'
<1> SUFFICES ASSUME MigInv, MigBounds, Origins, [MigrationNext]_migVars PROVE Origins' OBVIOUS
<1>1. CASE UNCHANGED migVars
  BY <1>1, SameOrigins DEF migVars
<1>2. ASSUME NEW t \in Targets, NEW dry \in BOOLEAN, NEW zone \in Zone, StartMigration(t, dry, zone)
      PROVE  Origins'
  BY <1>2, StartOrigins
<1>3. ASSUME NEW t \in Targets, StartVerification(t) PROVE Origins'
  <2>1. TRUE \in BOOLEAN
    OBVIOUS
  <2> QED
    BY <1>3, <2>1, StartOrigins
<1>4. ASSUME NEW i \in DocId, ReadDocument(i) PROVE Origins'
  BY <1>4, ReadOrigins
<1>5. CASE FlushBatch
  BY <1>5, FlushOrigins
<1>6. CASE \/ \E c \in Collection : CountCollection(c) \/ CountMongo(c) \/ OneWrite(c)
           \/ \E i \in DocId : SpotCheck(i)
           \/ \E I \in SUBSET DocId : DrawSample(I)
           \/ OpenCursor \/ EndCursor \/ MigrationRaises \/ EndMigration
           \/ CountRows \/ EndCollection \/ VerificationRaises \/ EndVerification \/ Killed
  BY <1>6, OtherOrigins
<1> QED
  BY <1>1, <1>2, <1>3, <1>4, <1>5, <1>6 DEF MigrationNext

\* Whatever collections there are and however large the batches and the sample:
\* a migration that exits with 0, and warned of nothing, has copied every document,
\* and a verification that passes has found the rows of all that it sampled, unless
\* the application wrote meanwhile: migrate_mongo_to_postgres.py,
\* verify_migration.py.
THEOREM ScriptsCanBeBelieved == MigrationSpec => []VerdictsAreEarned
<1>1. MigInv => VerdictsAreEarned
  BY DEF MigInv
<1> QED
  BY InitMig, InitMigBounds, InitOrigins, NextMig, NextMigBounds, NextOrigins, <1>1, PTL DEF MigrationSpec

-----------------------------------------------------------------------------
(* Memory: the operations, and the documents that they hold *)

AtRest == {"idle", "done"}
MemPcs == AtRest \cup StorePcs \cup DeletePcs \cup UpdatePcs \cup WarmupPcs \cup TrimPcs
MemOp == [pc : MemPcs, ident : SUBSET Identities, found : SUBSET Doc, at : Nat, left : SUBSET Doc,
          raw : SUBSET Entry, excess : Nat, clean : BOOLEAN, whole : BOOLEAN]

\* The fields of an operation.
Fields(o, pc, ident, found, at, left, raw, excess, clean, whole) ==
  /\ o.pc = pc /\ o.ident = ident /\ o.found = found /\ o.at = at /\ o.left = left
  /\ o.raw = raw /\ o.excess = excess /\ o.clean = clean /\ o.whole = whole

\* What an operation is about, and holds.
OpShaped(o) ==
  /\ o.pc \in AtRest => o.ident = {} /\ o.found = {} /\ o.left = {} /\ ~o.clean
  /\ o.pc \notin AtRest => o.ident # {}
  /\ \A k, l \in o.ident : k.agent = l.agent
  /\ o.pc \in StorePcs \cup DeletePcs \/ o.clean => \E k \in Identities : o.ident = {k}
  /\ o.pc \in WarmupPcs => ~o.clean /\ \A d \in o.left : d.ident \in o.ident
  /\ o.pc \notin {"forget"} \cup WarmupPcs => o.left = {}
  /\ \A d \in o.found : d.ident \in o.ident
  /\ \A d, e \in o.found : d = e
  /\ \A d \in o.left, k \in o.ident : d.ident.agent = k.agent
  /\ \A e \in o.raw : e.ident \in o.ident
  /\ IsFiniteSet(o.left)

MemTyped ==
  /\ ltm \subseteq Doc /\ IsFiniteSet(ltm)
  /\ stm \subseteq Entry /\ IsFiniteSet(stm)
  /\ vec \in [Identities -> Values] /\ fresh \in [Identities -> Values]
  /\ memClock \in Nat
  /\ memOps \in [MemActor -> MemOp]
  /\ \A m \in MemActor : OpShaped(memOps[m])

\* Stamps are of the past.
Stamped ==
  /\ \A d \in ltm : d.at <= memClock
  /\ \A e \in stm : e.at <= memClock
  /\ \A m \in MemActor : memOps[m].at <= memClock /\ \A d \in memOps[m].left : d.at <= memClock

\* The document of number x, and the value x, are from the Write of x.
Written(x) == memOps[x].pc \notin {"idle", "find", "write"}
Known(d) == d \in ltm \/ \E m \in MemActor : d \in memOps[m].found \cup memOps[m].left
Numbered ==
  /\ \A d, e \in Doc : Known(d) /\ Known(e) /\ d.no = e.no => d.ident = e.ident
  /\ \A d, e \in Doc : Known(d) /\ Known(e) /\ d.value = e.value /\ d.value # NoActor => d.no = e.no
  /\ \A d \in Doc : Known(d) => Written(d.no) /\ (d.value # NoActor => Written(d.value))
  /\ \A d, e \in ltm : d.no = e.no => d = e

\* An operation that is clean shares its memory with no other.
CleanAlone ==
  \A m, x \in MemActor : m # x /\ memOps[m].clean => memOps[m].ident \cap memOps[x].ident = {}

MemBase == MemTyped /\ Stamped /\ Numbered /\ CleanAlone

Ended == [Idle EXCEPT !.pc = "done"]

LEMMA IdleFields ==
  /\ Fields(Idle, "idle", {}, {}, 0, {}, {}, 0, FALSE, TRUE) /\ Idle \in MemOp /\ OpShaped(Idle)
  /\ Fields(Ended, "done", {}, {}, 0, {}, {}, 0, FALSE, TRUE) /\ Ended \in MemOp /\ OpShaped(Ended)
<1>1. "idle" \in MemPcs /\ "done" \in MemPcs
  BY DEF MemPcs, AtRest
<1>2. Fields(Idle, "idle", {}, {}, 0, {}, {}, 0, FALSE, TRUE) /\ Idle \in MemOp
  BY <1>1 DEF Idle, MemOp, Fields
<1>3. Fields(Ended, "done", {}, {}, 0, {}, {}, 0, FALSE, TRUE) /\ Ended \in MemOp
  BY <1>1 DEF Idle, Ended, MemOp, Fields
<1>4. ASSUME NEW o, NEW p \in AtRest, Fields(o, p, {}, {}, 0, {}, {}, 0, FALSE, TRUE)
      PROVE  OpShaped(o)
  <2>1. IsFiniteSet({})
    BY FS_EmptySet
  <2>2. p \notin StorePcs \cup DeletePcs \cup WarmupPcs
    BY DEF AtRest, StorePcs, DeletePcs, WarmupPcs
  <2> QED
    BY <1>4, <2>1, <2>2 DEF OpShaped, Fields
<1> QED
  BY <1>2, <1>3, <1>4 DEF AtRest

LEMMA InitMemBase == MemoryInit => MemBase
<1> SUFFICES ASSUME MemoryInit PROVE MemBase OBVIOUS
<1>1. \A m \in MemActor : memOps[m] = Idle
  BY DEF MemoryInit
<1>2. MemTyped
  <2>1. ltm \subseteq Doc /\ IsFiniteSet(ltm) /\ stm \subseteq Entry /\ IsFiniteSet(stm)
    BY FS_EmptySet DEF MemoryInit
  <2>2. vec \in [Identities -> Values] /\ fresh \in [Identities -> Values] /\ memClock \in Nat
    BY DEF MemoryInit, Values
  <2>3. memOps \in [MemActor -> MemOp] /\ \A m \in MemActor : OpShaped(memOps[m])
    BY IdleFields DEF MemoryInit
  <2> QED
    BY <2>1, <2>2, <2>3 DEF MemTyped
<1>3. Stamped /\ Numbered /\ CleanAlone
  BY <1>1, IdleFields DEF MemoryInit, Stamped, Numbered, Known, CleanAlone, Fields
<1> QED
  BY <1>2, <1>3 DEF MemBase

-----------------------------------------------------------------------------
(* Memory: what a step does to the operations *)

\* To the operation of another: it is no longer clean.
Weaker(new, old) ==
  /\ new.pc = old.pc /\ new.ident = old.ident /\ new.found = old.found /\ new.at = old.at
  /\ new.left = old.left /\ new.raw = old.raw /\ new.excess = old.excess /\ new.whole = old.whole
  /\ (new.clean => old.clean)

Others(m) ==
  /\ memOps' \in [MemActor -> MemOp]
  /\ \A x \in MemActor \ {m} : Weaker(memOps'[x], memOps[x])

LEMMA WeakerIsShaped ==
  ASSUME NEW old, OpShaped(old), NEW new, Weaker(new, old)
  PROVE  OpShaped(new)
<1> QED
  BY DEF OpShaped, Weaker

\* A step moves the operation of one coroutine.
LEMMA Steps ==
  ASSUME MemTyped, NEW m \in MemActor, NEW rec \in MemOp, Step(m, rec)
  PROVE  memOps'[m] = rec /\ Others(m) /\ \A x \in MemActor \ {m} : memOps'[x] = memOps[x]
<1> QED
  BY DEF MemTyped, Step, Others, Weaker

LEMMA StepsThen ==
  ASSUME MemTyped, NEW m \in MemActor, NEW p \in MemPcs, Then(m, p)
  PROVE  /\ Others(m) /\ \A x \in MemActor \ {m} : memOps'[x] = memOps[x]
         /\ Fields(memOps'[m], p, memOps[m].ident, memOps[m].found, memOps[m].at, memOps[m].left,
                   memOps[m].raw, memOps[m].excess, memOps[m].clean, memOps[m].whole)
<1> DEFINE o == memOps[m]
           n == [o EXCEPT !.pc = p]
<1>1. o \in MemOp
  BY DEF MemTyped
<1>2. n \in MemOp /\ Fields(n, p, o.ident, o.found, o.at, o.left, o.raw, o.excess, o.clean, o.whole)
  BY <1>1 DEF MemOp, Fields
<1>3. Step(m, n)
  BY DEF Then
<1> HIDE DEF n, o
<1> QED
  BY <1>2, <1>3, Steps DEF o

LEMMA StepsEnd ==
  ASSUME MemTyped, NEW m \in MemActor, Step(m, Ended)
  PROVE  /\ Others(m) /\ \A x \in MemActor \ {m} : memOps'[x] = memOps[x]
         /\ Fields(memOps'[m], "done", {}, {}, 0, {}, {}, 0, FALSE, TRUE)
<1> QED
  BY IdleFields, Steps

\* The operation of m is over, or about what it was about.
GoesOn(m) ==
  \/ memOps'[m].ident = {}
  \/ memOps'[m].ident = memOps[m].ident /\ (memOps'[m].clean => memOps[m].clean)

LEMMA NextTyped ==
  ASSUME MemTyped, NEW m \in MemActor, Others(m), OpShaped(memOps'[m]),
         ltm' \subseteq Doc, IsFiniteSet(ltm'), stm' \subseteq Entry, IsFiniteSet(stm'),
         vec' \in [Identities -> Values], fresh' \in [Identities -> Values], memClock' \in Nat
  PROVE  MemTyped'
<1>1. \A x \in MemActor : OpShaped(memOps'[x])
  BY WeakerIsShaped DEF MemTyped, Others
<1> QED
  BY <1>1 DEF MemTyped, Others

LEMMA NextStamped ==
  ASSUME MemTyped, Stamped, NEW m \in MemActor, Others(m), memClock' \in Nat, memClock <= memClock',
         \A d \in ltm' : d.at <= memClock', \A e \in stm' : e.at <= memClock',
         memOps'[m].at <= memClock', \A d \in memOps'[m].left : d \in memOps[m].left \cup ltm
  PROVE  Stamped'
<1>1. ASSUME NEW d, d \in ltm \/ \E x \in MemActor : d \in memOps[x].left PROVE d.at <= memClock'
  <2>1. d \in Doc /\ d.at <= memClock
    BY <1>1 DEF Stamped, MemTyped, MemOp
  <2>2. d.at \in Nat
    BY <2>1 DEF Doc
  <2> QED
    BY <2>1, <2>2 DEF MemTyped
<1>2. \A x \in MemActor \ {m} : memOps'[x].at <= memClock' /\ memOps'[x].left = memOps[x].left
  <2> TAKE x \in MemActor \ {m}
  <2>1. memOps[x].at \in Nat /\ memOps[x].at <= memClock
    BY DEF MemTyped, MemOp, Stamped
  <2> QED
    BY <2>1 DEF Others, Weaker, MemTyped
<1> QED
  BY <1>1, <1>2 DEF Stamped

LEMMA NextNumbered ==
  ASSUME MemTyped, Numbered, NEW m \in MemActor, Others(m), MemTyped',
         \A d \in ltm' : Known(d), memOps'[m].found \cup memOps'[m].left \subseteq memOps[m].found \cup memOps[m].left \cup ltm,
         \A d, e \in ltm' : d.no = e.no => d = e,
         Written(m) => Written(m)'
  PROVE  Numbered'
<1>1. ASSUME NEW d, Known(d)' PROVE Known(d)
  BY <1>1 DEF Known, Others, Weaker
<1>2. \A x \in MemActor : Written(x) => Written(x)'
  BY DEF Written, Others, Weaker
<1>3. \A d \in Doc : d.no \in MemActor /\ d.value \in MemActor \cup {NoActor}
  BY DEF Doc, Values
<1> QED
  BY <1>1, <1>2, <1>3 DEF Numbered

LEMMA NextAlone ==
  ASSUME MemTyped, CleanAlone, NEW m \in MemActor, Others(m), GoesOn(m)
  PROVE  CleanAlone'
<1> QED
  BY DEF CleanAlone, Others, Weaker, GoesOn, Fields

\* The base, after a step that writes no document.
LEMMA NextKept ==
  ASSUME MemBase, NEW m \in MemActor, Others(m), GoesOn(m), OpShaped(memOps'[m]),
         ltm' \subseteq ltm, stm' \subseteq Entry, IsFiniteSet(stm'), \A e \in stm' : e.at <= memClock',
         vec' \in [Identities -> Values], fresh' \in [Identities -> Values],
         memClock' \in Nat, memClock <= memClock', memOps'[m].at <= memClock',
         memOps'[m].found \subseteq memOps[m].found \cup ltm,
         memOps'[m].left \subseteq memOps[m].left \cup ltm,
         Written(m) => Written(m)'
  PROVE  MemBase'
<1>1. MemTyped'
  <2>1. ltm' \subseteq Doc /\ IsFiniteSet(ltm')
    BY FS_Subset DEF MemBase, MemTyped
  <2> QED
    BY <2>1, NextTyped DEF MemBase
<1>2. \A d \in ltm' : d.at <= memClock'
  <2> TAKE d \in ltm'
  <2>1. d \in Doc /\ d.at <= memClock
    BY DEF MemBase, MemTyped, Stamped
  <2> QED
    BY <2>1 DEF Doc, MemBase, MemTyped
<1>3. Stamped'
  BY <1>2, NextStamped DEF MemBase
<1>4. /\ \A d \in ltm' : Known(d)
      /\ \A d, e \in ltm' : d.no = e.no => d = e
  BY DEF MemBase, Numbered, Known
<1>5. Numbered'
  BY <1>1, <1>4, NextNumbered DEF MemBase
<1>6. CleanAlone'
  BY NextAlone DEF MemBase
<1> QED
  BY <1>1, <1>3, <1>5, <1>6 DEF MemBase

LEMMA NextMemQuiet ==
  ASSUME MemBase, NEW m \in MemActor, Others(m), GoesOn(m), OpShaped(memOps'[m]),
         UNCHANGED <<ltm, stm, memClock>>,
         vec' \in [Identities -> Values], fresh' \in [Identities -> Values], memOps'[m].at <= memClock,
         memOps'[m].found \subseteq memOps[m].found \cup ltm,
         memOps'[m].left \subseteq memOps[m].left \cup ltm,
         Written(m) => Written(m)'
  PROVE  MemBase'
<1>1. memClock \in Nat /\ IsFiniteSet(stm) /\ stm \subseteq Entry /\ \A e \in stm : e.at <= memClock
  BY DEF MemBase, MemTyped, Stamped
<1> QED
  BY <1>1, NextKept

-----------------------------------------------------------------------------
(* Memory: the steps, as their operation sees them *)

\* Where an operation is.
LEMMA PcsDiffer ==
  /\ \A p \in StorePcs \cup DeletePcs \cup UpdatePcs \cup WarmupPcs \cup TrimPcs :
       p \in MemPcs /\ p \notin AtRest
  /\ \A p \in UpdatePcs : p \notin StorePcs \cup DeletePcs \cup WarmupPcs \cup TrimPcs
  /\ \A p \in StorePcs : p \notin DeletePcs \cup WarmupPcs \cup TrimPcs
  /\ \A p \in DeletePcs : p \notin WarmupPcs \cup TrimPcs
  /\ \A p \in WarmupPcs : p \notin TrimPcs
<1> QED
  BY DEF MemPcs, AtRest, StorePcs, DeletePcs, UpdatePcs, WarmupPcs, TrimPcs

LEMMA Begins ==
  ASSUME MemBase, NEW m \in MemActor, NEW rec \in MemOp, rec.pc \notin AtRest, Begin(m, rec)
  PROVE  /\ memOps[m] = Idle /\ Others(m) /\ memOps'[m] \in MemOp
         /\ Fields(memOps'[m], rec.pc, rec.ident, rec.found, rec.at, rec.left, rec.raw, rec.excess,
                   memOps'[m].clean, rec.whole)
         /\ memOps'[m].clean => rec.clean
         /\ \A x \in MemActor \ {m} : memOps[x].ident \cap rec.ident # {} => ~memOps'[x].clean
         /\ CleanAlone'
<1> DEFINE new == [rec EXCEPT !.clean = @ /\ On(rec.ident) = {}]
<1>1. /\ new \in MemOp
      /\ Fields(new, rec.pc, rec.ident, rec.found, rec.at, rec.left, rec.raw, rec.excess,
                rec.clean /\ On(rec.ident) = {}, rec.whole)
  BY DEF MemOp, Fields
<1>2. ASSUME NEW o \in MemOp, NEW n, n = [o EXCEPT !.clean = FALSE]
      PROVE  n \in MemOp /\ Weaker(n, o) /\ ~n.clean
  BY <1>2 DEF MemOp, Weaker
<1>3. memOps[m] = Idle /\ memOps'[m] = new
  BY DEF Begin
<1>4. memOps \in [MemActor -> MemOp] /\ \A x \in MemActor : OpShaped(memOps[x])
  BY DEF MemBase, MemTyped
<1>5. ASSUME NEW x \in MemActor \ {m}
      PROVE  /\ memOps'[x] \in MemOp /\ Weaker(memOps'[x], memOps[x])
             /\ x \in On(rec.ident) => ~memOps'[x].clean
  <2>1. CASE x \in On(rec.ident)
    BY <1>2, <1>4, <2>1 DEF Begin
  <2>2. CASE x \notin On(rec.ident)
    BY <1>4, <2>2 DEF Begin, Weaker
  <2> QED
    BY <2>1, <2>2
<1> HIDE DEF new
<1>6. Others(m)
  <2>1. memOps' \in [MemActor -> MemOp]
    <3>1. memOps' = [x \in MemActor |-> memOps'[x]]
      BY DEF Begin
    <3> QED
      BY <1>1, <1>3, <1>5, <3>1
  <2> QED
    BY <1>5, <2>1 DEF Others
<1>7. ASSUME NEW x \in MemActor, memOps[x].ident \cap rec.ident # {} PROVE x \in On(rec.ident)
  <2>1. memOps[x].pc \notin {"idle", "done"}
    BY <1>4, <1>7 DEF OpShaped, AtRest
  <2> QED
    BY <1>7, <2>1 DEF On, Busy
<1>8. CleanAlone'
  <2> SUFFICES ASSUME NEW y \in MemActor, NEW x \in MemActor, y # x, memOps'[y].clean
               PROVE  memOps'[y].ident \cap memOps'[x].ident = {}
    BY DEF CleanAlone
  <2>1. \A z \in MemActor \ {m} : memOps'[z].ident = memOps[z].ident
    BY <1>5 DEF Weaker
  <2>2. memOps'[m].ident = rec.ident /\ (memOps'[m].clean => On(rec.ident) = {})
    BY <1>1, <1>3 DEF Fields
  <2>3. CASE y = m
    BY <1>7, <2>1, <2>2, <2>3
  <2>4. CASE y # m /\ x = m
    BY <1>5, <1>7, <2>1, <2>2, <2>4
  <2>5. CASE y # m /\ x # m
    BY <1>5, <2>1, <2>5 DEF CleanAlone, MemBase, Weaker
  <2> QED
    BY <2>3, <2>4, <2>5
<1>9. Fields(new, rec.pc, rec.ident, rec.found, rec.at, rec.left, rec.raw, rec.excess, new.clean, rec.whole)
  BY <1>1 DEF Fields
<1>10. new.clean => rec.clean
  BY <1>1 DEF Fields
<1> QED
  BY <1>1, <1>3, <1>5, <1>6, <1>7, <1>8, <1>9, <1>10

\* The base, when an operation begins.
LEMMA NextBegun ==
  ASSUME MemBase, NEW m \in MemActor, NEW rec \in MemOp, rec.pc \notin AtRest, Begin(m, rec),
         rec.pc # "write", rec.at <= memClock', memClock' \in {memClock, memClock + 1},
         OpShaped(memOps'[m]), rec.found \subseteq ltm, rec.left \subseteq ltm,
         UNCHANGED <<ltm, stm, vec>>, fresh' \in [Identities -> Values]
  PROVE  MemBase'
<1>1. /\ memOps[m] = Idle /\ Others(m) /\ CleanAlone'
      /\ memOps'[m].found = rec.found /\ memOps'[m].left = rec.left /\ memOps'[m].at = rec.at
  BY Begins DEF Fields
<1>2. memOps[m].pc = "idle" /\ ~Written(m)
  BY <1>1, IdleFields DEF Fields, Written
<1>4. memClock \in Nat /\ memClock' \in Nat /\ memClock <= memClock'
  BY DEF MemBase, MemTyped
<1>3. MemTyped'
  BY <1>1, <1>4, NextTyped DEF MemBase, MemTyped
<1>5. Stamped'
  <2>1. \A d \in ltm : d.at \in Nat /\ d.at <= memClock
    BY DEF MemBase, MemTyped, Stamped, Doc
  <2>2. \A e \in stm : e.at \in Nat /\ e.at <= memClock
    BY DEF MemBase, MemTyped, Stamped, Entry
  <2>3. (\A d \in ltm' : d.at <= memClock') /\ \A e \in stm' : e.at <= memClock'
    BY <1>4, <2>1, <2>2
  <2> QED
    BY <1>1, <1>4, <2>3, NextStamped DEF MemBase
<1>6. Numbered'
  BY <1>1, <1>2, <1>3, NextNumbered DEF MemBase, Numbered, Known
<1> QED
  BY <1>1, <1>3, <1>5, <1>6 DEF MemBase

\* An operation that goes on keeps the shape of its kind.
LEMMA ShapedNext ==
  ASSUME NEW o, OpShaped(o), NEW n, n.pc \in MemPcs \ AtRest, o.pc \notin AtRest,
         n.ident = o.ident, n.clean => o.clean,
         n.pc \in StorePcs \cup DeletePcs => o.pc \in StorePcs \cup DeletePcs,
         n.pc \in WarmupPcs => o.pc \in WarmupPcs /\ n.left = o.left,
         \A d \in n.found : d.ident \in o.ident, \A d, e \in n.found : d = e,
         \A e \in n.raw : e.ident \in o.ident, IsFiniteSet(n.left),
         n.pc \notin {"forget"} \cup WarmupPcs => n.left = {},
         \A d \in n.left, k \in n.ident : d.ident.agent = k.agent
  PROVE  OpShaped(n)
<1> QED
  BY DEF OpShaped

\* What is known of an operation in progress.
LEMMA Progress ==
  ASSUME MemBase, NEW m \in MemActor
  PROVE  /\ memOps[m] \in MemOp /\ OpShaped(memOps[m])
         /\ memOps[m].ident \subseteq Identities /\ memOps[m].found \subseteq Doc
         /\ memOps[m].at \in Nat /\ memOps[m].at <= memClock /\ memOps[m].left \subseteq Doc
         /\ memOps[m].raw \subseteq Entry /\ memOps[m].excess \in Nat
         /\ memOps[m].clean \in BOOLEAN /\ memOps[m].whole \in BOOLEAN /\ memClock \in Nat
<1> QED
  BY DEF MemBase, MemTyped, MemOp, Stamped

\* The updates of an operation that the steps make.
LEMMA Updates ==
  ASSUME NEW o \in MemOp, NEW p \in MemPcs, NEW found \in SUBSET Doc, NEW at \in Nat,
         NEW left \in SUBSET Doc, NEW raw \in SUBSET Entry, NEW excess \in Nat, NEW whole \in BOOLEAN
  PROVE  /\ LET n == [o EXCEPT !.pc = p, !.found = found, !.at = at]
            IN n \in MemOp /\ Fields(n, p, o.ident, found, at, o.left, o.raw, o.excess, o.clean, o.whole)
         /\ LET n == [o EXCEPT !.pc = p, !.left = left, !.excess = excess]
            IN n \in MemOp /\ Fields(n, p, o.ident, o.found, o.at, left, o.raw, excess, o.clean, o.whole)
         /\ LET n == [o EXCEPT !.pc = p, !.left = left]
            IN n \in MemOp /\ Fields(n, p, o.ident, o.found, o.at, left, o.raw, o.excess, o.clean, o.whole)
         /\ LET n == [o EXCEPT !.pc = p, !.excess = excess]
            IN n \in MemOp /\ Fields(n, p, o.ident, o.found, o.at, o.left, o.raw, excess, o.clean, o.whole)
         /\ LET n == [o EXCEPT !.pc = p, !.whole = whole]
            IN n \in MemOp /\ Fields(n, p, o.ident, o.found, o.at, o.left, o.raw, o.excess, o.clean, whole)
         /\ LET n == [o EXCEPT !.whole = whole, !.pc = p]
            IN n \in MemOp /\ Fields(n, p, o.ident, o.found, o.at, o.left, o.raw, o.excess, o.clean, whole)
         /\ LET n == [o EXCEPT !.pc = p, !.raw = raw]
            IN n \in MemOp /\ Fields(n, p, o.ident, o.found, o.at, o.left, raw, o.excess, o.clean, o.whole)
         /\ LET n == [o EXCEPT !.raw = raw, !.pc = p]
            IN n \in MemOp /\ Fields(n, p, o.ident, o.found, o.at, o.left, raw, o.excess, o.clean, o.whole)
<1> QED
  BY DEF MemOp, Fields

LEMMA FindIs ==
  ASSUME MemBase, NEW m \in MemActor, Find(m)
  PROVE  /\ Others(m) /\ MemBase' /\ memOps[m].pc = "find"
         /\ Fields(memOps'[m], "write", memOps[m].ident, memOps'[m].found, memClock + 1, memOps[m].left,
                   memOps[m].raw, memOps[m].excess, memOps[m].clean, memOps[m].whole)
         /\ \E k \in memOps[m].ident : /\ memOps'[m].found \subseteq Having(ltm, k)
                                       /\ memOps'[m].found = {} => Having(ltm, k) = {}
<1>0. PICK k \in memOps[m].ident :
        \E found \in IF Matching(k) = {} THEN {{}} ELSE {{d} : d \in Matching(k)} :
          Step(m, [memOps[m] EXCEPT !.pc = "write", !.found = found, !.at = memClock + 1])
  BY DEF Find
<1>1. PICK found \in IF Matching(k) = {} THEN {{}} ELSE {{d} : d \in Matching(k)} :
        Step(m, [memOps[m] EXCEPT !.pc = "write", !.found = found, !.at = memClock + 1])
  BY <1>0
<1> DEFINE o == memOps[m]
           n == [o EXCEPT !.pc = "write", !.found = found, !.at = memClock + 1]
<1>2. /\ found \subseteq Having(ltm, k) /\ (found = {} => Having(ltm, k) = {})
      /\ \A d, e \in found : d = e
  BY DEF Matching
<1>3. found \subseteq ltm /\ found \subseteq Doc /\ \A d \in found : d.ident = k
  BY <1>2 DEF Having, MemBase, MemTyped
<1>4. o \in MemOp /\ OpShaped(o) /\ memClock \in Nat /\ o.pc = "find"
  BY Progress DEF Find, At
<1>5. "write" \in StorePcs /\ "find" \in StorePcs
  BY DEF StorePcs
<1>6. /\ n \in MemOp
      /\ Fields(n, "write", o.ident, found, memClock + 1, o.left, o.raw, o.excess, o.clean, o.whole)
  <2>1. found \in SUBSET Doc /\ memClock + 1 \in Nat /\ "write" \in MemPcs
    BY <1>3, <1>4, <1>5, PcsDiffer
  <2> HIDE DEF o
  <2> QED
    BY <1>4, <2>1, Updates
<1> HIDE DEF n
<1>7. memOps'[m] = n /\ Others(m)
  BY <1>1, <1>6, Steps DEF MemBase, n
<1>8. OpShaped(n)
  <2>1. o.left = {} /\ \A e \in o.raw : e.ident \in o.ident
    BY <1>4, <1>5, PcsDiffer DEF OpShaped
  <2>2. /\ n.pc \in MemPcs \ AtRest /\ o.pc \notin AtRest /\ n.pc \notin WarmupPcs
        /\ n.pc \in StorePcs /\ o.pc \in StorePcs
    BY <1>4, <1>5, <1>6, PcsDiffer DEF Fields
  <2>3. n.ident = o.ident /\ n.found = found /\ n.left = {} /\ n.raw = o.raw /\ n.clean = o.clean
        /\ k \in o.ident
    BY <1>6, <2>1 DEF Fields
  <2> HIDE DEF o
  <2> QED
    BY <1>2, <1>3, <1>4, <2>1, <2>2, <2>3, FS_EmptySet, ShapedNext
<1>9. MemBase'
  <2>1. /\ UNCHANGED <<ltm, stm, vec, fresh>> /\ memClock' = memClock + 1
        /\ \A e \in stm : e.at <= memClock + 1
    <3>1. \A e \in stm : e.at \in Nat /\ e.at <= memClock
      BY DEF MemBase, MemTyped, Stamped, Entry
    <3> QED
      BY <1>4, <3>1 DEF Find
  <2>2. GoesOn(m) /\ ~Written(m)
    BY <1>4, <1>5, <1>6, <1>7, PcsDiffer DEF GoesOn, Fields, Written
  <2>3. /\ IsFiniteSet(stm) /\ stm \subseteq Entry
        /\ vec \in [Identities -> Values] /\ fresh \in [Identities -> Values]
    BY DEF MemBase, MemTyped
  <2> QED
    BY <1>3, <1>4, <1>6, <1>7, <1>8, <2>1, <2>2, <2>3, NextKept DEF Fields
<1> QED
  BY <1>2, <1>4, <1>6, <1>7, <1>9 DEF Fields

\* The steps that write no document and leave the other operations alone.
LEMMA Moved ==
  ASSUME MemBase, NEW m \in MemActor, NEW n \in MemOp, Step(m, n),
         memOps[m].pc \notin AtRest, n.pc \in MemPcs \ AtRest, n.pc \notin {"find", "write"},
         n.ident = memOps[m].ident, n.clean = memOps[m].clean, n.found = memOps[m].found, n.at = memOps[m].at,
         n.pc \in StorePcs \cup DeletePcs => memOps[m].pc \in StorePcs \cup DeletePcs,
         n.pc \in WarmupPcs => memOps[m].pc \in WarmupPcs /\ n.left = memOps[m].left,
         \A e \in n.raw : e.ident \in memOps[m].ident,
         n.left \subseteq memOps[m].left \cup ltm,
         n.pc \notin {"forget"} \cup WarmupPcs => n.left = {},
         \A d \in n.left, k \in n.ident : d.ident.agent = k.agent,
         ltm' \subseteq ltm, stm' \subseteq Entry, IsFiniteSet(stm'), \A e \in stm' : e.at <= memClock,
         vec' \in [Identities -> Values], fresh' \in [Identities -> Values], memClock' = memClock
  PROVE  Others(m) /\ MemBase' /\ memOps'[m] = n
<1>1. Others(m) /\ memOps'[m] = n
  BY Steps DEF MemBase
<1>2. OpShaped(n)
  <2>1. IsFiniteSet(n.left)
    <3>1. IsFiniteSet(memOps[m].left) /\ IsFiniteSet(ltm)
      BY DEF MemBase, MemTyped, OpShaped
    <3> QED
      BY <3>1, FS_Union, FS_Subset
  <2>2. /\ \A d \in n.found : d.ident \in memOps[m].ident
        /\ \A d, e \in n.found : d = e
    BY Progress DEF OpShaped
  <2> QED
    BY <2>1, <2>2, Progress, ShapedNext
<1>3. GoesOn(m) /\ Written(m)'
  BY <1>1 DEF GoesOn, Written, AtRest
<1>4. memClock \in Nat /\ memOps[m].at <= memClock
  BY Progress
<1> QED
  BY <1>1, <1>2, <1>3, <1>4, NextKept

\* The same when nothing but the operation changes.
LEMMA MovedAlone ==
  ASSUME MemBase, NEW m \in MemActor, NEW n \in MemOp, Step(m, n),
         memOps[m].pc \notin AtRest, n.pc \in MemPcs \ AtRest, n.pc \notin {"find", "write"},
         n.ident = memOps[m].ident, n.clean = memOps[m].clean, n.found = memOps[m].found, n.at = memOps[m].at,
         n.pc \in StorePcs \cup DeletePcs => memOps[m].pc \in StorePcs \cup DeletePcs,
         n.pc \in WarmupPcs => memOps[m].pc \in WarmupPcs /\ n.left = memOps[m].left,
         \A e \in n.raw : e.ident \in memOps[m].ident,
         n.left \subseteq memOps[m].left \cup ltm,
         n.pc \notin {"forget"} \cup WarmupPcs => n.left = {},
         \A d \in n.left, k \in n.ident : d.ident.agent = k.agent,
         UNCHANGED <<ltm, stm, fresh, memClock>>, vec' \in [Identities -> Values]
  PROVE  Others(m) /\ MemBase' /\ memOps'[m] = n
<1>1. /\ stm \subseteq Entry /\ IsFiniteSet(stm) /\ \A e \in stm : e.at <= memClock
      /\ fresh \in [Identities -> Values]
  BY DEF MemBase, MemTyped, Stamped
<1> QED
  BY <1>1, Moved

LEMMA MovedToEnd ==
  ASSUME MemBase, NEW m \in MemActor, Step(m, Ended), memOps[m].pc \notin AtRest,
         ltm' \subseteq ltm, stm' \subseteq stm, vec' = vec, fresh' \in [Identities -> Values],
         memClock' = memClock
  PROVE  /\ Others(m) /\ MemBase'
         /\ Fields(memOps'[m], "done", {}, {}, 0, {}, {}, 0, FALSE, TRUE)
<1>1. /\ Others(m) /\ memOps'[m] = Ended
      /\ Fields(memOps'[m], "done", {}, {}, 0, {}, {}, 0, FALSE, TRUE)
  BY IdleFields, Steps DEF MemBase
<1>2. /\ stm' \subseteq Entry /\ IsFiniteSet(stm') /\ \A e \in stm' : e.at <= memClock
      /\ vec \in [Identities -> Values]
  BY FS_Subset DEF MemBase, MemTyped, Stamped
<1>3. OpShaped(memOps'[m]) /\ GoesOn(m) /\ Written(m)' /\ memOps'[m].at <= memClock
  BY <1>1, IdleFields, Progress DEF GoesOn, Written, Fields
<1>4. memOps'[m].found = {} /\ memOps'[m].left = {} /\ memClock \in Nat
  BY <1>1, Progress DEF Fields
<1>5. MemBase'
  BY <1>1, <1>2, <1>3, <1>4, NextKept
<1> QED
  BY <1>1, <1>5

LEMMA AgentIs ==
  ASSUME MemBase, NEW m \in MemActor, NEW k \in memOps[m].ident
  PROVE  AgentOf(m) = k.agent
<1> QED
  BY DEF AgentOf, MemBase, MemTyped, OpShaped

\* Which operation is about one memory.
LEMMA OneIdent ==
  ASSUME MemBase, NEW m \in MemActor, memOps[m].pc \in StorePcs \cup DeletePcs \/ memOps[m].clean
  PROVE  \E k \in Identities : memOps[m].ident = {k}
<1> QED
  BY Progress DEF OpShaped

\* A store counts the documents of its agent.
LEMMA CountIs ==
  ASSUME MemBase, NEW m \in MemActor, CountDocuments(m)
  PROVE  /\ Others(m) /\ MemBase' /\ memOps[m].pc = "count" /\ memOps[m].left = {}
         /\ \/ /\ ~(LtmExcess(OfAgent(ltm, AgentOf(m))) > 0)
               /\ Fields(memOps'[m], "vector", memOps[m].ident, memOps[m].found, memOps[m].at, {},
                         memOps[m].raw, memOps[m].excess, memOps[m].clean, memOps[m].whole)
            \/ Fields(memOps'[m], "list", memOps[m].ident, memOps[m].found, memOps[m].at, {},
                      memOps[m].raw, LtmExcess(OfAgent(ltm, AgentOf(m))), memOps[m].clean, memOps[m].whole)
<1> DEFINE o == memOps[m]
           excess == LtmExcess(OfAgent(ltm, AgentOf(m)))
           n == [o EXCEPT !.pc = "list", !.excess = excess]
           l == [o EXCEPT !.pc = "vector"]
<1>1. /\ o \in MemOp /\ OpShaped(o) /\ o.pc = "count" /\ o.pc \in StorePcs
      /\ UNCHANGED <<ltm, stm, fresh, memClock, vec>>
  BY Progress DEF CountDocuments, At, StorePcs
<1>2. o.left = {} /\ \A e \in o.raw : e.ident \in o.ident
  BY <1>1, PcsDiffer DEF OpShaped
<1>3. vec \in [Identities -> Values]
  BY DEF MemBase, MemTyped
<1>4. /\ "vector" \in MemPcs \ AtRest /\ "list" \in MemPcs \ AtRest /\ o.pc \notin AtRest
      /\ "vector" \notin WarmupPcs /\ "list" \notin WarmupPcs
  BY <1>1, PcsDiffer DEF StorePcs
<1>5. excess \in Int
  <2>1. IsFiniteSet(OfAgent(ltm, AgentOf(m)))
    BY FS_Subset DEF OfAgent, MemBase, MemTyped
  <2> QED
    BY <2>1, FS_CardinalityType, CapsAreNaturals DEF LtmExcess
<1>6. CASE ~(excess > 0)
  <2>1. Step(m, l)
    BY <1>5, <1>6 DEF CountDocuments, Then
  <2>2. l \in MemOp /\ Fields(l, "vector", o.ident, o.found, o.at, o.left, o.raw, o.excess, o.clean, o.whole)
    BY <1>1, <1>4 DEF MemOp, Fields
  <2> HIDE DEF l
  <2>3. Others(m) /\ MemBase' /\ memOps'[m] = l
    BY <1>1, <1>2, <1>3, <1>4, <2>1, <2>2, MovedAlone DEF Fields
  <2> QED
    BY <1>1, <1>2, <1>6, <2>2, <2>3
<1>7. CASE excess > 0
  <2>1. Step(m, n)
    BY <1>5, <1>7 DEF CountDocuments
  <2>2. excess \in Nat
    BY <1>5, <1>7
  <2> HIDE DEF excess
  <2>3. n \in MemOp /\ Fields(n, "list", o.ident, o.found, o.at, o.left, o.raw, excess, o.clean, o.whole)
    BY <1>1, <1>4, <2>2 DEF MemOp, Fields
  <2> HIDE DEF n
  <2>4. Others(m) /\ MemBase' /\ memOps'[m] = n
    BY <1>1, <1>2, <1>3, <1>4, <2>1, <2>3, MovedAlone DEF Fields
  <2> QED
    BY <1>1, <1>2, <2>3, <2>4 DEF excess
<1> QED
  BY <1>6, <1>7

\* A store lists the oldest.
LEMMA ListIs ==
  ASSUME MemBase, NEW m \in MemActor, ListOldest(m)
  PROVE  /\ Others(m) /\ MemBase' /\ memOps[m].pc = "list"
         /\ LET oldest == Oldest(OfAgent(ltm, AgentOf(m)), memOps[m].excess)
            IN Fields(memOps'[m], IF oldest = {} THEN "vector" ELSE "forget", memOps[m].ident, memOps[m].found,
                      memOps[m].at, oldest, memOps[m].raw, 0, memOps[m].clean, memOps[m].whole)
<1> DEFINE o == memOps[m]
           oldest == Oldest(OfAgent(ltm, AgentOf(m)), memOps[m].excess)
           p == IF oldest = {} THEN "vector" ELSE "forget"
           n == [o EXCEPT !.pc = p, !.left = oldest, !.excess = 0]
<1>1. /\ o \in MemOp /\ OpShaped(o) /\ o.pc = "list" /\ o.pc \in StorePcs /\ Step(m, n)
      /\ UNCHANGED <<ltm, stm, fresh, memClock, vec>>
  BY Progress DEF ListOldest, At, StorePcs
<1>2. \A e \in o.raw : e.ident \in o.ident
  BY <1>1 DEF OpShaped
<1>3. vec \in [Identities -> Values] /\ ltm \subseteq Doc
  BY DEF MemBase, MemTyped
<1>4. p \in MemPcs \ AtRest /\ o.pc \notin AtRest /\ p \notin WarmupPcs \cup {"find", "write"}
  BY <1>1, PcsDiffer DEF StorePcs
<1>5. oldest \subseteq OfAgent(ltm, AgentOf(m))
  BY DEF Oldest
<1>6. oldest \in SUBSET Doc /\ oldest \subseteq ltm /\ \A d \in oldest, k \in o.ident : d.ident.agent = k.agent
  BY <1>3, <1>5, AgentIs DEF OfAgent
<1>7. p \notin {"forget"} => oldest = {}
  OBVIOUS
<1> HIDE DEF p
<1>8. n \in MemOp /\ Fields(n, p, o.ident, o.found, o.at, oldest, o.raw, 0, o.clean, o.whole)
  <2> HIDE DEF oldest, o
  <2> QED
    BY <1>1, <1>4, <1>6, Updates
<1> HIDE DEF n, oldest
<1>9. Others(m) /\ MemBase' /\ memOps'[m] = n
  BY <1>1, <1>2, <1>3, <1>4, <1>6, <1>7, <1>8, MovedAlone DEF Fields
<1> QED
  BY <1>1, <1>8, <1>9 DEF p, oldest

\* An error ends an operation.
LEMMA ErrorIs ==
  ASSUME MemBase, NEW m \in MemActor, StoreRaises(m) \/ StmFails(m)
  PROVE  /\ Others(m) /\ MemBase' /\ memOps[m].pc \notin AtRest
         /\ Fields(memOps'[m], "done", {}, {}, 0, {}, {}, 0, FALSE, TRUE)
<1>1. Step(m, Ended) /\ UNCHANGED <<ltm, stm, vec, memClock, fresh>>
  BY DEF StoreRaises, StmFails, Ended
<1>2. memOps[m].pc \in StorePcs \cup WarmupPcs \cup TrimPcs
  BY DEF StoreRaises, StmFails, StorePcs
<1>3. memOps[m].pc \notin AtRest /\ fresh \in [Identities -> Values]
  BY <1>2, PcsDiffer DEF MemBase, MemTyped
<1> QED
  BY <1>1, <1>3, MovedToEnd

\* A store writes its point, or does not.
LEMMA VectorIs ==
  ASSUME MemBase, NEW m \in MemActor, StoreVector(m)
  PROVE  /\ Others(m) /\ MemBase' /\ memOps[m].pc = "vector"
         /\ \E k \in Identities :
              /\ memOps[m].ident = {k} /\ (vec' = vec \/ vec' = [vec EXCEPT ![k] = m])
              /\ memOps'[m].whole => memOps[m].whole /\ vec'[k] \in {m, NoActor}
         /\ Fields(memOps'[m], "zrange", memOps[m].ident, memOps[m].found, memOps[m].at, {}, memOps[m].raw,
                   memOps[m].excess, memOps[m].clean, memOps'[m].whole)
<1> DEFINE o == memOps[m]
           n(w) == [o EXCEPT !.pc = "zrange", !.whole = w]
<1>1. /\ o \in MemOp /\ OpShaped(o) /\ o.pc = "vector" /\ o.pc \in StorePcs
      /\ UNCHANGED <<ltm, stm, fresh, memClock>> /\ vec \in [Identities -> Values]
  BY Progress DEF StoreVector, At, StorePcs, MemBase, MemTyped
<1>2. o.left = {} /\ \A e \in o.raw : e.ident \in o.ident
  BY <1>1, PcsDiffer DEF OpShaped
<1>3. PICK k \in Identities : o.ident = {k}
  BY <1>1, OneIdent
<1>4. /\ "zrange" \in MemPcs \ AtRest /\ o.pc \notin AtRest /\ "zrange" \notin WarmupPcs
  BY <1>1, PcsDiffer DEF StorePcs
<1>5. ASSUME NEW w \in BOOLEAN
      PROVE  n(w) \in MemOp /\ Fields(n(w), "zrange", o.ident, o.found, o.at, o.left, o.raw, o.excess, o.clean, w)
  BY <1>1, <1>4 DEF MemOp, Fields
<1>6. ASSUME NEW w \in BOOLEAN, Step(m, n(w)), vec' \in [Identities -> Values]
      PROVE  Others(m) /\ MemBase' /\ memOps'[m] = n(w)
  <2>1. n(w) \in MemOp /\ Fields(n(w), "zrange", o.ident, o.found, o.at, o.left, o.raw, o.excess, o.clean, w)
    BY <1>5
  <2> HIDE DEF n
  <2> QED
    BY <1>1, <1>2, <1>4, <1>6, <2>1, MovedAlone DEF Fields
<1>7. CASE vec' = [vec EXCEPT ![k] = m] /\ Then(m, "zrange")
  <2>1. Step(m, n(o.whole))
    BY <1>1, <1>7 DEF Then, MemOp
  <2>2. vec' \in [Identities -> Values] /\ vec'[k] = m /\ o.whole \in BOOLEAN
    BY <1>1, <1>7 DEF Values, MemOp
  <2> HIDE DEF n
  <2> QED
    BY <1>1, <1>2, <1>3, <1>5, <1>6, <1>7, <2>1, <2>2 DEF Fields
<1>8. CASE Step(m, [o EXCEPT !.pc = "zrange", !.whole = @ /\ vec[k] = NoActor]) /\ vec' = vec
  <2>1. Step(m, n(o.whole /\ vec[k] = NoActor)) /\ (o.whole /\ vec[k] = NoActor) \in BOOLEAN
    BY <1>1, <1>8 DEF MemOp
  <2> HIDE DEF n
  <2> QED
    BY <1>1, <1>2, <1>3, <1>5, <1>6, <1>8, <2>1 DEF Fields
<1> QED
  BY <1>3, <1>7, <1>8 DEF StoreVector

\* A store looks for the entry that it replaces.
LEMMA ZrangeIs ==
  ASSUME MemBase, NEW m \in MemActor, Zrange(m)
  PROVE  /\ Others(m) /\ MemBase' /\ memOps[m].pc = "zrange"
         /\ \E k \in Identities :
              /\ memOps[m].ident = {k}
              /\ LET raw == Oldest(Having(stm, k), 1)
                 IN Fields(memOps'[m], IF raw = {} THEN "zadd" ELSE "zrem", {k}, memOps[m].found,
                           memOps[m].at, {}, raw, memOps[m].excess, memOps[m].clean, memOps[m].whole)
<1> DEFINE o == memOps[m]
<1>1. /\ o \in MemOp /\ OpShaped(o) /\ o.pc = "zrange" /\ o.pc \in StorePcs \cup DeletePcs
      /\ UNCHANGED <<ltm, stm, fresh, memClock, vec>>
  BY Progress DEF Zrange, At, StorePcs, DeletePcs
<1>2. o.left = {} /\ (\A e \in o.raw : e.ident \in o.ident) /\ o.pc \notin AtRest
  BY <1>1, PcsDiffer DEF OpShaped
<1>3. PICK k \in Identities : o.ident = {k}
  BY <1>1, OneIdent
<1> DEFINE raw == Oldest(Having(stm, k), 1)
           p == IF raw = {} THEN "zadd" ELSE "zrem"
<1>4. raw \in SUBSET Entry /\ (\A e \in raw : e.ident = k) /\ vec \in [Identities -> Values]
  BY DEF Oldest, Having, MemBase, MemTyped
<1>5. /\ p \in MemPcs \ AtRest /\ p \notin WarmupPcs \cup {"forget", "find", "write"}
      /\ "zadd" \in MemPcs \ AtRest /\ "zadd" \notin WarmupPcs
  BY PcsDiffer DEF StorePcs, DeletePcs
<1> DEFINE n == [o EXCEPT !.raw = raw, !.pc = p]
<1>6. Step(m, n)
  BY <1>3 DEF Zrange
<1> HIDE DEF p, raw
<1>7. n \in MemOp /\ Fields(n, p, o.ident, o.found, o.at, o.left, raw, o.excess, o.clean, o.whole)
  <2> HIDE DEF o
  <2> QED
    BY <1>1, <1>4, <1>5, Updates
<1> HIDE DEF n
<1>8. Others(m) /\ MemBase' /\ memOps'[m] = n
  BY <1>1, <1>2, <1>3, <1>4, <1>5, <1>6, <1>7, MovedAlone DEF Fields
<1> QED
  BY <1>1, <1>2, <1>3, <1>7, <1>8 DEF Fields, p, raw

\* A deletion looks for the entry that it removes, or fails to.
LEMMA DeleteZrangeIs ==
  ASSUME MemBase, NEW m \in MemActor, DeleteZrange(m)
  PROVE  /\ Others(m) /\ MemBase' /\ memOps[m].pc = "drange"
         /\ \E k \in Identities :
              /\ memOps[m].ident = {k}
              /\ LET raw == Oldest(Having(stm, k), 1)
                 IN \/ Fields(memOps'[m], IF raw = {} THEN "ddoc" ELSE "drem", {k}, memOps[m].found,
                           memOps[m].at, {}, raw, memOps[m].excess, memOps[m].clean, memOps[m].whole)
                    \/ Fields(memOps'[m], "ddoc", {k}, memOps[m].found, memOps[m].at, {}, memOps[m].raw,
                              memOps[m].excess, memOps[m].clean, FALSE)
<1> DEFINE o == memOps[m]
<1>1. /\ o \in MemOp /\ OpShaped(o) /\ o.pc = "drange" /\ o.pc \in StorePcs \cup DeletePcs
      /\ UNCHANGED <<ltm, stm, fresh, memClock, vec>>
  BY Progress DEF DeleteZrange, At, StorePcs, DeletePcs
<1>2. o.left = {} /\ (\A e \in o.raw : e.ident \in o.ident) /\ o.pc \notin AtRest
  BY <1>1, PcsDiffer DEF OpShaped
<1>3. PICK k \in Identities : o.ident = {k}
  BY <1>1, OneIdent
<1> DEFINE raw == Oldest(Having(stm, k), 1)
           p == IF raw = {} THEN "ddoc" ELSE "drem"
<1>4. raw \in SUBSET Entry /\ (\A e \in raw : e.ident = k) /\ vec \in [Identities -> Values]
  BY DEF Oldest, Having, MemBase, MemTyped
<1>5. /\ p \in MemPcs \ AtRest /\ p \notin WarmupPcs \cup {"forget", "find", "write"}
      /\ "ddoc" \in MemPcs \ AtRest /\ "ddoc" \notin WarmupPcs
  BY PcsDiffer DEF StorePcs, DeletePcs
<1> DEFINE n == [o EXCEPT !.raw = raw, !.pc = p]
           l == [o EXCEPT !.whole = FALSE, !.pc = "ddoc"]
<1>6. Step(m, n) \/ Step(m, l)
  BY <1>3 DEF DeleteZrange
<1> HIDE DEF p, raw
<1>7. /\ n \in MemOp /\ Fields(n, p, o.ident, o.found, o.at, o.left, raw, o.excess, o.clean, o.whole)
      /\ l \in MemOp /\ Fields(l, "ddoc", o.ident, o.found, o.at, o.left, o.raw, o.excess, o.clean, FALSE)
  <2> HIDE DEF o
  <2> QED
    BY <1>1, <1>4, <1>5, Updates
<1> HIDE DEF n, l
<1>8. ASSUME Step(m, n) PROVE Others(m) /\ MemBase' /\ memOps'[m] = n
  BY <1>1, <1>2, <1>3, <1>4, <1>5, <1>7, <1>8, MovedAlone DEF Fields
<1>9. ASSUME Step(m, l) PROVE Others(m) /\ MemBase' /\ memOps'[m] = l
  BY <1>1, <1>2, <1>3, <1>4, <1>5, <1>7, <1>9, MovedAlone DEF Fields
<1>10. CASE Step(m, n)
  BY <1>1, <1>2, <1>3, <1>7, <1>8, <1>10 DEF Fields, p, raw
<1>11. CASE Step(m, l)
  BY <1>1, <1>2, <1>3, <1>7, <1>9, <1>11 DEF Fields
<1> QED
  BY <1>6, <1>10, <1>11

\* A store removes the entry that it replaces.
LEMMA ZremIs ==
  ASSUME MemBase, NEW m \in MemActor, Zrem(m)
  PROVE  /\ Others(m) /\ MemBase' /\ memOps[m].pc = "zrem" /\ stm' = stm \ memOps[m].raw
         /\ Fields(memOps'[m], "zadd", memOps[m].ident, memOps[m].found, memOps[m].at, {}, {},
                   memOps[m].excess, memOps[m].clean, memOps[m].whole)
<1> DEFINE o == memOps[m]
           n == [o EXCEPT !.pc = "zadd", !.raw = {}]
<1>1. /\ o \in MemOp /\ OpShaped(o) /\ o.pc = "zrem" /\ o.pc \in StorePcs /\ Step(m, n)
      /\ UNCHANGED <<ltm, fresh, memClock, vec>> /\ stm' = stm \ o.raw
  BY Progress DEF Zrem, At, StorePcs
<1>2. o.left = {} /\ o.pc \notin AtRest /\ "zadd" \in MemPcs \ AtRest /\ "zadd" \notin WarmupPcs
  BY <1>1, PcsDiffer DEF OpShaped, StorePcs
<1>3. n \in MemOp /\ Fields(n, "zadd", o.ident, o.found, o.at, o.left, {}, o.excess, o.clean, o.whole)
  <2> HIDE DEF o
  <2> QED
    BY <1>1, <1>2, Updates
<1>4. /\ stm' \subseteq Entry /\ IsFiniteSet(stm') /\ \A e \in stm' : e.at <= memClock
      /\ vec \in [Identities -> Values] /\ fresh \in [Identities -> Values]
  BY <1>1, FS_Subset DEF MemBase, MemTyped, Stamped
<1> HIDE DEF n
<1>5. Others(m) /\ MemBase' /\ memOps'[m] = n
  BY <1>1, <1>2, <1>3, <1>4, Moved DEF Fields
<1> QED
  BY <1>1, <1>2, <1>3, <1>5

\* A deletion removes the entry, or fails to.
LEMMA DeleteZremIs ==
  ASSUME MemBase, NEW m \in MemActor, DeleteZrem(m)
  PROVE  /\ Others(m) /\ MemBase' /\ memOps[m].pc = "drem" /\ stm' \subseteq stm
         /\ Fields(memOps'[m], "ddoc", memOps[m].ident, memOps[m].found, memOps[m].at, {}, memOps[m].raw,
                   memOps[m].excess, memOps[m].clean, memOps'[m].whole)
         /\ memOps'[m].whole => memOps[m].whole /\ stm' = stm \ memOps[m].raw
<1> DEFINE o == memOps[m]
           n(w) == [o EXCEPT !.whole = w, !.pc = "ddoc"]
<1>1. /\ o \in MemOp /\ OpShaped(o) /\ o.pc = "drem" /\ o.pc \in DeletePcs
      /\ UNCHANGED <<ltm, fresh, memClock, vec>> /\ stm' \subseteq stm
  BY Progress DEF DeleteZrem, At, DeletePcs
<1>2. /\ o.left = {} /\ o.pc \notin AtRest /\ "ddoc" \in MemPcs \ AtRest /\ "ddoc" \notin WarmupPcs
      /\ \A e \in o.raw : e.ident \in o.ident
  BY <1>1, PcsDiffer DEF OpShaped, DeletePcs
<1>3. ASSUME NEW w \in BOOLEAN
      PROVE  n(w) \in MemOp /\ Fields(n(w), "ddoc", o.ident, o.found, o.at, o.left, o.raw, o.excess, o.clean, w)
  BY <1>1, <1>2 DEF MemOp, Fields
<1>4. /\ stm' \subseteq Entry /\ IsFiniteSet(stm') /\ \A e \in stm' : e.at <= memClock
      /\ vec \in [Identities -> Values] /\ fresh \in [Identities -> Values]
  BY <1>1, FS_Subset DEF MemBase, MemTyped, Stamped
<1>5. \E w \in BOOLEAN : Step(m, n(w)) /\ (w => o.whole /\ stm' = stm \ o.raw)
  <2>1. CASE stm' = stm \ o.raw /\ Then(m, "ddoc")
    <3>1. Step(m, n(o.whole))
      <4>1. [o EXCEPT !.pc = "ddoc"] = n(o.whole)
        BY <1>1 DEF MemOp
      <4> QED
        BY <2>1, <4>1 DEF Then
    <3> QED
      BY <1>1, <2>1, <3>1 DEF MemOp
  <2>2. CASE Step(m, n(FALSE))
    BY <2>2
  <2> QED
    BY <2>1, <2>2 DEF DeleteZrem
<1>6. PICK w \in BOOLEAN : Step(m, n(w)) /\ (w => o.whole /\ stm' = stm \ o.raw)
  BY <1>5
<1>7. n(w) \in MemOp /\ Fields(n(w), "ddoc", o.ident, o.found, o.at, o.left, o.raw, o.excess, o.clean, w)
  BY <1>3
<1> HIDE DEF n
<1>8. Others(m) /\ MemBase' /\ memOps'[m] = n(w)
  BY <1>1, <1>2, <1>4, <1>6, <1>7, Moved DEF Fields
<1> QED
  BY <1>1, <1>2, <1>6, <1>7, <1>8 DEF Fields

\* A store adds its entry.
LEMMA ZaddIs ==
  ASSUME MemBase, NEW m \in MemActor, Zadd(m)
  PROVE  /\ Others(m) /\ MemBase' /\ memOps[m].pc = "zadd"
         /\ \E k \in Identities : \E e \in Entry :
              /\ memOps[m].ident = {k} /\ stm' = stm \cup {e}
              /\ e.ident = k /\ e.value = m /\ e.at = memOps[m].at
         /\ Fields(memOps'[m], "zcard", memOps[m].ident, memOps[m].found, memOps[m].at, {}, memOps[m].raw,
                   memOps[m].excess, memOps[m].clean, memOps[m].whole)
<1> DEFINE o == memOps[m]
           n == [o EXCEPT !.pc = "zcard"]
<1>1. /\ o \in MemOp /\ OpShaped(o) /\ o.pc = "zadd" /\ o.pc \in StorePcs /\ Step(m, n)
      /\ UNCHANGED <<ltm, fresh, memClock, vec>>
  BY Progress DEF Zadd, At, StorePcs, Then
<1>2. /\ o.left = {} /\ o.pc \notin AtRest /\ "zcard" \in MemPcs \ AtRest
      /\ "zcard" \notin WarmupPcs \cup StorePcs \cup DeletePcs
      /\ \A e \in o.raw : e.ident \in o.ident
  BY <1>1, PcsDiffer DEF OpShaped, StorePcs, TrimPcs, DeletePcs, WarmupPcs
<1>3. n \in MemOp /\ Fields(n, "zcard", o.ident, o.found, o.at, o.left, o.raw, o.excess, o.clean, o.whole)
  BY <1>1, <1>2 DEF MemOp, Fields
<1>4. PICK k \in Identities : o.ident = {k}
  BY <1>1, OneIdent
<1> DEFINE e == [ident |-> k, value |-> m, at |-> o.at]
<1>5. /\ e \in Entry /\ e.ident = k /\ e.value = m /\ e.at = o.at /\ e.at <= memClock
      /\ stm' = stm \cup {e}
  BY <1>4, Progress DEF Zadd, Entry, Values
<1> HIDE DEF e, n
<1>6. stm' \subseteq Entry /\ IsFiniteSet(stm') /\ \A f \in stm' : f.at <= memClock
  BY <1>5, FS_AddElement DEF MemBase, MemTyped, Stamped
<1>7. vec \in [Identities -> Values] /\ fresh \in [Identities -> Values]
  BY DEF MemBase, MemTyped
<1>8. Others(m) /\ MemBase' /\ memOps'[m] = n
  BY <1>1, <1>2, <1>3, <1>6, <1>7, Moved DEF Fields
<1> QED
  BY <1>1, <1>2, <1>3, <1>4, <1>5, <1>8

\* The end of a store, or of a warm-up.
LEMMA FinishIs ==
  ASSUME MemBase, NEW m \in MemActor, Finish(m), memOps[m].pc \in TrimPcs, stm' \subseteq stm,
         UNCHANGED <<ltm, vec, memClock>>
  PROVE  /\ Others(m) /\ MemBase'
         /\ Fields(memOps'[m], "done", {}, {}, 0, {}, {}, 0, FALSE, TRUE)
         /\ \A k \in Identities : fresh'[k] =
              IF memOps[m].clean /\ memOps[m].whole /\ memOps[m].ident = {k} THEN m ELSE fresh[k]
<1>1. /\ fresh' \in [Identities -> Values]
      /\ \A k \in Identities : fresh'[k] =
           IF memOps[m].clean /\ memOps[m].whole /\ memOps[m].ident = {k} THEN m ELSE fresh[k]
  <2>1. \A k \in Identities : fresh[k] \in Values /\ m \in Values
    BY DEF MemBase, MemTyped, Values
  <2> QED
    BY <2>1 DEF Finish
<1>2. Step(m, Ended)
  BY DEF Finish, Step, Ended
<1> QED
  BY <1>1, <1>2, MovedToEnd, PcsDiffer

\* The entries of the agent are counted.
LEMMA ZcardIs ==
  ASSUME MemBase, NEW m \in MemActor, Zcard(m)
  PROVE  /\ Others(m) /\ MemBase' /\ memOps[m].pc = "zcard" /\ memOps[m].left = {}
         /\ LET n == Cardinality(OfAgent(stm, AgentOf(m))) - StmMax
            IN \/ ~(n > 0) /\ Finish(m)
               \/ /\ fresh' = fresh
                  /\ Fields(memOps'[m], "ztrim", memOps[m].ident, memOps[m].found, memOps[m].at, {},
                            memOps[m].raw, n, memOps[m].clean, memOps[m].whole)
<1> DEFINE o == memOps[m]
           excess == Cardinality(OfAgent(stm, AgentOf(m))) - StmMax
           n == [o EXCEPT !.pc = "ztrim", !.excess = excess]
<1>1. /\ o \in MemOp /\ OpShaped(o) /\ o.pc = "zcard" /\ o.pc \in TrimPcs
      /\ UNCHANGED <<ltm, stm, memClock, vec>>
  BY Progress DEF Zcard, At, TrimPcs
<1>2. o.left = {} /\ (\A e \in o.raw : e.ident \in o.ident) /\ o.pc \notin AtRest
  BY <1>1, PcsDiffer DEF OpShaped
<1>3. /\ "ztrim" \in MemPcs \ AtRest
      /\ "ztrim" \notin StorePcs \cup DeletePcs \cup WarmupPcs \cup {"forget", "find", "write"}
  BY PcsDiffer DEF StorePcs, DeletePcs, WarmupPcs, TrimPcs
<1>4. excess \in Int
  <2>1. IsFiniteSet(OfAgent(stm, AgentOf(m)))
    BY FS_Subset DEF OfAgent, MemBase, MemTyped
  <2> QED
    BY <2>1, FS_CardinalityType, CapsAreNaturals
<1>5. CASE ~(excess > 0)
  <2>1. Finish(m)
    BY <1>4, <1>5 DEF Zcard
  <2> QED
    BY <1>1, <1>2, <1>5, <2>1, FinishIs
<1>6. CASE excess > 0
  <2>1. Step(m, n) /\ fresh' = fresh /\ excess \in Nat
    BY <1>4, <1>6 DEF Zcard
  <2> HIDE DEF excess
  <2>2. n \in MemOp /\ Fields(n, "ztrim", o.ident, o.found, o.at, o.left, o.raw, excess, o.clean, o.whole)
    <3> HIDE DEF o
    <3> QED
      BY <1>1, <1>3, <2>1, Updates
  <2> HIDE DEF n
  <2>3. Others(m) /\ MemBase' /\ memOps'[m] = n
    <3>1. vec \in [Identities -> Values]
      BY DEF MemBase, MemTyped
    <3> QED
      BY <1>1, <1>2, <1>3, <2>1, <2>2, <3>1, MovedAlone DEF Fields
  <2> QED
    BY <1>1, <1>2, <2>1, <2>2, <2>3 DEF excess
<1> QED
  BY <1>5, <1>6

LEMMA ZtrimIs ==
  ASSUME MemBase, NEW m \in MemActor, Ztrim(m)
  PROVE  /\ Others(m) /\ MemBase' /\ memOps[m].pc = "ztrim" /\ memOps[m].left = {}
         /\ stm' = stm \ Oldest(OfAgent(stm, AgentOf(m)), memOps[m].excess)
         /\ Fields(memOps'[m], "done", {}, {}, 0, {}, {}, 0, FALSE, TRUE)
         /\ \A k \in Identities : fresh'[k] =
              IF memOps[m].clean /\ memOps[m].whole /\ memOps[m].ident = {k} THEN m ELSE fresh[k]
<1>1. memOps[m].pc = "ztrim" /\ memOps[m].pc \in TrimPcs /\ stm' \subseteq stm
  BY DEF Ztrim, At, TrimPcs
<1>2. memOps[m].left = {}
  BY <1>1, PcsDiffer, Progress DEF OpShaped
<1> QED
  BY <1>1, <1>2, FinishIs DEF Ztrim, Trimmed

\* The document of a deletion goes.
LEMMA DeleteDocumentIs ==
  ASSUME MemBase, NEW m \in MemActor, DeleteDocument(m)
  PROVE  /\ Others(m) /\ MemBase' /\ memOps[m].pc = "ddoc"
         /\ \E d \in memOps[m].found :
              /\ memOps[m].found = {d} /\ memOps[m].ident = {d.ident}
              /\ ltm' = {e \in ltm : e.no # d.no}
              /\ gone' = IF memOps[m].clean /\ memOps[m].whole THEN gone \cup {d.ident} ELSE gone
         /\ Fields(memOps'[m], "done", {}, {}, 0, {}, {}, 0, FALSE, TRUE)
<1>1. PICK d \in memOps[m].found :
        /\ ltm' = {e \in ltm : e.no # d.no}
        /\ gone' = IF memOps[m].clean /\ memOps[m].whole THEN gone \cup {d.ident} ELSE gone
  BY DEF DeleteDocument
<1>2. memOps[m].pc = "ddoc" /\ memOps[m].pc \in DeletePcs
  BY DEF DeleteDocument, At, DeletePcs
<1>3. PICK k \in Identities : memOps[m].ident = {k}
  BY <1>2, OneIdent
<1>4. memOps[m].found = {d} /\ d.ident = k
  BY <1>3, Progress DEF OpShaped
<1>5. /\ Step(m, Ended) /\ UNCHANGED <<stm, vec, memClock, fresh>>
      /\ fresh \in [Identities -> Values] /\ ltm' \subseteq ltm /\ memOps[m].pc \notin AtRest
  BY <1>1, <1>2, PcsDiffer DEF DeleteDocument, Ended, MemBase, MemTyped
<1>6. /\ Others(m) /\ MemBase'
      /\ Fields(memOps'[m], "done", {}, {}, 0, {}, {}, 0, FALSE, TRUE)
  BY <1>5, MovedToEnd
<1> QED
  BY <1>1, <1>2, <1>3, <1>4, <1>6

\* A warm-up empties the set of its agent ...
LEMMA WarmupClearIs ==
  ASSUME MemBase, NEW m \in MemActor, WarmupClear(m)
  PROVE  /\ Others(m) /\ MemBase' /\ memOps[m].pc = "wclear"
         /\ stm' = stm \ OfAgent(stm, AgentOf(m))
         /\ Fields(memOps'[m], "wadd", memOps[m].ident, memOps[m].found, memOps[m].at, memOps[m].left,
                   memOps[m].raw, memOps[m].excess, memOps[m].clean, memOps[m].whole)
<1> DEFINE o == memOps[m]
           n == [o EXCEPT !.pc = "wadd"]
<1>1. /\ o \in MemOp /\ OpShaped(o) /\ o.pc = "wclear" /\ o.pc \in WarmupPcs /\ Step(m, n)
      /\ UNCHANGED <<ltm, fresh, memClock, vec>> /\ stm' = stm \ OfAgent(stm, AgentOf(m))
  BY Progress DEF WarmupClear, At, WarmupPcs, Then
<1>2. /\ "wadd" \in MemPcs \ AtRest /\ "wadd" \notin StorePcs \cup DeletePcs /\ "wadd" \in WarmupPcs
      /\ o.pc \notin AtRest
  BY <1>1, PcsDiffer DEF WarmupPcs
<1>3. n \in MemOp /\ Fields(n, "wadd", o.ident, o.found, o.at, o.left, o.raw, o.excess, o.clean, o.whole)
  BY <1>1, <1>2 DEF MemOp, Fields
<1>4. /\ stm' \subseteq Entry /\ IsFiniteSet(stm') /\ \A e \in stm' : e.at <= memClock
      /\ vec \in [Identities -> Values] /\ fresh \in [Identities -> Values]
  BY <1>1, FS_Subset DEF MemBase, MemTyped, Stamped
<1>5. /\ \A d \in o.left, k \in o.ident : d.ident.agent = k.agent
      /\ \A e \in o.raw : e.ident \in o.ident
  BY <1>1 DEF OpShaped
<1> HIDE DEF n
<1>6. "wadd" \notin {"find", "write"} /\ ltm' \subseteq ltm
  BY <1>1
<1>7. Others(m) /\ MemBase' /\ memOps'[m] = n
  BY <1>1, <1>2, <1>3, <1>4, <1>5, <1>6, Moved DEF Fields
<1> QED
  BY <1>1, <1>3, <1>7

\* ... and fills it with what it has read.
LEMMA WarmupFillIs ==
  ASSUME MemBase, NEW m \in MemActor, WarmupFill(m)
  PROVE  /\ Others(m) /\ MemBase' /\ memOps[m].pc = "wadd"
         /\ stm' = stm \cup {EntryOf(d) : d \in memOps[m].left}
         /\ Fields(memOps'[m], "zcard", memOps[m].ident, memOps[m].found, memOps[m].at, {},
                   memOps[m].raw, memOps[m].excess, memOps[m].clean, memOps[m].whole)
<1> DEFINE o == memOps[m]
           n == [o EXCEPT !.pc = "zcard", !.left = {}]
           new == {EntryOf(d) : d \in o.left}
<1>1. /\ o \in MemOp /\ OpShaped(o) /\ o.pc = "wadd" /\ o.pc \in WarmupPcs /\ Step(m, n)
      /\ UNCHANGED <<ltm, fresh, memClock, vec>> /\ stm' = stm \cup new
  BY Progress DEF WarmupFill, At, WarmupPcs
<1>2. /\ "zcard" \in MemPcs \ AtRest /\ "zcard" \notin StorePcs \cup DeletePcs \cup WarmupPcs
      /\ o.pc \notin AtRest
  BY <1>1, PcsDiffer DEF TrimPcs
<1>3. n \in MemOp /\ Fields(n, "zcard", o.ident, o.found, o.at, {}, o.raw, o.excess, o.clean, o.whole)
  <2> HIDE DEF o
  <2> QED
    BY <1>1, <1>2, Updates
<1>4. new \subseteq Entry /\ IsFiniteSet(new) /\ \A e \in new : e.at <= memClock
  <2>1. \A d \in o.left : d \in Doc /\ d.at <= memClock
    BY Progress DEF MemBase, Stamped
  <2>2. \A d \in Doc : EntryOf(d) \in Entry /\ EntryOf(d).at = d.at
    BY DEF Doc, Entry, EntryOf
  <2>3. IsFiniteSet(new)
    <3> DEFINE f == [d \in o.left |-> EntryOf(d)]
    <3>1. f \in Surjection(o.left, new)
      BY DEF Surjection
    <3> QED
      BY <1>1, <3>1, FS_Surjection DEF OpShaped
  <2> QED
    BY <2>1, <2>2, <2>3
<1> HIDE DEF n, new
<1>5. /\ stm' \subseteq Entry /\ IsFiniteSet(stm') /\ \A e \in stm' : e.at <= memClock
      /\ vec \in [Identities -> Values] /\ fresh \in [Identities -> Values]
  BY <1>1, <1>4, FS_Union DEF MemBase, MemTyped, Stamped
<1>6. \A e \in o.raw : e.ident \in o.ident
  BY <1>1 DEF OpShaped
<1>7. Others(m) /\ MemBase' /\ memOps'[m] = n
  BY <1>1, <1>2, <1>3, <1>5, <1>6, Moved DEF Fields
<1> QED
  BY <1>1, <1>3, <1>7 DEF new

-----------------------------------------------------------------------------
(* Memory: the steps that begin, and that change documents *)

LEMMA BeginStoreIs ==
  ASSUME MemBase, NEW m \in MemActor, NEW k \in Identities, BeginStore(m, k)
  PROVE  /\ Others(m) /\ MemBase' /\ memOps[m] = Idle
         /\ Fields(memOps'[m], "find", {k}, {}, 0, {}, {}, 0, memOps'[m].clean, TRUE)
         /\ \A x \in MemActor \ {m} : k \in memOps[x].ident => ~memOps'[x].clean
<1> DEFINE rec == [Idle EXCEPT !.pc = "find", !.ident = {k}, !.clean = TRUE]
<1>1. "find" \in StorePcs /\ "find" \in MemPcs /\ "find" \notin AtRest \cup WarmupPcs
  BY PcsDiffer DEF StorePcs
<1>2. rec \in MemOp /\ Fields(rec, "find", {k}, {}, 0, {}, {}, 0, TRUE, TRUE)
  BY <1>1 DEF Idle, MemOp, Fields
<1>3. Begin(m, rec)
  BY DEF BeginStore
<1> HIDE DEF rec
<1>4. /\ memOps[m] = Idle /\ Others(m)
      /\ Fields(memOps'[m], "find", {k}, {}, 0, {}, {}, 0, memOps'[m].clean, TRUE)
      /\ \A x \in MemActor \ {m} : memOps[x].ident \cap {k} # {} => ~memOps'[x].clean
  BY <1>1, <1>2, <1>3, Begins DEF Fields
<1>5. OpShaped(memOps'[m])
  BY <1>1, <1>4, FS_EmptySet DEF OpShaped, Fields
<1>6. fresh' \in [Identities -> Values] /\ UNCHANGED <<ltm, stm, vec, memClock>> /\ memClock \in Nat
  BY DEF BeginStore, MemBase, MemTyped, Values
<1>7. MemBase'
  BY <1>1, <1>2, <1>3, <1>5, <1>6, NextBegun DEF Fields
<1> QED
  BY <1>4, <1>7

LEMMA BeginDeleteIs ==
  ASSUME MemBase, NEW m \in MemActor, BeginDelete(m)
  PROVE  /\ Others(m) /\ MemBase' /\ memOps[m] = Idle
         /\ \E d \in ltm :
              /\ Fields(memOps'[m], "drange", {d.ident}, {d}, 0, {}, {}, 0, memOps'[m].clean, TRUE)
              /\ memOps'[m].clean => /\ Cardinality(Having(ltm, d.ident)) = 1
                                     /\ Cardinality(Having(stm, d.ident)) <= 1
              /\ \A x \in MemActor \ {m} : d.ident \in memOps[x].ident => ~memOps'[x].clean
              /\ fresh' = [fresh EXCEPT ![d.ident] = NoActor]
<1> DEFINE alone(d) == Cardinality(Having(ltm, d.ident)) = 1 /\ Cardinality(Having(stm, d.ident)) <= 1
           rec(d) == [Idle EXCEPT !.pc = "drange", !.ident = {d.ident}, !.found = {d}, !.clean = alone(d)]
<1>1. PICK d \in ltm : Begin(m, rec(d)) /\ fresh' = [fresh EXCEPT ![d.ident] = NoActor]
  BY DEF BeginDelete
<1>2. "drange" \in DeletePcs /\ "drange" \in MemPcs /\ "drange" \notin AtRest \cup WarmupPcs
  BY PcsDiffer DEF DeletePcs
<1>3. d \in Doc /\ d.ident \in Identities
  BY DEF MemBase, MemTyped, Doc
<1> HIDE DEF alone
<1>4. alone(d) \in BOOLEAN
  BY DEF alone
<1>5. rec(d) \in MemOp /\ Fields(rec(d), "drange", {d.ident}, {d}, 0, {}, {}, 0, alone(d), TRUE)
  BY <1>2, <1>3, <1>4 DEF Idle, MemOp, Fields
<1> HIDE DEF rec
<1>6. /\ memOps[m] = Idle /\ Others(m)
      /\ Fields(memOps'[m], "drange", {d.ident}, {d}, 0, {}, {}, 0, memOps'[m].clean, TRUE)
      /\ memOps'[m].clean => alone(d)
      /\ \A x \in MemActor \ {m} : memOps[x].ident \cap {d.ident} # {} => ~memOps'[x].clean
  BY <1>1, <1>2, <1>5, Begins DEF Fields
<1>7. OpShaped(memOps'[m])
  BY <1>2, <1>3, <1>6, FS_EmptySet DEF OpShaped, Fields
<1>8. fresh' \in [Identities -> Values] /\ UNCHANGED <<ltm, stm, vec, memClock>> /\ memClock \in Nat
  BY <1>1 DEF BeginDelete, MemBase, MemTyped, Values
<1>9. MemBase'
  BY <1>1, <1>2, <1>5, <1>7, <1>8, NextBegun DEF Fields
<1> QED
  BY <1>1, <1>6, <1>9 DEF Fields, alone

LEMMA BeginUpdateIs ==
  ASSUME MemBase, NEW m \in MemActor, BeginUpdate(m)
  PROVE  /\ Others(m) /\ MemBase' /\ memOps[m] = Idle
         /\ \E d \in ltm :
              /\ Fields(memOps'[m], "uset", {d.ident}, {d}, memClock + 1, {}, {}, 0, FALSE, TRUE)
              /\ \A x \in MemActor \ {m} : d.ident \in memOps[x].ident => ~memOps'[x].clean
              /\ fresh' = [fresh EXCEPT ![d.ident] = NoActor]
<1> DEFINE rec(d) == [Idle EXCEPT !.pc = "uset", !.ident = {d.ident}, !.found = {d}, !.at = memClock + 1]
<1>1. PICK d \in ltm : Begin(m, rec(d)) /\ fresh' = [fresh EXCEPT ![d.ident] = NoActor]
  BY DEF BeginUpdate
<1>2. "uset" \in UpdatePcs /\ "uset" \in MemPcs /\ "uset" \notin AtRest \cup WarmupPcs \cup StorePcs \cup DeletePcs
  BY PcsDiffer DEF UpdatePcs
<1>3. d \in Doc /\ d.ident \in Identities /\ memClock \in Nat /\ memClock + 1 \in Nat
  BY DEF MemBase, MemTyped, Doc
<1>4. rec(d) \in MemOp /\ Fields(rec(d), "uset", {d.ident}, {d}, memClock + 1, {}, {}, 0, FALSE, TRUE)
  BY <1>2, <1>3 DEF Idle, MemOp, Fields
<1> HIDE DEF rec
<1>5. /\ memOps[m] = Idle /\ Others(m) /\ memOps'[m].clean \in BOOLEAN
      /\ Fields(memOps'[m], "uset", {d.ident}, {d}, memClock + 1, {}, {}, 0, memOps'[m].clean, TRUE)
      /\ ~memOps'[m].clean
      /\ \A x \in MemActor \ {m} : memOps[x].ident \cap {d.ident} # {} => ~memOps'[x].clean
  BY <1>1, <1>2, <1>4, Begins DEF Fields, MemOp
<1>6. OpShaped(memOps'[m])
  BY <1>2, <1>3, <1>5, FS_EmptySet DEF OpShaped, Fields
<1>7. /\ fresh' \in [Identities -> Values] /\ UNCHANGED <<ltm, stm, vec>> /\ memClock' = memClock + 1
  BY <1>1 DEF BeginUpdate, MemBase, MemTyped, Values
<1>8. MemBase'
  BY <1>1, <1>2, <1>3, <1>4, <1>6, <1>7, NextBegun DEF Fields
<1> QED
  BY <1>1, <1>5, <1>8 DEF Fields

LEMMA BeginWarmupIs ==
  ASSUME MemBase, NEW m \in MemActor, NEW a, BeginWarmup(m, a)
  PROVE  /\ Others(m) /\ MemBase' /\ memOps[m] = Idle
         /\ Fields(memOps'[m], "wclear", {k \in Identities : k.agent = a}, {}, 0,
                   Newest(OfAgent(ltm, a), StmMax), {}, 0, memOps'[m].clean, TRUE)
         /\ ~memOps'[m].clean
         /\ \A x \in MemActor \ {m} : \A k \in memOps[x].ident : k.agent = a => ~memOps'[x].clean
<1> DEFINE ids == {k \in Identities : k.agent = a}
           left == Newest(OfAgent(ltm, a), StmMax)
           rec == [Idle EXCEPT !.pc = "wclear", !.ident = ids, !.left = left]
<1>1. "wclear" \in WarmupPcs /\ "wclear" \in MemPcs /\ "wclear" \notin AtRest \cup StorePcs \cup DeletePcs
  BY PcsDiffer DEF WarmupPcs
<1>2. Begin(m, rec) /\ OfAgent(ltm, a) # {}
  BY DEF BeginWarmup
<1>3. /\ left \subseteq ltm /\ left \subseteq Doc /\ IsFiniteSet(left)
      /\ \A d \in left : d.ident \in ids
  <2>1. left \subseteq ltm /\ \A d \in left : d.ident.agent = a
    BY DEF Newest, OfAgent
  <2>2. left \subseteq Doc /\ IsFiniteSet(left)
    BY <2>1, FS_Subset DEF MemBase, MemTyped
  <2> QED
    BY <2>1, <2>2 DEF Doc
<1>4. ids # {}
  BY <1>2 DEF OfAgent, MemBase, MemTyped, Doc
<1> HIDE DEF left
<1>5. rec \in MemOp /\ Fields(rec, "wclear", ids, {}, 0, left, {}, 0, FALSE, TRUE)
  BY <1>1, <1>3 DEF Idle, MemOp, Fields
<1> HIDE DEF rec
<1>6. /\ memOps[m] = Idle /\ Others(m)
      /\ Fields(memOps'[m], "wclear", ids, {}, 0, left, {}, 0, memOps'[m].clean, TRUE) /\ ~memOps'[m].clean
      /\ \A x \in MemActor \ {m} : memOps[x].ident \cap ids # {} => ~memOps'[x].clean
  BY <1>1, <1>2, <1>5, Begins DEF Fields
<1>7. OpShaped(memOps'[m])
  BY <1>1, <1>3, <1>4, <1>6 DEF OpShaped, Fields
<1>8. /\ UNCHANGED <<ltm, stm, vec, memClock>> /\ fresh' = fresh /\ fresh \in [Identities -> Values]
      /\ memClock \in Nat
  BY DEF BeginWarmup, MemBase, MemTyped
<1>9. MemBase'
  BY <1>1, <1>2, <1>3, <1>5, <1>7, <1>8, NextBegun DEF Fields
<1>10. \A x \in MemActor : memOps[x].ident \subseteq Identities
  BY Progress
<1> QED
  BY <1>6, <1>9, <1>10 DEF left

\* A store writes its document, new or in the place of the one it found.
LEMMA WriteIs ==
  ASSUME MemBase, NEW m \in MemActor, Write(m)
  PROVE  /\ Others(m) /\ MemBase' /\ memOps[m].pc = "write"
         /\ Fields(memOps'[m], IF LtmCap = 0 THEN "vector" ELSE "count", memOps[m].ident, memOps[m].found,
                   memOps[m].at, {}, memOps[m].raw, memOps[m].excess, memOps[m].clean, memOps[m].whole)
         /\ \E k \in Identities : /\ memOps[m].ident = {k}
              /\ \/ /\ ltm' = ltm
                    /\ \E d \in memOps[m].found : \A e \in ltm : e.no # d.no
                 \/ \E n \in Doc :
                      /\ ltm' = {e \in ltm : e.no # n.no} \cup {n}
                      /\ n.ident = k /\ n.value = m /\ n.at = memOps[m].at
                      /\ \/ memOps[m].found = {} /\ n.no = m /\ \A e \in ltm : e.no # m
                         \/ \E d \in memOps[m].found : n.no = d.no
<1> DEFINE o == memOps[m]
<1>1. /\ o \in MemOp /\ OpShaped(o) /\ o.pc = "write" /\ o.pc \in StorePcs
      /\ o.at \in Nat /\ o.at <= memClock /\ memClock \in Nat
  BY Progress DEF Write, At, StorePcs
<1>2. PICK k \in Identities : o.ident = {k}
  BY <1>1, OneIdent
<1>3. UNCHANGED <<stm, vec, memClock, fresh>> /\ Then(m, IF LtmCap = 0 THEN "vector" ELSE "count")
  BY DEF Write
<1> DEFINE p == IF LtmCap = 0 THEN "vector" ELSE "count"
<1>4. p \in MemPcs \ AtRest /\ p \in StorePcs /\ p \notin {"forget", "find", "write"} \cup WarmupPcs
  BY PcsDiffer DEF StorePcs
<1>5. o.left = {} /\ o.pc \notin AtRest
  BY <1>1, PcsDiffer DEF OpShaped
<1> HIDE DEF p
<1>6. /\ Others(m)
      /\ Fields(memOps'[m], p, o.ident, o.found, o.at, {}, o.raw, o.excess, o.clean, o.whole)
  BY <1>3, <1>4, <1>5, StepsThen DEF MemBase, p
<1>7. OpShaped(memOps'[m])
  <2>1. /\ memOps'[m].pc \in MemPcs \ AtRest /\ memOps'[m].pc \notin {"forget"} \cup WarmupPcs
        /\ memOps'[m].ident = o.ident /\ memOps'[m].left = {} /\ memOps'[m].clean = o.clean
        /\ memOps'[m].found = o.found /\ memOps'[m].raw = o.raw
    BY <1>4, <1>6 DEF Fields
  <2>2. /\ \A d \in o.found : d.ident \in o.ident
        /\ \A d, e \in o.found : d = e
        /\ \A e \in o.raw : e.ident \in o.ident
    BY <1>1 DEF OpShaped
  <2> HIDE DEF o
  <2> QED
    BY <1>1, <1>5, <2>1, <2>2, FS_EmptySet, ShapedNext
<1>8. /\ ~Written(m) /\ Written(m)' /\ GoesOn(m)
      /\ memOps'[m].found = o.found /\ memOps'[m].left = {} /\ memOps'[m].at = o.at
  BY <1>1, <1>4, <1>6 DEF Written, GoesOn, Fields, AtRest, MemPcs
<1>9. ltm \subseteq Doc /\ IsFiniteSet(ltm)
  BY DEF MemBase, MemTyped
<1>10. \A e \in ltm : e.no # m
  BY <1>8, <1>9 DEF MemBase, Numbered, Known
<1>11. ASSUME NEW d \in Doc, NEW w \in Named(k), NEW n, n = Rewritten(m, d, w)
       PROVE  n \in Doc /\ n.no = d.no /\ n.ident = d.ident /\ n.value = m /\ n.at = o.at
  BY <1>1, <1>11 DEF Rewritten, Named, Doc, Values
<1>12. ASSUME NEW w \in Named(k), NEW n, n = Created(m, k, w)
       PROVE  n \in Doc /\ n.no = m /\ n.ident = k /\ n.value = m /\ n.at = o.at
  BY <1>1, <1>12 DEF Created, Named, Doc, Values
<1>13. \A d \in o.found : d \in Doc /\ Known(d) /\ d.ident = k
  <2> TAKE d \in o.found
  <2>1. d \in Doc /\ Known(d)
    BY Progress DEF Known
  <2>2. d.ident \in o.ident
    BY <1>1 DEF OpShaped
  <2> QED
    BY <1>2, <2>1, <2>2
<1>14. \/ /\ ltm' = ltm
          /\ \E d \in o.found : \A e \in ltm : e.no # d.no
       \/ \E n \in Doc :
            /\ ltm' = {e \in ltm : e.no # n.no} \cup {n}
            /\ n.ident = k /\ n.value = m /\ n.at = o.at
            /\ \/ o.found = {} /\ n.no = m /\ \A e \in ltm : e.no # m
               \/ \E d \in o.found : n.no = d.no
  <2>1. CASE o.found = {}
    <3>1. PICK w \in Named(k) : ltm' = ltm \cup {Created(m, k, w)}
      BY <1>2, <2>1 DEF Write
    <3>2. {e \in ltm : e.no # m} = ltm
      BY <1>10
    <3> DEFINE n == Created(m, k, w)
    <3>3. n \in Doc /\ n.no = m /\ n.ident = k /\ n.value = m /\ n.at = o.at
      BY <1>12
    <3> HIDE DEF n
    <3>4. ltm' = {e \in ltm : e.no # n.no} \cup {n}
      BY <3>1, <3>2, <3>3 DEF n
    <3> QED
      BY <1>10, <2>1, <3>3, <3>4
  <2>2. CASE o.found # {}
    <3>1. PICK w \in Named(k), d \in o.found :
            LET same == {e \in ltm : e.no = d.no}
                base == IF same = {} THEN d ELSE CHOOSE e \in same : TRUE
            IN \/ ltm' = (ltm \ same) \cup {Rewritten(m, base, w)}
               \/ same = {} /\ ltm' = ltm
      BY <1>2, <2>2 DEF Write
    <3> DEFINE same == {e \in ltm : e.no = d.no}
               base == IF same = {} THEN d ELSE CHOOSE e \in same : TRUE
    <3>2. base \in Doc /\ base.no = d.no /\ Known(base)
      <4>1. CASE same = {}
        BY <1>13, <4>1
      <4>2. CASE same # {}
        <5>1. base \in same
          BY <4>2
        <5> HIDE DEF base
        <5> QED
          BY <1>9, <5>1 DEF Known
      <4> QED
        BY <4>1, <4>2
    <3>3. base.ident = k
      BY <1>13, <3>2 DEF MemBase, Numbered
    <3> HIDE DEF base
    <3>4. CASE ltm' = (ltm \ same) \cup {Rewritten(m, base, w)}
      <4> DEFINE n == Rewritten(m, base, w)
      <4>1. n \in Doc /\ n.no = d.no /\ n.ident = k /\ n.value = m /\ n.at = o.at
        BY <1>11, <3>2, <3>3
      <4> HIDE DEF n
      <4>2. ltm' = {e \in ltm : e.no # n.no} \cup {n}
        BY <3>4, <4>1 DEF n
      <4> QED
        BY <4>1, <4>2
    <3>5. CASE same = {} /\ ltm' = ltm
      BY <3>5
    <3> QED
      BY <3>1, <3>4, <3>5 DEF base
  <2> QED
    BY <2>1, <2>2
<1>15. MemBase'
  <2>1. CASE ltm' = ltm
    <3>1. vec \in [Identities -> Values] /\ fresh \in [Identities -> Values]
      BY DEF MemBase, MemTyped
    <3> QED
      BY <1>1, <1>3, <1>6, <1>7, <1>8, <2>1, <3>1, NextMemQuiet
  <2>2. ASSUME NEW n \in Doc, ltm' = {e \in ltm : e.no # n.no} \cup {n}, n.ident = k, n.value = m, n.at = o.at,
               (n.no = m /\ \A e \in ltm : e.no # m) \/ \E d \in o.found : n.no = d.no
        PROVE  MemBase'
    <3>1. ltm' \subseteq Doc /\ IsFiniteSet(ltm')
      <4>1. IsFiniteSet({e \in ltm : e.no # n.no})
        BY <1>9, FS_Subset
      <4> QED
        BY <1>9, <2>2, <4>1, FS_AddElement
    <3>2. MemTyped'
      BY <1>3, <1>6, <1>7, <3>1, NextTyped DEF MemBase, MemTyped
    <3>3. Stamped'
      <4>1. \A d \in ltm' : d.at <= memClock
        BY <1>1, <2>2 DEF MemBase, Stamped
      <4>2. \A e \in stm : e.at <= memClock
        BY DEF MemBase, Stamped
      <4> QED
        BY <1>1, <1>3, <1>6, <1>8, <4>1, <4>2, NextStamped DEF MemBase
    <3>4. ASSUME NEW d, Known(d)' PROVE Known(d) \/ d = n
      BY <1>6, <1>8, <2>2, <3>4 DEF Known, Others, Weaker
    <3>5. \A x \in MemActor : Written(x) => Written(x)'
      BY <1>6, <1>8 DEF Written, Others, Weaker
    <3>6. ASSUME NEW e \in Doc, Known(e), e.no = n.no PROVE e.ident = k
      <4>1. e.no # m
        BY <1>8, <3>6 DEF MemBase, Numbered
      <4>2. PICK d \in o.found : n.no = d.no
        BY <2>2, <3>6, <4>1
      <4> QED
        BY <1>13, <3>6, <4>2 DEF MemBase, Numbered
    <3>7. Written(n.no)'
      <4>1. CASE n.no = m
        BY <1>8, <4>1
      <4>2. ASSUME NEW d \in o.found, n.no = d.no PROVE Written(n.no)'
        <5>1. Written(d.no) /\ n.no \in MemActor
          BY <1>13 DEF MemBase, Numbered, Doc
        <5> QED
          BY <3>5, <4>2, <5>1
      <4> QED
        BY <2>2, <4>1, <4>2
    <3>8. Numbered'
      <4>1. ASSUME NEW d \in Doc, NEW e \in Doc, Known(d)', Known(e)', d.no = e.no PROVE d.ident = e.ident
        BY <2>2, <3>4, <3>6, <4>1 DEF MemBase, Numbered
      <4>2. ASSUME NEW d \in Doc, Known(d)' PROVE Written(d.no)' /\ (d.value # NoActor => Written(d.value)')
        <5>1. d.no \in MemActor /\ d.value \in MemActor \cup {NoActor}
          BY DEF Doc, Values
        <5>2. CASE d = n
          BY <1>8, <2>2, <3>7, <5>2
        <5>3. CASE Known(d)
          BY <3>5, <5>1, <5>3 DEF MemBase, Numbered
        <5> QED
          BY <3>4, <4>2, <5>2, <5>3
      <4>3. \A d, e \in ltm' : d.no = e.no => d = e
        BY <2>2 DEF MemBase, Numbered
      <4>4. ASSUME NEW d \in Doc, Known(d) PROVE d.value # m
        BY <1>8, <4>4, NobodyIsNoActor DEF MemBase, Numbered
      <4>5. ASSUME NEW d \in Doc, NEW e \in Doc, Known(d)', Known(e)', d.value = e.value, d.value # NoActor
            PROVE  d.no = e.no
        BY <2>2, <3>4, <4>4, <4>5 DEF MemBase, Numbered
      <4> QED
        BY <4>1, <4>2, <4>3, <4>5 DEF Numbered
    <3> QED
      BY <1>6, <1>8, <3>2, <3>3, <3>8, NextAlone DEF MemBase
  <2> QED
    BY <1>14, <2>1, <2>2
<1> QED
  BY <1>1, <1>2, <1>6, <1>14, <1>15 DEF p

\* What a change of documents does to the operations on their memories.
LEMMA DisturbedIs ==
  ASSUME MemBase, NEW ids
  PROVE  /\ Disturbed(ids) \in [MemActor -> MemOp]
         /\ \A x \in MemActor : /\ Weaker(Disturbed(ids)[x], memOps[x])
                                /\ memOps[x].ident \cap ids # {} => ~Disturbed(ids)[x].clean
<1>1. ASSUME NEW o \in MemOp, NEW n, n = [o EXCEPT !.clean = FALSE]
      PROVE  n \in MemOp /\ Weaker(n, o) /\ ~n.clean
  BY <1>1 DEF MemOp, Weaker
<1>2. ASSUME NEW x \in MemActor
      PROVE  /\ Disturbed(ids)[x] \in MemOp /\ Weaker(Disturbed(ids)[x], memOps[x])
             /\ memOps[x].ident \cap ids # {} => ~Disturbed(ids)[x].clean
  <2>1. memOps[x] \in MemOp /\ OpShaped(memOps[x])
    BY Progress
  <2>2. memOps[x].ident \cap ids # {} => x \in On(ids)
    BY <2>1 DEF OpShaped, AtRest, On, Busy
  <2>3. CASE x \in On(ids)
    BY <1>1, <2>1, <2>3 DEF Disturbed
  <2>4. CASE x \notin On(ids)
    BY <2>1, <2>2, <2>4 DEF Disturbed, Weaker
  <2> QED
    BY <2>3, <2>4
<1>3. Disturbed(ids) = [x \in MemActor |-> Disturbed(ids)[x]]
  BY DEF Disturbed
<1> QED
  BY <1>2, <1>3

\* A store deletes the next of the oldest.
LEMMA ForgetIs ==
  ASSUME MemBase, NEW m \in MemActor, Forget(m)
  PROVE  /\ Others(m) /\ MemBase' /\ memOps[m].pc = "forget"
         /\ \E d \in Oldest(memOps[m].left, 1) :
              /\ ltm' = {e \in ltm : e.no # d.no}
              /\ Fields(memOps'[m], IF memOps[m].left \ {d} = {} THEN "vector" ELSE "forget",
                        memOps[m].ident, memOps[m].found, memOps[m].at, memOps[m].left \ {d},
                        memOps[m].raw, memOps[m].excess, memOps[m].clean, memOps[m].whole)
              /\ \A x \in MemActor \ {m} : d.ident \in memOps[x].ident => ~memOps'[x].clean
              /\ IF d \in ltm THEN UNCHANGED fresh ELSE Unknown({d.ident})
<1>1. PICK d \in Oldest(memOps[m].left, 1) :
        LET left == memOps[m].left \ {d}
        IN /\ ltm' = {e \in ltm : e.no # d.no}
           /\ memOps' = [Disturbed({d.ident}) EXCEPT
                ![m] = [memOps[m] EXCEPT !.pc = IF left = {} THEN "vector" ELSE "forget", !.left = left]]
           /\ IF d \in ltm THEN UNCHANGED fresh ELSE Unknown({d.ident})
  BY DEF Forget
<1> DEFINE o == memOps[m]
           left == o.left \ {d}
           p == IF left = {} THEN "vector" ELSE "forget"
           n == [o EXCEPT !.pc = p, !.left = left]
<1>2. /\ o \in MemOp /\ OpShaped(o) /\ o.pc = "forget" /\ o.pc \in StorePcs
      /\ UNCHANGED <<stm, vec, memClock>>
  BY Progress DEF Forget, At, StorePcs
<1>3. memOps' = [Disturbed({d.ident}) EXCEPT ![m] = n]
  BY <1>1
<1>4. /\ p \in MemPcs \ AtRest /\ p \in StorePcs /\ p \notin {"find", "write"} \cup WarmupPcs
      /\ (p \notin {"forget"} => left = {}) /\ o.pc \notin AtRest
  BY <1>2, PcsDiffer DEF StorePcs
<1>5. left \subseteq o.left /\ left \in SUBSET Doc
  BY <1>2 DEF MemOp
<1> HIDE DEF p, left
<1>6. n \in MemOp /\ Fields(n, p, o.ident, o.found, o.at, left, o.raw, o.excess, o.clean, o.whole)
  <2> HIDE DEF o
  <2> QED
    BY <1>2, <1>4, <1>5, Updates
<1> HIDE DEF n
<1>7. /\ memOps'[m] = n /\ Others(m)
      /\ \A x \in MemActor \ {m} : d.ident \in memOps[x].ident => ~memOps'[x].clean
  <2>1. /\ Disturbed({d.ident}) \in [MemActor -> MemOp]
        /\ \A x \in MemActor : /\ Weaker(Disturbed({d.ident})[x], memOps[x])
                               /\ memOps[x].ident \cap {d.ident} # {} => ~Disturbed({d.ident})[x].clean
    BY DisturbedIs
  <2> DEFINE f == Disturbed({d.ident})
  <2> HIDE DEF f
  <2> QED
    BY <1>3, <1>6, <2>1 DEF f, Others
<1>8. OpShaped(n)
  <2>1. /\ \A e \in o.found : e.ident \in o.ident
        /\ \A e, f \in o.found : e = f
        /\ \A e \in o.raw : e.ident \in o.ident
        /\ \A e \in o.left, k \in o.ident : e.ident.agent = k.agent
        /\ IsFiniteSet(o.left)
    BY <1>2 DEF OpShaped
  <2>2. IsFiniteSet(left)
    BY <1>5, <2>1, FS_Subset
  <2>3. /\ n.pc = p /\ n.ident = o.ident /\ n.found = o.found /\ n.left = left /\ n.raw = o.raw
        /\ n.clean = o.clean
    BY <1>6 DEF Fields
  <2> HIDE DEF o
  <2> QED
    BY <1>2, <1>4, <1>5, <2>1, <2>2, <2>3, ShapedNext
<1>9. MemBase'
  <2>1. /\ stm' \subseteq Entry /\ IsFiniteSet(stm') /\ (\A e \in stm' : e.at <= memClock')
        /\ vec' \in [Identities -> Values] /\ memClock' \in Nat /\ memClock <= memClock'
    BY <1>2 DEF MemBase, MemTyped, Stamped
  <2>2. fresh' \in [Identities -> Values]
    BY <1>1 DEF Unknown, MemBase, MemTyped, Values
  <2>3. GoesOn(m) /\ Written(m)' /\ memOps'[m].at <= memClock'
    BY <1>2, <1>4, <1>6, <1>7, Progress DEF GoesOn, Written, Fields, AtRest
  <2>4. memOps'[m].found = o.found /\ memOps'[m].left \subseteq o.left /\ ltm' \subseteq ltm
    BY <1>1, <1>5, <1>6, <1>7 DEF Fields
  <2> QED
    BY <1>7, <1>8, <2>1, <2>2, <2>3, <2>4, NextKept
<1> QED
  BY <1>1, <1>2, <1>6, <1>7, <1>9 DEF p, left

\* A document is updated, as it is or as it was read; or it is not.
LEMMA UpdateIs ==
  ASSUME MemBase, NEW m \in MemActor, UpdateMemory(m)
  PROVE  /\ Others(m) /\ MemBase' /\ memOps[m].pc = "uset"
         /\ \A x \in MemActor \ {m} : memOps'[x] = memOps[x]
         /\ Fields(memOps'[m], "done", {}, {}, 0, {}, {}, 0, FALSE, TRUE)
         /\ \E d \in memOps[m].found :
              /\ d.ident \in memOps[m].ident /\ d.ident \in Identities
              /\ \A x \in MemActor \ {m} : d.ident \in memOps[x].ident => ~memOps'[x].clean
              /\ \/ ltm' = ltm /\ raced' = raced /\ spilled' = spilled
                 \/ \E n \in Doc :
                      /\ ltm' = {e \in ltm : e.no # n.no} \cup {n} /\ n.no = d.no /\ n.ident = d.ident
                      /\ \/ raced' = raced /\ spilled' = spilled /\ \E e \in ltm : e.no = n.no /\ e.ident = n.ident
                         \/ /\ raced' = raced \cup {d.ident}
                            /\ spilled' = spilled \cup {<<d.ident.agent, "ltm">>}
<1> DEFINE o == memOps[m]
<1>0. PICK d \in o.found : \E w \in Named(d.ident) :
        LET same == {e \in ltm : e.no = d.no}
            base == IF same = {} THEN d ELSE CHOOSE e \in same : TRUE
        IN \/ UNCHANGED <<ltm, raced, spilled>>
           \/ /\ ltm' = (ltm \ same) \cup {[base EXCEPT !.value = NoActor, !.flow = w, !.at = memOps[m].at]}
              /\ IF same # {} THEN UNCHANGED <<raced, spilled>>
                 ELSE raced' = raced \cup {d.ident} /\ spilled' = spilled \cup {<<d.ident.agent, "ltm">>}
  BY DEF UpdateMemory
<1>1. PICK w \in Named(d.ident) :
        LET same == {e \in ltm : e.no = d.no}
            base == IF same = {} THEN d ELSE CHOOSE e \in same : TRUE
        IN \/ UNCHANGED <<ltm, raced, spilled>>
           \/ /\ ltm' = (ltm \ same) \cup {[base EXCEPT !.value = NoActor, !.flow = w, !.at = memOps[m].at]}
              /\ IF same # {} THEN UNCHANGED <<raced, spilled>>
                 ELSE raced' = raced \cup {d.ident} /\ spilled' = spilled \cup {<<d.ident.agent, "ltm">>}
  BY <1>0
<1>2. /\ o.pc = "uset" /\ Step(m, Ended) /\ UNCHANGED <<stm, vec, memClock, fresh>>
      /\ o \in MemOp /\ OpShaped(o) /\ o.at \in Nat /\ o.at <= memClock /\ memClock \in Nat
  BY Progress DEF UpdateMemory, At, Ended
<1>3. d \in Doc /\ Known(d) /\ d.ident \in o.ident /\ d.ident \in Identities
  BY <1>2, Progress DEF OpShaped, Known, Doc
<1>4. /\ Others(m) /\ \A x \in MemActor \ {m} : memOps'[x] = memOps[x]
      /\ Fields(memOps'[m], "done", {}, {}, 0, {}, {}, 0, FALSE, TRUE)
  BY <1>2, StepsEnd DEF MemBase
<1>5. /\ OpShaped(memOps'[m]) /\ Written(m) /\ Written(m)' /\ GoesOn(m)
      /\ memOps'[m].found = {} /\ memOps'[m].left = {} /\ memOps'[m].at = 0
  <2>1. memOps'[m] = Ended
    BY <1>2, IdleFields, Steps DEF MemBase
  <2> QED
    BY <1>2, <1>4, <2>1, IdleFields DEF Written, Fields, GoesOn
<1>6. \A x \in MemActor \ {m} : d.ident \in memOps[x].ident => ~memOps'[x].clean
  BY <1>3, <1>4 DEF MemBase, CleanAlone
<1> DEFINE same == {e \in ltm : e.no = d.no}
           base == IF same = {} THEN d ELSE CHOOSE e \in same : TRUE
           n == [base EXCEPT !.value = NoActor, !.flow = w, !.at = memOps[m].at]
<1>7. ltm \subseteq Doc /\ IsFiniteSet(ltm)
  BY DEF MemBase, MemTyped
<1>8. base \in Doc /\ base.no = d.no /\ base.ident = d.ident
  <2>1. CASE same = {}
    BY <1>3, <2>1
  <2>2. CASE same # {}
    <3>1. base \in same
      BY <2>2
    <3> HIDE DEF base
    <3>2. base \in Doc /\ Known(base) /\ base.no = d.no
      BY <1>7, <3>1 DEF Known
    <3> QED
      BY <1>3, <3>2 DEF MemBase, Numbered
  <2> QED
    BY <2>1, <2>2
<1> HIDE DEF base
<1>9. n \in Doc /\ n.no = d.no /\ n.ident = d.ident /\ n.value = NoActor /\ n.at = o.at
  <2>1. w \in Flows \cup {NoFlow} /\ NoActor \in Values
    BY DEF Named, Values
  <2> QED
    BY <1>2, <1>8, <2>1 DEF Doc
<1> HIDE DEF n
<1>10. same # {} => \E e \in ltm : e.no = n.no /\ e.ident = n.ident
  <2> SUFFICES ASSUME NEW e \in same PROVE e.ident = n.ident /\ e.no = n.no /\ e \in ltm
    OBVIOUS
  <2>1. e \in Doc /\ Known(e) /\ e.no = d.no
    BY <1>7 DEF Known
  <2> QED
    BY <1>3, <1>9, <2>1 DEF MemBase, Numbered
<1>11. \/ UNCHANGED <<ltm, raced, spilled>>
       \/ /\ ltm' = {e \in ltm : e.no # n.no} \cup {n}
          /\ IF same # {} THEN UNCHANGED <<raced, spilled>>
             ELSE raced' = raced \cup {d.ident} /\ spilled' = spilled \cup {<<d.ident.agent, "ltm">>}
  <2>1. ltm \ same = {e \in ltm : e.no # n.no}
    BY <1>9
  <2> QED
    BY <1>1, <2>1 DEF n, base
<1>12. MemBase'
  <2>1. CASE ltm' = ltm
    <3>1. vec \in [Identities -> Values] /\ fresh \in [Identities -> Values]
      BY DEF MemBase, MemTyped
    <3> QED
      BY <1>2, <1>4, <1>5, <2>1, <3>1, NextMemQuiet
  <2>2. CASE ltm' = {e \in ltm : e.no # n.no} \cup {n}
    <3>1. ltm' \subseteq Doc /\ IsFiniteSet(ltm')
      <4>1. IsFiniteSet({e \in ltm : e.no # n.no})
        BY <1>7, FS_Subset
      <4> QED
        BY <1>7, <1>9, <2>2, <4>1, FS_AddElement
    <3>2. MemTyped'
      BY <1>2, <1>4, <1>5, <3>1, NextTyped DEF MemBase, MemTyped
    <3>3. Stamped'
      <4>1. \A e \in ltm' : e.at <= memClock
        BY <1>2, <1>9, <2>2 DEF MemBase, Stamped
      <4>2. \A e \in stm : e.at <= memClock
        BY DEF MemBase, Stamped
      <4> QED
        BY <1>2, <1>4, <1>5, <4>1, <4>2, NextStamped DEF MemBase
    <3>4. ASSUME NEW e, Known(e)' PROVE Known(e) \/ e = n
      BY <1>4, <1>5, <2>2, <3>4 DEF Known
    <3>5. \A x \in MemActor : Written(x) => Written(x)'
      BY <1>4, <1>5 DEF Written
    <3>6. Numbered'
      <4>1. ASSUME NEW e \in Doc, NEW g \in Doc, Known(e)', Known(g)', e.no = g.no PROVE e.ident = g.ident
        BY <1>3, <1>9, <3>4, <4>1 DEF MemBase, Numbered
      <4>2. ASSUME NEW e \in Doc, NEW g \in Doc, Known(e)', Known(g)', e.value = g.value, e.value # NoActor
            PROVE  e.no = g.no
        BY <1>9, <3>4, <4>2 DEF MemBase, Numbered
      <4>3. ASSUME NEW e \in Doc, Known(e)' PROVE Written(e.no)' /\ (e.value # NoActor => Written(e.value)')
        <5>1. e.no \in MemActor /\ e.value \in MemActor \cup {NoActor} /\ d.no \in MemActor
          BY <1>3 DEF Doc, Values
        <5>2. CASE e = n
          BY <1>3, <1>9, <3>5, <5>1, <5>2 DEF MemBase, Numbered
        <5>3. CASE Known(e)
          BY <3>5, <5>1, <5>3 DEF MemBase, Numbered
        <5> QED
          BY <3>4, <4>3, <5>2, <5>3
      <4>4. \A e, g \in ltm' : e.no = g.no => e = g
        BY <2>2 DEF MemBase, Numbered
      <4> QED
        BY <4>1, <4>2, <4>3, <4>4 DEF Numbered
    <3> QED
      BY <1>4, <1>5, <3>2, <3>3, <3>6, NextAlone DEF MemBase
  <2> QED
    BY <1>11, <2>1, <2>2
<1>13. \/ ltm' = ltm /\ raced' = raced /\ spilled' = spilled
       \/ \E n_ \in Doc :
            /\ ltm' = {e \in ltm : e.no # n_.no} \cup {n_} /\ n_.no = d.no /\ n_.ident = d.ident
            /\ \/ raced' = raced /\ spilled' = spilled /\ \E e \in ltm : e.no = n_.no /\ e.ident = n_.ident
               \/ /\ raced' = raced \cup {d.ident}
                  /\ spilled' = spilled \cup {<<d.ident.agent, "ltm">>}
  BY <1>9, <1>10, <1>11
<1> HIDE DEF same
<1> QED
  BY <1>2, <1>3, <1>4, <1>6, <1>12, <1>13

\* The expired documents go.
LEMMA PruneIs ==
  ASSUME MemBase, Prune
  PROVE  /\ MemBase' /\ ltm' = {d \in ltm : ~d.ttl}
         /\ \A x \in MemActor : Weaker(memOps'[x], memOps[x])
         /\ \A d \in ltm, x \in MemActor : d.ttl /\ d.ident \in memOps[x].ident => ~memOps'[x].clean
         /\ \A k \in Identities : fresh'[k] = fresh[k] \/ fresh'[k] = NoActor
         /\ \A d \in ltm : d.ttl => fresh'[d.ident] = NoActor
<1> DEFINE ids == {d.ident : d \in {e \in ltm : e.ttl}}
<1>1. /\ ltm' = {d \in ltm : ~d.ttl} /\ memOps' = Disturbed(ids) /\ Unknown(ids)
      /\ UNCHANGED <<stm, vec, memClock>> /\ \E d \in ltm : d.ttl
  BY DEF Prune
<1>2. \A d \in ltm : d.ttl => d.ident \in ids
  OBVIOUS
<1> HIDE DEF ids
<1>3. /\ memOps' \in [MemActor -> MemOp]
      /\ \A x \in MemActor : /\ Weaker(memOps'[x], memOps[x])
                             /\ memOps[x].ident \cap ids # {} => ~memOps'[x].clean
  BY <1>1, DisturbedIs
<1>4. \A d \in ltm : d.ident \in Identities /\ d.no \in MemActor
  BY DEF MemBase, MemTyped, Doc
<1>5. PICK m \in MemActor : TRUE
  BY <1>1, <1>4
<1>6. Others(m) /\ Weaker(memOps'[m], memOps[m])
  BY <1>3 DEF Others
<1>7. /\ fresh' \in [Identities -> Values]
      /\ \A k \in Identities : fresh'[k] = IF k \in ids THEN NoActor ELSE fresh[k]
  BY <1>1 DEF Unknown, MemBase, MemTyped, Values
<1>8. MemBase'
  <2>1. OpShaped(memOps'[m]) /\ memOps[m].at <= memClock /\ memClock \in Nat
    BY <1>6, Progress, WeakerIsShaped
  <2>2. GoesOn(m) /\ (Written(m) => Written(m)') /\ memOps'[m].at <= memClock'
        /\ memOps'[m].found = memOps[m].found /\ memOps'[m].left = memOps[m].left
    BY <1>1, <1>6, <2>1 DEF GoesOn, Written, Weaker
  <2>3. /\ stm' \subseteq Entry /\ IsFiniteSet(stm') /\ (\A e \in stm' : e.at <= memClock')
        /\ vec' \in [Identities -> Values] /\ memClock' \in Nat /\ memClock <= memClock'
    BY <1>1, <2>1 DEF MemBase, MemTyped, Stamped
  <2> QED
    BY <1>1, <1>6, <1>7, <2>1, <2>2, <2>3, NextKept
<1> QED
  BY <1>1, <1>2, <1>3, <1>4, <1>7, <1>8

-----------------------------------------------------------------------------
(* Memory: the oldest and the newest *)

LEMMA OldestIsLow ==
  ASSUME NEW S, IsFiniteSet(S), \A e \in S : e.at \in Nat, NEW n \in Nat,
         NEW f \in Oldest(S, n), NEW e \in S, e.at <= f.at
  PROVE  e \in Oldest(S, n)
<1>1. {g \in S : g.at < e.at} \in SUBSET {g \in S : g.at < f.at}
  BY DEF Oldest
<1>2. IsFiniteSet({g \in S : g.at < f.at}) /\ Cardinality({g \in S : g.at < f.at}) < n
  BY FS_Subset DEF Oldest
<1>3. /\ Cardinality({g \in S : g.at < e.at}) \in Nat /\ Cardinality({g \in S : g.at < f.at}) \in Nat
      /\ Cardinality({g \in S : g.at < e.at}) <= Cardinality({g \in S : g.at < f.at})
  BY <1>1, <1>2, FS_Subset, FS_CardinalityType
<1> QED
  BY <1>2, <1>3 DEF Oldest

LEMMA NewestIsHigh ==
  ASSUME NEW S, IsFiniteSet(S), \A e \in S : e.at \in Nat, NEW n \in Nat,
         NEW f \in Newest(S, n), NEW e \in S, e.at >= f.at
  PROVE  e \in Newest(S, n)
<1>1. {g \in S : g.at > e.at} \in SUBSET {g \in S : g.at > f.at}
  BY DEF Newest
<1>2. IsFiniteSet({g \in S : g.at > f.at}) /\ Cardinality({g \in S : g.at > f.at}) < n
  BY FS_Subset DEF Newest
<1>3. /\ Cardinality({g \in S : g.at > e.at}) \in Nat /\ Cardinality({g \in S : g.at > f.at}) \in Nat
      /\ Cardinality({g \in S : g.at > e.at}) <= Cardinality({g \in S : g.at > f.at})
  BY <1>1, <1>2, FS_Subset, FS_CardinalityType
<1> QED
  BY <1>2, <1>3 DEF Newest

\* The first of them has none before it.
LEMMA OldestIsFirst ==
  ASSUME NEW S, IsFiniteSet(S), NEW f \in Oldest(S, 1), NEW e \in S
  PROVE  ~(e.at < f.at)
<1> DEFINE T == {g \in S : g.at < f.at}
<1>1. IsFiniteSet(T) /\ Cardinality(T) < 1
  BY FS_Subset DEF Oldest
<1>2. Cardinality(T) = 0
  BY <1>1, FS_CardinalityType
<1>3. T = {}
  BY <1>1, <1>2, FS_EmptySet
<1> QED
  BY <1>3

\* If there is but one, it is the first.
LEMMA OldestOfOne ==
  ASSUME NEW S, \A e \in S : e.at \in Nat, \A e, f \in S : e = f
  PROVE  Oldest(S, 1) = S
<1>1. ASSUME NEW e \in S PROVE Cardinality({g \in S : g.at < e.at}) < 1
  <2>1. {g \in S : g.at < e.at} = {}
    OBVIOUS
  <2> QED
    BY <2>1, FS_EmptySet
<1> QED
  BY <1>1 DEF Oldest

\* There are as many as asked for, if there are.
LEMMA OldestAreEnough ==
  ASSUME NEW S, IsFiniteSet(S), \A e \in S : e.at \in Nat, NEW n \in Nat
  PROVE  LET rest == S \ Oldest(S, n)
         IN IsFiniteSet(rest) /\ (rest = {} \/ Cardinality(rest) + n <= Cardinality(S))
<1> DEFINE rest == S \ Oldest(S, n)
           ats == {e.at : e \in rest}
<1>1. IsFiniteSet(rest) /\ rest \subseteq S
  BY FS_Subset
<1>2. ASSUME rest # {} PROVE Cardinality(rest) + n <= Cardinality(S)
  <2>1. ats \subseteq Nat /\ ats # {}
    BY <1>2
  <2>2. PICK t \in ats : \A u \in ats : <<u, t>> \notin OpToRel(<, Nat)
    BY <2>1, NatLessThanWellFounded, WFMin
  <2>3. \A u \in ats : ~(u < t)
    BY <2>1, <2>2 DEF OpToRel
  <2>4. PICK r \in rest : r.at = t
    OBVIOUS
  <2> DEFINE low == {g \in S : g.at < r.at}
  <2>5. low \cap rest = {}
    BY <2>3, <2>4
  <2>6. IsFiniteSet(low) /\ Cardinality(low) \in Nat /\ Cardinality(low) >= n
    <3>1. IsFiniteSet(low)
      BY FS_Subset
    <3>2. Cardinality(low) \in Nat
      BY <3>1, FS_CardinalityType
    <3>3. ~(Cardinality(low) < n)
      BY DEF Oldest
    <3> QED
      BY <3>1, <3>2, <3>3
  <2> HIDE DEF rest, low
  <2>7. low \cap rest = {} /\ low \cup rest \in SUBSET S
    BY <1>1, <2>5 DEF low
  <2>8. Cardinality(low \cup rest) = Cardinality(low) + Cardinality(rest)
    <3>1. Cardinality(low \cup rest) = Cardinality(low) + Cardinality(rest) - Cardinality(low \cap rest)
      BY <1>1, <2>6, FS_Union
    <3>2. Cardinality(low \cap rest) = 0
      BY <2>7, FS_EmptySet
    <3> QED
      BY <1>1, <2>6, <3>1, <3>2, FS_CardinalityType
  <2>9. Cardinality(low \cup rest) <= Cardinality(S)
    BY <2>7, FS_Subset
  <2> QED
    BY <1>1, <2>6, <2>8, <2>9, FS_CardinalityType
<1> QED
  BY <1>1, <1>2

-----------------------------------------------------------------------------
(* Memory: what is deleted does not come back *)

\* Nobody brings a forgotten memory back; what a deletion that nothing disturbs
\* will leave behind.
GoneOf(m) ==
  LET o == memOps[m]
  IN /\ \A k \in o.ident : k \in gone => o.pc \in WarmupPcs \cup TrimPcs
     /\ o.pc \in WarmupPcs => \A d \in o.left : d.ident \notin gone
     /\ o.clean /\ o.pc \in DeletePcs =>
          \A d \in o.found :
            /\ \A e \in ltm : e.ident = d.ident => e.no = d.no
            /\ o.pc = "drange" => \A e, f \in stm : e.ident = d.ident /\ f.ident = d.ident => e = f
            /\ o.pc = "drem" => \A e \in stm : e.ident = d.ident => e \in o.raw
            /\ o.pc = "ddoc" /\ o.whole => \A e \in stm : e.ident # d.ident

GoneInv ==
  /\ MemBase
  /\ \A e \in ltm \cup stm : e.ident \notin gone
  /\ \A m \in MemActor : GoneOf(m)

\* What a step adds concerns its own operation, or others are told.
LEMMA NextGone ==
  ASSUME GoneInv, MemBase', NEW m \in MemActor, Others(m),
         \A e \in (ltm' \ ltm) \cup (stm' \ stm), x \in MemActor \ {m} : e.ident \in memOps[x].ident => ~memOps'[x].clean,
         \A e \in ltm' \cup stm' : e.ident \notin gone',
         \A k \in gone' \ gone, x \in MemActor \ {m} : k \notin memOps[x].ident,
         GoneOf(m)'
  PROVE  GoneInv'
<1>1. ASSUME NEW x \in MemActor \ {m} PROVE GoneOf(x)'
  <2>1. /\ Weaker(memOps'[x], memOps[x]) /\ GoneOf(x) /\ OpShaped(memOps[x])
    BY Progress DEF GoneInv, Others
  <2>2. \A k \in memOps[x].ident : k \in gone' => k \in gone
    OBVIOUS
  <2>3. memOps[x].pc \in WarmupPcs => \A d \in memOps[x].left : d.ident \notin gone'
    BY <2>1, <2>2 DEF GoneOf, OpShaped
  <2>4. \A d \in memOps[x].found : d.ident \in memOps[x].ident
    BY <2>1 DEF OpShaped
  <2>5. ASSUME memOps'[x].clean PROVE \A d \in memOps[x].found :
           \A e \in ltm' \cup stm' : e.ident = d.ident => e \in ltm \cup stm /\ (e \in ltm' => e \in ltm) /\ (e \in stm' => e \in stm)
    BY <2>4, <2>5
  <2> QED
    BY <2>1, <2>2, <2>3, <2>5 DEF GoneOf, Weaker
<1> QED
  BY <1>1 DEF GoneInv

\* In particular when nothing is added.
LEMMA NextGoneQuiet ==
  ASSUME GoneInv, MemBase', NEW m \in MemActor, Others(m), ltm' \subseteq ltm, stm' \subseteq stm,
         gone' \subseteq gone, GoneOf(m)'
  PROVE  GoneInv'
<1>1. \A e \in ltm' \cup stm' : e.ident \notin gone'
  BY DEF GoneInv
<1> QED
  BY <1>1, NextGone

\* A step of an operation that is no deletion.
LEMMA NextGoneAlong ==
  ASSUME GoneInv, MemBase', NEW m \in MemActor, Others(m), gone' = gone,
         memOps'[m].ident = memOps[m].ident, memOps'[m].pc \notin DeletePcs,
         memOps'[m].pc \in WarmupPcs => memOps[m].pc \in WarmupPcs /\ memOps'[m].left = memOps[m].left,
         memOps[m].pc \in WarmupPcs \cup TrimPcs => memOps'[m].pc \in WarmupPcs \cup TrimPcs,
         \A e \in (ltm' \ ltm) \cup (stm' \ stm) :
           e.ident \in memOps[m].ident /\ (memOps[m].pc \in WarmupPcs \cup TrimPcs => e.ident \notin gone)
  PROVE  GoneInv'
<1>1. GoneOf(m)'
  <2>1. GoneOf(m)
    BY DEF GoneInv
  <2> QED
    BY <2>1 DEF GoneOf
<1>2. \A e \in (ltm' \ ltm) \cup (stm' \ stm), x \in MemActor \ {m} : e.ident \in memOps[x].ident => ~memOps'[x].clean
  <2> SUFFICES ASSUME NEW e \in (ltm' \ ltm) \cup (stm' \ stm), NEW x \in MemActor \ {m},
                      e.ident \in memOps[x].ident, memOps'[x].clean
               PROVE  FALSE
    OBVIOUS
  <2>1. memOps[x].clean /\ e.ident \in memOps[m].ident
    BY DEF Others, Weaker
  <2> QED
    BY <2>1 DEF GoneInv, MemBase, CleanAlone
<1>3. ASSUME NEW e \in ltm' \cup stm' PROVE e.ident \notin gone'
  <2>1. CASE e \in ltm \cup stm
    BY <2>1 DEF GoneInv
  <2>2. ASSUME e \in (ltm' \ ltm) \cup (stm' \ stm) PROVE e.ident \notin gone
    BY <2>2 DEF GoneInv, GoneOf
  <2> QED
    BY <2>1, <2>2
<1> QED
  BY <1>1, <1>2, <1>3, NextGone

LEMMA NextGoneEnd ==
  ASSUME GoneInv, MemBase', NEW m \in MemActor, Others(m), ltm' \subseteq ltm, stm' \subseteq stm, gone' = gone,
         Fields(memOps'[m], "done", {}, {}, 0, {}, {}, 0, FALSE, TRUE)
  PROVE  GoneInv'
<1>1. "done" \notin WarmupPcs
  BY DEF WarmupPcs
<1>2. GoneOf(m)'
  BY <1>1 DEF GoneOf, Fields
<1> QED
  BY <1>2, NextGoneQuiet

LEMMA NextGoneMem == GoneInv /\ [MemoryNext]_memVars => GoneInv'
<1> SUFFICES ASSUME GoneInv, [MemoryNext]_memVars PROVE GoneInv'
  OBVIOUS
<1>0. MemBase /\ \A m \in MemActor : GoneOf(m) /\ OpShaped(memOps[m])
  BY Progress DEF GoneInv
<1> USE DEF StorePcs, DeletePcs, WarmupPcs, TrimPcs
<1>1. ASSUME NEW m \in MemActor, NEW k \in Identities, BeginStore(m, k) PROVE GoneInv'
  <2>1. /\ Others(m) /\ MemBase'
        /\ Fields(memOps'[m], "find", {k}, {}, 0, {}, {}, 0, memOps'[m].clean, TRUE)
    BY <1>0, <1>1, BeginStoreIs
  <2>2. gone' = gone \ {k} /\ ltm' = ltm /\ stm' = stm
    BY <1>1 DEF BeginStore
  <2>3. GoneOf(m)'
    BY <2>1, <2>2 DEF GoneOf, Fields
  <2> QED
    BY <2>1, <2>2, <2>3, NextGoneQuiet
<1>2. ASSUME NEW m \in MemActor, BeginDelete(m) PROVE GoneInv'
  <2>1. /\ Others(m) /\ MemBase' /\ gone' = gone /\ ltm' = ltm /\ stm' = stm
    BY <1>0, <1>2, BeginDeleteIs DEF BeginDelete
  <2>2. PICK d \in ltm :
          /\ Fields(memOps'[m], "drange", {d.ident}, {d}, 0, {}, {}, 0, memOps'[m].clean, TRUE)
          /\ memOps'[m].clean => /\ Cardinality(Having(ltm, d.ident)) = 1
                                 /\ Cardinality(Having(stm, d.ident)) <= 1
    BY <1>0, <1>2, BeginDeleteIs
  <2>3. ASSUME memOps'[m].clean
        PROVE  /\ \A e \in ltm : e.ident = d.ident => e.no = d.no
               /\ \A e, f \in stm : e.ident = d.ident /\ f.ident = d.ident => e = f
    <3>1. IsFiniteSet(Having(ltm, d.ident)) /\ IsFiniteSet(Having(stm, d.ident))
      BY <1>0, FS_Subset DEF Having, MemBase, MemTyped
    <3>2. \E x : Having(ltm, d.ident) = {x}
      BY <2>2, <2>3, <3>1, FS_Singleton
    <3>3. Cardinality(Having(stm, d.ident)) \in Nat
      BY <3>1, FS_CardinalityType
    <3>4. Having(stm, d.ident) = {} \/ \E x : Having(stm, d.ident) = {x}
      BY <2>2, <2>3, <3>1, <3>3, FS_Singleton, FS_EmptySet
    <3> QED
      BY <3>2, <3>4 DEF Having
  <2>4. GoneOf(m)'
    <3>1. d.ident \notin gone
      BY DEF GoneInv
    <3> QED
      BY <2>1, <2>2, <2>3, <3>1 DEF GoneOf, Fields
  <2> QED
    BY <2>1, <2>4, NextGoneQuiet
<1>3. ASSUME NEW m \in MemActor, NEW a, BeginWarmup(m, a) PROVE GoneInv'
  <2>1. /\ Others(m) /\ MemBase' /\ gone' = gone /\ ltm' = ltm /\ stm' = stm
        /\ memOps'[m].pc = "wclear" /\ memOps'[m].left = Newest(OfAgent(ltm, a), StmMax)
    BY <1>0, <1>3, BeginWarmupIs DEF BeginWarmup, Fields
  <2>2. GoneOf(m)'
    BY <2>1 DEF GoneOf, GoneInv, Newest, OfAgent
  <2> QED
    BY <2>1, <2>2, NextGoneQuiet
<1>4. ASSUME NEW m \in MemActor, Find(m) PROVE GoneInv'
  BY <1>0, <1>4, FindIs, NextGoneAlong DEF Find, Fields
<1>5. ASSUME NEW m \in MemActor, Write(m) PROVE GoneInv'
  <2>1. /\ Others(m) /\ MemBase' /\ gone' = gone /\ stm' = stm
        /\ memOps[m].pc = "write" /\ memOps'[m].pc \in {"vector", "count"} /\ memOps'[m].ident = memOps[m].ident
    BY <1>0, <1>5, WriteIs DEF Write, Fields
  <2>2. \A e \in ltm' \ ltm : e.ident \in memOps[m].ident
    BY <1>0, <1>5, WriteIs
  <2> QED
    BY <2>1, <2>2, NextGoneAlong
<1>6. ASSUME NEW m \in MemActor, CountDocuments(m) PROVE GoneInv'
  BY <1>0, <1>6, CountIs, NextGoneAlong DEF CountDocuments, Fields
<1>7. ASSUME NEW m \in MemActor, ListOldest(m) PROVE GoneInv'
  <2>1. /\ Others(m) /\ MemBase' /\ gone' = gone /\ stm' = stm /\ ltm' = ltm
        /\ memOps[m].pc = "list" /\ memOps'[m].pc \in {"vector", "forget"} /\ memOps'[m].ident = memOps[m].ident
    BY <1>0, <1>7, ListIs DEF ListOldest, Fields
  <2> QED
    BY <2>1, NextGoneAlong
<1>8. ASSUME NEW m \in MemActor, Forget(m) PROVE GoneInv'
  <2>1. /\ Others(m) /\ MemBase' /\ gone' = gone /\ stm' = stm /\ ltm' \subseteq ltm
        /\ memOps[m].pc = "forget" /\ memOps'[m].pc \in {"vector", "forget"} /\ memOps'[m].ident = memOps[m].ident
    BY <1>0, <1>8, ForgetIs DEF Forget, Fields
  <2> QED
    BY <2>1, NextGoneAlong
<1>9. ASSUME NEW m \in MemActor, StoreRaises(m) \/ StmFails(m) PROVE GoneInv'
  BY <1>0, <1>9, ErrorIs, NextGoneEnd DEF StoreRaises, StmFails
<1>10. ASSUME NEW m \in MemActor, StoreVector(m) PROVE GoneInv'
  BY <1>0, <1>10, VectorIs, NextGoneAlong DEF StoreVector, Fields
<1>11. ASSUME NEW m \in MemActor, Zrange(m) PROVE GoneInv'
  <2>1. /\ Others(m) /\ MemBase' /\ gone' = gone /\ stm' = stm /\ ltm' = ltm
        /\ memOps[m].pc = "zrange" /\ memOps'[m].pc \in {"zadd", "zrem"} /\ memOps'[m].ident = memOps[m].ident
    BY <1>0, <1>11, ZrangeIs DEF Zrange, Fields
  <2> QED
    BY <2>1, NextGoneAlong
<1>12. ASSUME NEW m \in MemActor, Zrem(m) PROVE GoneInv'
  BY <1>0, <1>12, ZremIs, NextGoneAlong DEF Zrem, Fields
<1>13. ASSUME NEW m \in MemActor, Zadd(m) PROVE GoneInv'
  <2>1. /\ Others(m) /\ MemBase' /\ gone' = gone /\ ltm' = ltm
        /\ memOps[m].pc = "zadd" /\ memOps'[m].pc = "zcard" /\ memOps'[m].ident = memOps[m].ident
        /\ \A e \in stm' \ stm : e.ident \in memOps[m].ident
    BY <1>0, <1>13, ZaddIs DEF Zadd, Fields
  <2> QED
    BY <2>1, NextGoneAlong
<1>14. ASSUME NEW m \in MemActor, Zcard(m) PROVE GoneInv'
  <2>1. /\ Others(m) /\ MemBase' /\ gone' = gone /\ stm' = stm /\ ltm' = ltm /\ memOps[m].pc = "zcard"
    BY <1>0, <1>14, ZcardIs DEF Zcard
  <2>2. CASE Finish(m)
    BY <1>0, <1>14, <2>1, <2>2, FinishIs, NextGoneEnd DEF Zcard
  <2>3. CASE memOps'[m].pc = "ztrim" /\ memOps'[m].ident = memOps[m].ident
    BY <2>1, <2>3, NextGoneAlong
  <2> QED
    BY <1>0, <1>14, <2>2, <2>3, ZcardIs DEF Fields
<1>15. ASSUME NEW m \in MemActor, Ztrim(m) PROVE GoneInv'
  BY <1>0, <1>15, ZtrimIs, NextGoneEnd DEF Ztrim
<1>16. ASSUME NEW m \in MemActor, DeleteZrange(m) PROVE GoneInv'
  <2>1. /\ Others(m) /\ MemBase' /\ gone' = gone /\ stm' = stm /\ ltm' = ltm /\ memOps[m].pc = "drange"
    BY <1>0, <1>16, DeleteZrangeIs DEF DeleteZrange
  <2>2. PICK k \in Identities :
          /\ memOps[m].ident = {k}
          /\ LET raw == Oldest(Having(stm, k), 1)
             IN \/ Fields(memOps'[m], IF raw = {} THEN "ddoc" ELSE "drem", {k}, memOps[m].found,
                           memOps[m].at, {}, raw, memOps[m].excess, memOps[m].clean, memOps[m].whole)
                \/ Fields(memOps'[m], "ddoc", {k}, memOps[m].found, memOps[m].at, {}, memOps[m].raw,
                          memOps[m].excess, memOps[m].clean, FALSE)
    BY <1>0, <1>16, DeleteZrangeIs
  <2>3. ASSUME memOps[m].clean, NEW d \in memOps[m].found
        PROVE  /\ d.ident = k /\ Oldest(Having(stm, k), 1) = Having(stm, k)
               /\ \A e \in ltm : e.ident = d.ident => e.no = d.no
    <3>1. d.ident = k
      BY <1>0, <2>2 DEF OpShaped
    <3>2. \A e, f \in Having(stm, k) : e = f
      BY <1>0, <2>1, <2>3, <3>1 DEF GoneOf, Having
    <3>3. \A e \in Having(stm, k) : e.at \in Nat
      BY <1>0 DEF Having, MemBase, MemTyped, Entry
    <3>4. \A e \in ltm : e.ident = d.ident => e.no = d.no
      BY <1>0, <2>1, <2>3 DEF GoneOf
    <3> QED
      BY <3>1, <3>2, <3>3, <3>4, OldestOfOne
  <2>4. GoneOf(m)'
    <3>1. k \notin gone
      BY <1>0, <2>1, <2>2 DEF GoneOf
    <3>2. CASE Fields(memOps'[m], "ddoc", {k}, memOps[m].found, memOps[m].at, {}, memOps[m].raw,
                      memOps[m].excess, memOps[m].clean, FALSE)
      BY <2>1, <2>3, <3>1, <3>2 DEF GoneOf, Fields
    <3>3. ASSUME NEW raw, raw = Oldest(Having(stm, k), 1),
                 Fields(memOps'[m], IF raw = {} THEN "ddoc" ELSE "drem", {k}, memOps[m].found,
                        memOps[m].at, {}, raw, memOps[m].excess, memOps[m].clean, memOps[m].whole)
          PROVE  GoneOf(m)'
      <4>1. ASSUME memOps[m].clean, NEW d \in memOps[m].found
            PROVE  /\ \A e \in ltm : e.ident = d.ident => e.no = d.no
                   /\ \A e \in stm : e.ident = d.ident => e \in raw
        BY <2>3, <3>3, <4>1 DEF Having
      <4> QED
        BY <2>1, <3>1, <3>3, <4>1 DEF GoneOf, Fields
    <3> QED
      BY <2>2, <3>2, <3>3
  <2> QED
    BY <2>1, <2>4, NextGoneQuiet
<1>17. ASSUME NEW m \in MemActor, DeleteZrem(m) PROVE GoneInv'
  <2>1. /\ Others(m) /\ MemBase' /\ gone' = gone /\ stm' \subseteq stm /\ ltm' = ltm /\ memOps[m].pc = "drem"
        /\ Fields(memOps'[m], "ddoc", memOps[m].ident, memOps[m].found, memOps[m].at, {}, memOps[m].raw,
                   memOps[m].excess, memOps[m].clean, memOps'[m].whole)
        /\ memOps'[m].whole => stm' = stm \ memOps[m].raw
    BY <1>0, <1>17, DeleteZremIs DEF DeleteZrem
  <2>2. GoneOf(m)'
    BY <1>0, <2>1 DEF GoneOf, Fields
  <2> QED
    BY <2>1, <2>2, NextGoneQuiet
<1>18. ASSUME NEW m \in MemActor, DeleteDocument(m) PROVE GoneInv'
  <2>1. /\ Others(m) /\ MemBase' /\ stm' = stm /\ memOps[m].pc = "ddoc"
        /\ Fields(memOps'[m], "done", {}, {}, 0, {}, {}, 0, FALSE, TRUE)
    BY <1>0, <1>18, DeleteDocumentIs DEF DeleteDocument
  <2>2. PICK d \in memOps[m].found :
              /\ memOps[m].found = {d} /\ memOps[m].ident = {d.ident}
              /\ ltm' = {e \in ltm : e.no # d.no}
              /\ gone' = IF memOps[m].clean /\ memOps[m].whole THEN gone \cup {d.ident} ELSE gone
    BY <1>0, <1>18, DeleteDocumentIs
  <2>3. ltm' \subseteq ltm
    BY <2>2
  <2>4. CASE ~(memOps[m].clean /\ memOps[m].whole)
    BY <2>1, <2>2, <2>3, <2>4, NextGoneEnd
  <2>5. CASE memOps[m].clean /\ memOps[m].whole
    <3>1. gone' = gone \cup {d.ident}
      BY <2>2, <2>5
    <3>2. \A e \in ltm' \cup stm' : e.ident # d.ident
      BY <1>0, <2>1, <2>2, <2>5 DEF GoneOf
    <3>3. \A x \in MemActor \ {m} : d.ident \notin memOps[x].ident
      BY <1>0, <2>2, <2>5 DEF MemBase, CleanAlone
    <3>4. GoneOf(m)'
      BY <2>1 DEF GoneOf, Fields
    <3>5. \A e \in ltm' \cup stm' : e.ident \notin gone'
      BY <2>1, <2>3, <3>1, <3>2 DEF GoneInv
    <3> QED
      BY <2>1, <2>3, <3>1, <3>3, <3>4, <3>5, NextGone
  <2> QED
    BY <2>4, <2>5
<1>19. ASSUME NEW m \in MemActor, WarmupClear(m) PROVE GoneInv'
  <2>1. /\ Others(m) /\ MemBase' /\ gone' = gone /\ stm' \subseteq stm /\ ltm' = ltm /\ memOps[m].pc = "wclear"
        /\ memOps'[m].pc = "wadd" /\ memOps'[m].ident = memOps[m].ident /\ memOps'[m].left = memOps[m].left
    BY <1>0, <1>19, WarmupClearIs DEF WarmupClear, Fields
  <2> QED
    BY <2>1, NextGoneAlong
<1>20. ASSUME NEW m \in MemActor, WarmupFill(m) PROVE GoneInv'
  <2>1. /\ Others(m) /\ MemBase' /\ gone' = gone /\ ltm' = ltm /\ memOps[m].pc = "wadd"
        /\ stm' = stm \cup {EntryOf(d) : d \in memOps[m].left}
        /\ memOps'[m].pc = "zcard" /\ memOps'[m].ident = memOps[m].ident
    BY <1>0, <1>20, WarmupFillIs DEF WarmupFill, Fields
  <2>2. \A d \in memOps[m].left : d.ident \in memOps[m].ident /\ d.ident \notin gone
    BY <1>0, <2>1 DEF GoneOf, OpShaped
  <2>3. \A e \in stm' \ stm : e.ident \in memOps[m].ident /\ e.ident \notin gone
    BY <2>1, <2>2 DEF EntryOf
  <2> QED
    BY <2>1, <2>3, NextGoneAlong
<1>21. ASSUME NEW m \in MemActor, UpdateMemory(m) PROVE GoneInv'
  <2>1. /\ Others(m) /\ MemBase' /\ gone' = gone /\ stm' = stm /\ memOps[m].pc = "uset"
        /\ Fields(memOps'[m], "done", {}, {}, 0, {}, {}, 0, FALSE, TRUE)
    BY <1>0, <1>21, UpdateIs DEF UpdateMemory
  <2>2. PICK d \in memOps[m].found :
          /\ d.ident \in memOps[m].ident
          /\ \A x \in MemActor \ {m} : d.ident \in memOps[x].ident => ~memOps'[x].clean
          /\ \/ ltm' = ltm
             \/ \E n \in Doc : ltm' = {e \in ltm : e.no # n.no} \cup {n} /\ n.ident = d.ident
    BY <1>0, <1>21, UpdateIs
  <2>6. \A e \in ltm' \ ltm : e.ident = d.ident
    BY <2>2
  <2>3. d.ident \notin gone
    BY <2>1, <2>2 DEF GoneInv, GoneOf, WarmupPcs, TrimPcs
  <2>4. GoneOf(m)'
    BY <2>1 DEF GoneOf, Fields
  <2>5. \A e \in ltm' \cup stm' : e.ident \notin gone'
    BY <2>1, <2>3, <2>6 DEF GoneInv
  <2> QED
    BY <2>1, <2>2, <2>4, <2>5, <2>6, NextGone
<1>24. ASSUME NEW m \in MemActor, BeginUpdate(m) PROVE GoneInv'
  <2>1. /\ Others(m) /\ MemBase' /\ gone' = gone /\ ltm' = ltm /\ stm' = stm
    BY <1>0, <1>24, BeginUpdateIs DEF BeginUpdate
  <2>2. PICK d \in ltm : Fields(memOps'[m], "uset", {d.ident}, {d}, memClock + 1, {}, {}, 0, FALSE, TRUE)
    BY <1>0, <1>24, BeginUpdateIs
  <2>3. d.ident \notin gone
    BY DEF GoneInv
  <2>4. GoneOf(m)'
    BY <2>1, <2>2, <2>3 DEF GoneOf, Fields, WarmupPcs
  <2> QED
    BY <2>1, <2>4, NextGoneQuiet
<1>22. ASSUME Prune PROVE GoneInv'
  <2>1. /\ MemBase' /\ ltm' \subseteq ltm /\ stm' = stm /\ gone' = gone
        /\ \A x \in MemActor : Weaker(memOps'[x], memOps[x])
    BY <1>0, <1>22, PruneIs DEF Prune
  <2>2. \A x \in MemActor : GoneOf(x)'
    BY <1>0, <2>1 DEF GoneOf, Weaker
  <2> QED
    BY <2>1, <2>2 DEF GoneInv
<1>23. ASSUME UNCHANGED memVars PROVE GoneInv'
  BY <1>0, <1>23 DEF memVars, GoneInv, GoneOf, MemBase, MemTyped, Stamped, Numbered, Known, Written, CleanAlone
<1> QED
  BY <1>1, <1>2, <1>3, <1>4, <1>5, <1>6, <1>7, <1>8, <1>9, <1>10, <1>11, <1>12, <1>13, <1>14, <1>15,
     <1>16, <1>17, <1>18, <1>19, <1>20, <1>21, <1>22, <1>23, <1>24 DEF MemoryNext

\* A memory that was deleted while nothing else touched it, and while it had one
\* document and one entry, stays away until it is stored again, for any number of
\* operations, identities and agents.
THEOREM DeletionsLast == MemorySpec => []DeletedIsForgotten
<1>1. MemoryInit => GoneInv
  BY InitMemBase, IdleFields DEF MemoryInit, GoneInv, GoneOf, Fields
<1>2. GoneInv => DeletedIsForgotten
  BY DEF GoneInv, DeletedIsForgotten, Having
<1> QED
  BY <1>1, <1>2, NextGoneMem, PTL DEF MemorySpec

-----------------------------------------------------------------------------
(* Memory: the caps *)

AboutAgent(m, a) == \E k \in memOps[m].ident : k.agent = a

\* What the store of m leaves of the documents of the agent.
KeptBy(m, a) == {d \in OfAgent(ltm, a) : \A e \in memOps[m].left : e.no # d.no}

\* A store is about to see to the cap.
TrimsLtm(m, a) ==
  /\ AboutAgent(m, a)
  /\ \/ memOps[m].pc = "count"
     \/ memOps[m].pc = "list" /\ Cardinality(OfAgent(ltm, a)) <= LtmCap + memOps[m].excess
     \/ memOps[m].pc = "forget" /\ Cardinality(KeptBy(m, a)) <= LtmCap

LtmBounded(a) ==
  LtmCap > 0 /\ <<a, "ltm">> \notin spilled =>
    Cardinality(OfAgent(ltm, a)) <= LtmCap \/ \E m \in MemActor : TrimsLtm(m, a)

TrimsStm(m, a) ==
  /\ AboutAgent(m, a)
  /\ \/ memOps[m].pc = "zcard"
     \/ memOps[m].pc = "ztrim" /\ Cardinality(OfAgent(stm, a)) <= StmMax + memOps[m].excess

StmBounded(a) ==
  <<a, "stm">> \notin spilled =>
    Cardinality(OfAgent(stm, a)) <= StmMax \/ \E m \in MemActor : TrimsStm(m, a)

\* Unless two stores of it have overlapped, a memory has one document, one store
\* writes it, and has found it.
Single(k) ==
  k \notin raced =>
    /\ \A d, e \in ltm : d.ident = k /\ e.ident = k => d = e
    /\ \A m, x \in MemActor :
         (memOps[m].pc \in StorePcs /\ k \in memOps[m].ident /\ memOps[x].pc \in StorePcs /\ k \in memOps[x].ident)
           => m = x
    /\ \A m \in MemActor : memOps[m].pc = "write" /\ k \in memOps[m].ident =>
         \A d \in ltm : d.ident = k => \E f \in memOps[m].found : f.no = d.no

BoundInv ==
  /\ MemBase
  /\ \A a \in MemAgents : LtmBounded(a) /\ StmBounded(a)
  /\ \A k \in Identities : Single(k)

LEMMA SizesOf ==
  ASSUME NEW S, IsFiniteSet(S), NEW a
  PROVE  /\ IsFiniteSet(OfAgent(S, a)) /\ Cardinality(OfAgent(S, a)) \in Nat
         /\ \A T : T \subseteq OfAgent(S, a) => IsFiniteSet(T) /\ Cardinality(T) \in Nat
<1>1. IsFiniteSet(OfAgent(S, a))
  BY FS_Subset DEF OfAgent
<1>2. ASSUME NEW T, T \subseteq OfAgent(S, a) PROVE IsFiniteSet(T) /\ Cardinality(T) \in Nat
  BY <1>1, <1>2, FS_Subset, FS_CardinalityType
<1> QED
  BY <1>1, <1>2, FS_CardinalityType

LEMMA SizesAre ==
  ASSUME MemBase, NEW a
  PROVE  /\ IsFiniteSet(OfAgent(ltm, a)) /\ Cardinality(OfAgent(ltm, a)) \in Nat
         /\ IsFiniteSet(OfAgent(stm, a)) /\ Cardinality(OfAgent(stm, a)) \in Nat
         /\ \A m : IsFiniteSet(KeptBy(m, a)) /\ Cardinality(KeptBy(m, a)) \in Nat
<1>1. IsFiniteSet(ltm) /\ IsFiniteSet(stm)
  BY DEF MemBase, MemTyped
<1>2. \A m : KeptBy(m, a) \subseteq OfAgent(ltm, a)
  BY DEF KeptBy
<1> QED
  BY <1>1, <1>2, SizesOf

LEMMA NextSizes ==
  ASSUME MemBase', NEW a
  PROVE  /\ IsFiniteSet(OfAgent(ltm, a)') /\ Cardinality(OfAgent(ltm, a)') \in Nat
         /\ IsFiniteSet(OfAgent(stm, a)') /\ Cardinality(OfAgent(stm, a)') \in Nat
         /\ \A m : IsFiniteSet(KeptBy(m, a)') /\ Cardinality(KeptBy(m, a)') \in Nat
<1>1. IsFiniteSet(ltm') /\ IsFiniteSet(stm')
  BY DEF MemBase, MemTyped
<1>2. IsFiniteSet(OfAgent(ltm', a)) /\ Cardinality(OfAgent(ltm', a)) \in Nat
  BY <1>1, SizesOf
<1>3. IsFiniteSet(OfAgent(stm', a)) /\ Cardinality(OfAgent(stm', a)) \in Nat
  BY <1>1, SizesOf
<1>4. ASSUME NEW m PROVE IsFiniteSet(KeptBy(m, a)') /\ Cardinality(KeptBy(m, a)') \in Nat
  <2>1. KeptBy(m, a)' \subseteq OfAgent(ltm', a)
    BY DEF KeptBy, OfAgent
  <2> QED
    BY <1>1, <2>1, SizesOf
<1> QED
  BY <1>2, <1>3, <1>4 DEF OfAgent

\* The documents of an agent, after a step that adds none to them.
LEMMA NextLtmBounded ==
  ASSUME MemBase, MemBase', NEW m \in MemActor, Others(m), NEW a, LtmBounded(a),
         Cardinality(OfAgent(ltm, a)') <= Cardinality(OfAgent(ltm, a)),
         \A x \in MemActor \ {m} : Cardinality(KeptBy(x, a)') <= Cardinality(KeptBy(x, a)),
         LtmCap > 0 /\ (TrimsLtm(m, a) \/ <<a, "ltm">> \in spilled) /\ <<a, "ltm">> \notin spilled' =>
           TrimsLtm(m, a)' \/ Cardinality(OfAgent(ltm, a)') <= LtmCap
  PROVE  LtmBounded(a)'
<1> SUFFICES ASSUME LtmCap > 0, <<a, "ltm">> \notin spilled',
                    ~(Cardinality(OfAgent(ltm, a)') <= LtmCap)
             PROVE  \E x \in MemActor : TrimsLtm(x, a)'
  BY DEF LtmBounded
<1>1. /\ Cardinality(OfAgent(ltm, a)') \in Nat /\ Cardinality(OfAgent(ltm, a)) \in Nat /\ LtmCap \in Nat
      /\ \A x : Cardinality(KeptBy(x, a)) \in Nat /\ Cardinality(KeptBy(x, a)') \in Nat
  BY SizesAre, NextSizes, CapsAreNaturals
<1>2. CASE <<a, "ltm">> \in spilled
  BY <1>2
<1>3. ASSUME NEW x \in MemActor, TrimsLtm(x, a) PROVE \E y \in MemActor : TrimsLtm(y, a)'
  <2>1. CASE x = m
    BY <1>3, <2>1
  <2>2. CASE x # m
    BY <1>1, <1>3, <2>2, Progress DEF TrimsLtm, AboutAgent, Others, Weaker
  <2> QED
    BY <2>1, <2>2
<1> QED
  BY <1>1, <1>2, <1>3 DEF LtmBounded

LEMMA NextStmBounded ==
  ASSUME MemBase, MemBase', NEW m \in MemActor, Others(m), NEW a, StmBounded(a),
         Cardinality(OfAgent(stm, a)') <= Cardinality(OfAgent(stm, a)),
         (TrimsStm(m, a) \/ <<a, "stm">> \in spilled) /\ <<a, "stm">> \notin spilled' =>
           TrimsStm(m, a)' \/ Cardinality(OfAgent(stm, a)') <= StmMax
  PROVE  StmBounded(a)'
<1> SUFFICES ASSUME <<a, "stm">> \notin spilled', ~(Cardinality(OfAgent(stm, a)') <= StmMax)
             PROVE  \E x \in MemActor : TrimsStm(x, a)'
  BY DEF StmBounded
<1>1. Cardinality(OfAgent(stm, a)') \in Nat /\ Cardinality(OfAgent(stm, a)) \in Nat /\ StmMax \in Nat
  BY SizesAre, NextSizes, CapsAreNaturals
<1>2. CASE <<a, "stm">> \in spilled
  BY <1>2
<1>3. ASSUME NEW x \in MemActor, TrimsStm(x, a) PROVE \E y \in MemActor : TrimsStm(y, a)'
  <2>1. CASE x = m
    BY <1>3, <2>1
  <2>2. CASE x # m
    BY <1>1, <1>3, <2>2, Progress DEF TrimsStm, AboutAgent, Others, Weaker
  <2> QED
    BY <2>1, <2>2
<1> QED
  BY <1>1, <1>2, <1>3 DEF StmBounded

LEMMA Fewer ==
  ASSUME MemBase, MemBase', NEW m \in MemActor, Others(m), NEW a
  PROVE  /\ ltm' \subseteq ltm =>
              /\ Cardinality(OfAgent(ltm, a)') <= Cardinality(OfAgent(ltm, a))
              /\ \A x \in MemActor \ {m} : Cardinality(KeptBy(x, a)') <= Cardinality(KeptBy(x, a))
         /\ stm' \subseteq stm => Cardinality(OfAgent(stm, a)') <= Cardinality(OfAgent(stm, a))
<1>1. ASSUME ltm' \subseteq ltm
      PROVE  /\ Cardinality(OfAgent(ltm, a)') <= Cardinality(OfAgent(ltm, a))
             /\ \A x \in MemActor \ {m} : Cardinality(KeptBy(x, a)') <= Cardinality(KeptBy(x, a))
  <2>1. OfAgent(ltm, a)' \in SUBSET OfAgent(ltm, a)
    BY <1>1 DEF OfAgent
  <2>2. ASSUME NEW x \in MemActor \ {m} PROVE KeptBy(x, a)' \in SUBSET KeptBy(x, a)
    BY <1>1 DEF OfAgent, KeptBy, Others, Weaker
  <2> QED
    BY <2>1, <2>2, SizesAre, FS_Subset
<1>2. ASSUME stm' \subseteq stm PROVE Cardinality(OfAgent(stm, a)') <= Cardinality(OfAgent(stm, a))
  <2>1. OfAgent(stm, a)' \in SUBSET OfAgent(stm, a)
    BY <1>2 DEF OfAgent
  <2> QED
    BY <2>1, SizesAre, FS_Subset
<1> QED
  BY <1>1, <1>2

LEMMA NextSingle ==
  ASSUME NEW k, Single(k), NEW m \in MemActor, Others(m), raced' = raced,
         \A d, e \in ltm' : d.ident = k /\ e.ident = k => d = e \/ (d \in ltm /\ e \in ltm),
         \A d \in ltm' : d.ident = k => d \in ltm \/
           \A x \in MemActor : memOps'[x].pc = "write" => k \notin memOps'[x].ident,
         memOps'[m].pc \in StorePcs => memOps[m].pc \in StorePcs /\ memOps'[m].ident = memOps[m].ident,
         memOps'[m].pc # "write"
  PROVE  Single(k)'
<1> SUFFICES ASSUME k \notin raced PROVE Single(k)'
  BY DEF Single
<1>1. \A d, e \in ltm' : d.ident = k /\ e.ident = k => d = e
  BY DEF Single
<1>2. ASSUME NEW y \in MemActor, NEW x \in MemActor,
             memOps'[y].pc \in StorePcs /\ k \in memOps'[y].ident,
             memOps'[x].pc \in StorePcs /\ k \in memOps'[x].ident
      PROVE  y = x
  BY <1>2 DEF Single, Others, Weaker
<1>3. ASSUME NEW x \in MemActor, memOps'[x].pc = "write", k \in memOps'[x].ident, NEW d \in ltm', d.ident = k
      PROVE  \E f \in memOps'[x].found : f.no = d.no
  <2>1. x # m /\ d \in ltm
    BY <1>3
  <2> QED
    BY <1>3, <2>1 DEF Single, Others, Weaker
<1> QED
  BY <1>1, <1>2, <1>3 DEF Single

\* A step that adds nothing, writes nothing and begins no store.
LEMMA NextBound ==
  ASSUME BoundInv, MemBase', NEW m \in MemActor, Others(m), ltm' \subseteq ltm, stm' \subseteq stm, raced' = raced,
         \A a \in MemAgents :
           LtmCap > 0 /\ (TrimsLtm(m, a) \/ <<a, "ltm">> \in spilled) /\ <<a, "ltm">> \notin spilled' =>
             TrimsLtm(m, a)' \/ Cardinality(OfAgent(ltm, a)') <= LtmCap,
         \A a \in MemAgents :
           (TrimsStm(m, a) \/ <<a, "stm">> \in spilled) /\ <<a, "stm">> \notin spilled' =>
             TrimsStm(m, a)' \/ Cardinality(OfAgent(stm, a)') <= StmMax,
         memOps'[m].pc \in StorePcs => memOps[m].pc \in StorePcs /\ memOps'[m].ident = memOps[m].ident,
         memOps'[m].pc # "write"
  PROVE  BoundInv'
<1>1. MemAgents' = MemAgents
  BY DEF MemAgents
<1>2. ASSUME NEW a \in MemAgents PROVE LtmBounded(a)' /\ StmBounded(a)'
  BY Fewer, NextLtmBounded, NextStmBounded DEF BoundInv
<1>3. ASSUME NEW k \in Identities PROVE Single(k)'
  BY NextSingle DEF BoundInv
<1> QED
  BY <1>1, <1>2, <1>3 DEF BoundInv

\* Of which agent an operation is.
LEMMA AboutOne ==
  ASSUME MemBase, NEW m \in MemActor, NEW a, AboutAgent(m, a)
  PROVE  AgentOf(m) = a /\ a \in MemAgents
<1>1. PICK k \in memOps[m].ident : k.agent = a
  BY DEF AboutAgent
<1>2. AgentOf(m) = a
  BY <1>1, AgentIs
<1>3. memOps[m].ident \subseteq Identities
  BY DEF MemBase, MemTyped, MemOp
<1> QED
  BY <1>1, <1>2, <1>3 DEF MemAgents

\* A step of an operation that is not about to trim.
LEMMA NextBoundAside ==
  ASSUME BoundInv, MemBase', NEW m \in MemActor, Others(m), ltm' \subseteq ltm, stm' \subseteq stm, raced' = raced,
         spilled \subseteq spilled',
         memOps[m].pc \notin {"count", "list", "forget"} \cup TrimPcs,
         memOps'[m].pc \in StorePcs => memOps[m].pc \in StorePcs /\ memOps'[m].ident = memOps[m].ident,
         memOps'[m].pc # "write"
  PROVE  BoundInv'
<1>1. \A a : ~TrimsLtm(m, a) /\ ~TrimsStm(m, a)
  BY DEF TrimsLtm, TrimsStm, TrimPcs
<1> QED
  BY <1>1, NextBound

\* One that fails.
LEMMA NextBoundFails ==
  ASSUME BoundInv, MemBase', NEW m \in MemActor, Others(m), ltm' = ltm, stm' = stm, raced' = raced,
         spilled \subseteq spilled', memOps'[m].pc = "done",
         memOps[m].pc \in {"count", "list", "forget"} => <<AgentOf(m), "ltm">> \in spilled',
         memOps[m].pc \in TrimPcs => <<AgentOf(m), "stm">> \in spilled'
  PROVE  BoundInv'
<1>0. MemBase
  BY DEF BoundInv
<1>1. ASSUME NEW a, TrimsLtm(m, a) PROVE <<a, "ltm">> \in spilled'
  BY <1>0, <1>1, AboutOne DEF TrimsLtm
<1>2. ASSUME NEW a, TrimsStm(m, a) PROVE <<a, "stm">> \in spilled'
  BY <1>0, <1>2, AboutOne DEF TrimsStm, TrimPcs
<1>3. memOps'[m].pc \notin StorePcs /\ memOps'[m].pc # "write"
  BY DEF StorePcs
<1> QED
  BY <1>1, <1>2, <1>3, NextBound

LEMMA BoundStart ==
  ASSUME BoundInv, NEW m \in MemActor, NEW k \in Identities, BeginStore(m, k)
  PROVE  BoundInv'
<1>0. MemBase /\ \A x \in MemActor : OpShaped(memOps[x])
  BY Progress DEF BoundInv
<1>1. /\ Others(m) /\ MemBase' /\ memOps[m].pc = "idle"
      /\ Fields(memOps'[m], "find", {k}, {}, 0, {}, {}, 0, memOps'[m].clean, TRUE)
  BY <1>0, BeginStoreIs, IdleFields DEF Fields
<1>2. /\ ltm' = ltm /\ stm' = stm /\ spilled' = spilled
      /\ raced' = IF \E x \in On({k}) : memOps[x].pc \in StorePcs \cup TrimPcs THEN raced \cup {k} ELSE raced
  BY DEF BeginStore
<1>3. \A a : ~TrimsLtm(m, a) /\ ~TrimsStm(m, a)
  BY <1>1 DEF TrimsLtm, TrimsStm
<1>4. ASSUME NEW a \in MemAgents PROVE LtmBounded(a)' /\ StmBounded(a)'
  BY <1>0, <1>1, <1>2, <1>3, Fewer, NextLtmBounded, NextStmBounded DEF BoundInv
<1>5. ASSUME NEW l \in Identities, l # k PROVE Single(l)'
  <2>1. Single(l) /\ (l \in raced' => l \in raced) /\ (l \in raced => l \in raced')
    BY <1>2, <1>5 DEF BoundInv
  <2>2. l \notin memOps'[m].ident
    BY <1>1, <1>5 DEF Fields
  <2> QED
    BY <1>1, <1>2, <2>1, <2>2 DEF Single, Others, Weaker
<1>6. ASSUME k \notin raced' PROVE Single(k)'
  <2>1. ASSUME NEW x \in MemActor, memOps[x].pc \in StorePcs, k \in memOps[x].ident PROVE FALSE
    <3>1. x \in On({k})
      BY <2>1 DEF On, Busy, StorePcs
    <3> QED
      BY <1>2, <1>6, <2>1, <3>1
  <2>2. ASSUME NEW x \in MemActor, memOps'[x].pc \in StorePcs, k \in memOps'[x].ident PROVE x = m
    BY <2>1, <2>2, <1>1 DEF Others, Weaker
  <2>3. k \notin raced /\ Single(k)
    BY <1>2, <1>6 DEF BoundInv
  <2>4. memOps'[m].pc # "write" /\ "write" \in StorePcs
    BY <1>1 DEF Fields, StorePcs
  <2> QED
    BY <1>2, <2>2, <2>3, <2>4 DEF Single
<1>7. MemAgents' = MemAgents
  BY DEF MemAgents
<1> QED
  BY <1>1, <1>4, <1>5, <1>6, <1>7 DEF BoundInv, Single

LEMMA BoundFind ==
  ASSUME BoundInv, NEW m \in MemActor, Find(m)
  PROVE  BoundInv'
<1>0. MemBase /\ \A x \in MemActor : OpShaped(memOps[x])
  BY Progress DEF BoundInv
<1>1. /\ Others(m) /\ MemBase' /\ memOps[m].pc = "find"
      /\ Fields(memOps'[m], "write", memOps[m].ident, memOps'[m].found, memClock + 1, memOps[m].left,
                memOps[m].raw, memOps[m].excess, memOps[m].clean, memOps[m].whole)
  BY <1>0, FindIs
<1>2. PICK k \in Identities : memOps[m].ident = {k}
  BY <1>0, <1>1, OneIdent DEF StorePcs
<1>3. memOps'[m].found \subseteq Having(ltm, k) /\ (memOps'[m].found = {} => Having(ltm, k) = {})
  BY <1>0, <1>2, FindIs
<1>4. ltm' = ltm /\ stm' = stm /\ spilled' = spilled /\ raced' = raced
  BY DEF Find
<1>5. \A a : ~TrimsLtm(m, a) /\ ~TrimsStm(m, a)
  BY <1>1 DEF TrimsLtm, TrimsStm
<1>6. ASSUME NEW a \in MemAgents PROVE LtmBounded(a)' /\ StmBounded(a)'
  BY <1>0, <1>1, <1>4, <1>5, Fewer, NextLtmBounded, NextStmBounded DEF BoundInv
<1>7. ASSUME NEW l \in Identities, l \notin raced PROVE Single(l)'
  <2>1. Single(l)
    BY DEF BoundInv
  <2>2. memOps[m].pc \in StorePcs
    BY <1>1 DEF StorePcs
  <2>3. ASSUME NEW x \in MemActor, memOps'[x].pc = "write", l \in memOps'[x].ident, NEW d \in ltm, d.ident = l
        PROVE  \E f \in memOps'[x].found : f.no = d.no
    <3>1. CASE x = m
      <4>1. l = k
        BY <1>1, <1>2, <2>3, <3>1 DEF Fields
      <4>2. d \in Having(ltm, k)
        BY <2>3, <4>1 DEF Having
      <4>3. PICK f \in memOps'[m].found : f \in Having(ltm, k)
        BY <1>3, <4>2
      <4>4. f = d
        BY <1>7, <2>1, <4>1, <4>2, <4>3 DEF Single, Having
      <4> QED
        BY <3>1, <4>3, <4>4
    <3>2. CASE x # m
      BY <1>1, <1>7, <2>1, <2>3, <3>2 DEF Single, Others, Weaker
    <3> QED
      BY <3>1, <3>2
  <2>4. ASSUME NEW x \in MemActor, NEW y \in MemActor, memOps'[x].pc \in StorePcs, l \in memOps'[x].ident,
               memOps'[y].pc \in StorePcs, l \in memOps'[y].ident
        PROVE  x = y
    BY <1>1, <1>7, <2>1, <2>2, <2>4 DEF Single, Others, Weaker, Fields
  <2> QED
    BY <1>4, <2>1, <2>3, <2>4, <1>7 DEF Single
<1>8. MemAgents' = MemAgents
  BY DEF MemAgents
<1> QED
  BY <1>1, <1>4, <1>6, <1>7, <1>8 DEF BoundInv, Single

LEMMA BoundWrite ==
  ASSUME BoundInv, NEW m \in MemActor, Write(m)
  PROVE  BoundInv'
<1>0. MemBase /\ \A x \in MemActor : OpShaped(memOps[x])
  BY Progress DEF BoundInv
<1>1. /\ Others(m) /\ MemBase' /\ memOps[m].pc = "write"
      /\ Fields(memOps'[m], IF LtmCap = 0 THEN "vector" ELSE "count", memOps[m].ident, memOps[m].found,
                memOps[m].at, {}, memOps[m].raw, memOps[m].excess, memOps[m].clean, memOps[m].whole)
  BY <1>0, WriteIs
<1>2. PICK k \in Identities : /\ memOps[m].ident = {k}
              /\ \/ /\ ltm' = ltm
                    /\ \E d \in memOps[m].found : \A e \in ltm : e.no # d.no
                 \/ \E n \in Doc :
                      /\ ltm' = {e \in ltm : e.no # n.no} \cup {n}
                      /\ n.ident = k /\ n.value = m /\ n.at = memOps[m].at
                      /\ \/ memOps[m].found = {} /\ n.no = m /\ \A e \in ltm : e.no # m
                         \/ \E d \in memOps[m].found : n.no = d.no
  BY <1>0, WriteIs
<1>3. stm' = stm /\ spilled' = spilled /\ raced' = raced
  BY DEF Write
<1>4. \A a : ~TrimsLtm(m, a) /\ ~TrimsStm(m, a)
  BY <1>1 DEF TrimsLtm, TrimsStm
<1>5. ASSUME NEW a \in MemAgents PROVE StmBounded(a)'
  BY <1>0, <1>1, <1>3, <1>4, Fewer, NextStmBounded DEF BoundInv
<1>6. ASSUME NEW a \in MemAgents, a # k.agent PROVE LtmBounded(a)'
  <2>1. OfAgent(ltm, a)' \in SUBSET OfAgent(ltm, a)
    BY <1>2, <1>6 DEF OfAgent
  <2>2. ASSUME NEW x \in MemActor \ {m} PROVE KeptBy(x, a)' \in SUBSET KeptBy(x, a)
    BY <1>1, <2>1 DEF KeptBy, OfAgent, Others, Weaker
  <2>3. /\ Cardinality(OfAgent(ltm, a)') <= Cardinality(OfAgent(ltm, a))
        /\ \A x \in MemActor \ {m} : Cardinality(KeptBy(x, a)') <= Cardinality(KeptBy(x, a))
    BY <1>0, <2>1, <2>2, SizesAre, FS_Subset
  <2> QED
    BY <1>0, <1>1, <1>3, <1>4, <2>3, NextLtmBounded DEF BoundInv
<1>7. LtmBounded(k.agent)'
  BY <1>1, <1>2 DEF LtmBounded, TrimsLtm, AboutAgent, Fields
<1>8. ASSUME NEW l \in Identities, l # k PROVE Single(l)'
  <2>1. Single(l) /\ \A d \in ltm' : d.ident = l => d \in ltm
    BY <1>2, <1>8 DEF BoundInv
  <2>2. memOps'[m].pc # "write" /\ "write" \in StorePcs /\ memOps[m].pc \in StorePcs /\ memOps'[m].ident = memOps[m].ident
    BY <1>1 DEF Fields, StorePcs
  <2> QED
    BY <1>1, <1>3, <2>1, <2>2, NextSingle
<1>9. ASSUME k \notin raced PROVE Single(k)'
  <2>1. Single(k)
    BY DEF BoundInv
  <2>2. memOps'[m].pc # "write" /\ "write" \in StorePcs /\ memOps[m].pc \in StorePcs /\ memOps'[m].ident = memOps[m].ident
    BY <1>1 DEF Fields, StorePcs
  <2>3. \A d \in ltm : d.ident = k => \E f \in memOps[m].found : f.no = d.no
    BY <1>1, <1>2, <1>9, <2>1 DEF Single
  <2>4. ASSUME NEW x \in MemActor, memOps'[x].pc = "write" PROVE k \notin memOps'[x].ident
    BY <1>1, <1>2, <1>9, <2>1, <2>2, <2>4 DEF Single, Others, Weaker
  <2>5. \A d, f \in memOps[m].found : d = f
    BY <1>0 DEF OpShaped
  <2>6. \A d, e \in ltm' : d.ident = k /\ e.ident = k => d = e \/ (d \in ltm /\ e \in ltm)
    BY <1>2, <2>3, <2>5
  <2> QED
    BY <1>1, <1>3, <2>1, <2>2, <2>4, <2>6, NextSingle
<1>10. MemAgents' = MemAgents
  BY DEF MemAgents
<1> QED
  BY <1>1, <1>3, <1>5, <1>6, <1>7, <1>8, <1>9, <1>10 DEF BoundInv, Single

LEMMA BoundCount ==
  ASSUME BoundInv, NEW m \in MemActor, CountDocuments(m)
  PROVE  BoundInv'
<1>0. MemBase
  BY DEF BoundInv
<1>1. PICK k \in Identities : memOps[m].ident = {k}
  BY <1>0, CountIs, OneIdent DEF StorePcs
<1>2. AgentOf(m) = k.agent
  BY <1>0, <1>1, AgentIs
<1> DEFINE b == k.agent
           n == LtmExcess(OfAgent(ltm, b))
<1>3. /\ Others(m) /\ MemBase' /\ memOps[m].pc = "count" /\ memOps'[m].ident = memOps[m].ident
      /\ \/ ~(n > 0) /\ memOps'[m].pc = "vector"
         \/ memOps'[m].pc = "list" /\ memOps'[m].excess = n
  BY <1>0, <1>2, CountIs DEF Fields
<1>4. ltm' = ltm /\ stm' = stm /\ spilled' = spilled \ {<<b, "ltm">>} /\ raced' = raced
  BY <1>2 DEF CountDocuments
<1>5. \A a : OfAgent(ltm, a)' = OfAgent(ltm, a)
  BY <1>4 DEF OfAgent
<1>6. Cardinality(OfAgent(ltm, b)) \in Nat /\ LtmCap \in Nat
  BY <1>0, SizesAre, CapsAreNaturals
<1>7. TrimsLtm(m, b)' \/ Cardinality(OfAgent(ltm, b)') <= LtmCap
  BY <1>3, <1>5, <1>6, <1>1 DEF TrimsLtm, AboutAgent, LtmExcess
<1>8. ASSUME NEW a, TrimsLtm(m, a) \/ <<a, "ltm">> \in spilled, <<a, "ltm">> \notin spilled' PROVE a = b
  BY <1>0, <1>4, <1>2, <1>8, AboutOne DEF TrimsLtm
<1>9. ASSUME NEW a, <<a, "stm">> \in spilled PROVE <<a, "stm">> \in spilled'
  BY <1>4, <1>9
<1>10. \A a : ~TrimsStm(m, a)
  BY <1>3 DEF TrimsStm
<1>11. memOps[m].pc \in StorePcs /\ memOps'[m].pc # "write"
  BY <1>3 DEF StorePcs
<1> HIDE DEF b, n
<1> QED
  BY <1>3, <1>4, <1>7, <1>8, <1>9, <1>10, <1>11, NextBound

LEMMA BoundList ==
  ASSUME BoundInv, NEW m \in MemActor, ListOldest(m)
  PROVE  BoundInv'
<1>0. MemBase
  BY DEF BoundInv
<1>1. PICK k \in Identities : memOps[m].ident = {k}
  BY <1>0, ListIs, OneIdent DEF StorePcs
<1>2. AgentOf(m) = k.agent
  BY <1>0, <1>1, AgentIs
<1> DEFINE b == k.agent
           S == OfAgent(ltm, b)
           oldest == Oldest(S, memOps[m].excess)
<1>3. /\ Others(m) /\ MemBase' /\ memOps[m].pc = "list" /\ memOps'[m].ident = memOps[m].ident
      /\ memOps'[m].pc = IF oldest = {} THEN "vector" ELSE "forget"
      /\ memOps'[m].left = oldest
  BY <1>0, <1>2, ListIs DEF Fields
<1>4. ltm' = ltm /\ stm' = stm /\ spilled' = spilled /\ raced' = raced
  BY DEF ListOldest
<1>5. /\ IsFiniteSet(S) /\ Cardinality(S) \in Nat /\ LtmCap \in Nat /\ memOps[m].excess \in Nat
      /\ \A e \in S : e.at \in Nat
  BY <1>0, SizesAre, CapsAreNaturals DEF MemBase, MemTyped, MemOp, Doc, OfAgent
<1>6. LET rest == S \ oldest
      IN IsFiniteSet(rest) /\ (rest = {} \/ Cardinality(rest) + memOps[m].excess <= Cardinality(S))
  BY <1>5, OldestAreEnough
<1>7. KeptBy(m, b)' \subseteq S \ oldest
  BY <1>3, <1>4 DEF KeptBy, OfAgent
<1>8. /\ Cardinality(KeptBy(m, b)') \in Nat /\ Cardinality(S \ oldest) \in Nat
      /\ Cardinality(KeptBy(m, b)') <= Cardinality(S \ oldest)
  BY <1>3, <1>6, <1>7, FS_Subset, FS_CardinalityType
<1>9. ASSUME TrimsLtm(m, b) PROVE TrimsLtm(m, b)' \/ Cardinality(OfAgent(ltm, b)') <= LtmCap
  <2>1. Cardinality(S) <= LtmCap + memOps[m].excess /\ AboutAgent(m, b)'
    BY <1>3, <1>9 DEF TrimsLtm, AboutAgent
  <2>2. Cardinality(S \ oldest) <= LtmCap
    BY <1>5, <1>6, <1>8, <2>1, FS_EmptySet
  <2>3. CASE oldest = {}
    <3>1. S \ oldest = S /\ OfAgent(ltm, b)' = S
      BY <1>4, <2>3 DEF OfAgent
    <3> QED
      BY <2>2, <3>1
  <2>4. CASE oldest # {}
    BY <1>3, <1>5, <1>8, <2>1, <2>2, <2>4 DEF TrimsLtm
  <2> QED
    BY <2>3, <2>4
<1>10. ASSUME NEW a, TrimsLtm(m, a) PROVE a = b
  BY <1>0, <1>10, <1>2, AboutOne DEF TrimsLtm
<1>11. \A a : ~TrimsStm(m, a)
  BY <1>3 DEF TrimsStm
<1>12. memOps[m].pc \in StorePcs /\ memOps'[m].pc # "write"
  BY <1>3 DEF StorePcs
<1>13. ltm' \subseteq ltm /\ stm' \subseteq stm
  BY <1>4
<1> HIDE DEF b, S, oldest
<1> QED
  BY <1>3, <1>4, <1>9, <1>10, <1>11, <1>12, <1>13, NextBound

LEMMA BoundForget ==
  ASSUME BoundInv, NEW m \in MemActor, Forget(m)
  PROVE  BoundInv'
<1>0. MemBase
  BY DEF BoundInv
<1>1. Others(m) /\ MemBase' /\ memOps[m].pc = "forget"
  BY <1>0, ForgetIs
<1>2. PICK d \in Oldest(memOps[m].left, 1) :
        /\ ltm' = {e \in ltm : e.no # d.no}
        /\ Fields(memOps'[m], IF memOps[m].left \ {d} = {} THEN "vector" ELSE "forget",
                  memOps[m].ident, memOps[m].found, memOps[m].at, memOps[m].left \ {d},
                  memOps[m].raw, memOps[m].excess, memOps[m].clean, memOps[m].whole)
  BY <1>0, ForgetIs
<1>3. ltm' \subseteq ltm /\ stm' = stm /\ spilled' = spilled /\ raced' = raced /\ d \in memOps[m].left
  BY <1>2 DEF Forget, Oldest
<1>4. ASSUME NEW a PROVE KeptBy(m, a)' = KeptBy(m, a)
  BY <1>2, <1>3 DEF KeptBy, OfAgent, Fields
<1>5. ASSUME NEW a, TrimsLtm(m, a) PROVE TrimsLtm(m, a)' \/ Cardinality(OfAgent(ltm, a)') <= LtmCap
  <2>1. AboutAgent(m, a)' /\ Cardinality(KeptBy(m, a)') <= LtmCap
    BY <1>1, <1>2, <1>4, <1>5 DEF TrimsLtm, AboutAgent, Fields
  <2>2. CASE memOps[m].left \ {d} = {}
    <3>1. KeptBy(m, a)' = OfAgent(ltm, a)'
      BY <1>2, <2>2 DEF KeptBy, OfAgent, Fields
    <3> QED
      BY <2>1, <3>1
  <2>3. CASE memOps[m].left \ {d} # {}
    BY <1>2, <2>1, <2>3 DEF TrimsLtm, Fields
  <2> QED
    BY <2>2, <2>3
<1>6. \A a : ~TrimsStm(m, a)
  BY <1>1 DEF TrimsStm
<1>7. memOps[m].pc \in StorePcs /\ memOps'[m].pc # "write" /\ memOps'[m].ident = memOps[m].ident
  BY <1>1, <1>2 DEF StorePcs, Fields
<1> QED
  BY <1>1, <1>3, <1>5, <1>6, <1>7, NextBound

\* Entries are added by an operation that is going to trim.
LEMMA BoundAdd ==
  ASSUME BoundInv, MemBase', NEW m \in MemActor, Others(m), ltm' = ltm, raced' = raced, spilled' = spilled,
         memOps[m].pc \notin {"count", "list", "forget"}, memOps'[m].pc = "zcard",
         memOps'[m].ident = memOps[m].ident,
         stm \subseteq stm', \A e \in stm' \ stm : e.ident \in memOps[m].ident
  PROVE  BoundInv'
<1>0. MemBase /\ OpShaped(memOps[m])
  BY Progress DEF BoundInv
<1>1. \A a : ~TrimsLtm(m, a)
  BY DEF TrimsLtm
<1>2. ASSUME NEW a \in MemAgents PROVE LtmBounded(a)'
  BY <1>0, <1>1, <1>2, Fewer, NextLtmBounded DEF BoundInv
<1>3. ASSUME NEW a \in MemAgents, AboutAgent(m, a) PROVE StmBounded(a)'
  BY <1>3 DEF StmBounded, TrimsStm, AboutAgent
<1>4. ASSUME NEW a \in MemAgents, ~AboutAgent(m, a) PROVE StmBounded(a)'
  <2>1. OfAgent(stm, a)' = OfAgent(stm, a)
    BY <1>4 DEF OfAgent, AboutAgent
  <2>2. Cardinality(OfAgent(stm, a)') <= Cardinality(OfAgent(stm, a))
    BY <1>0, <2>1, SizesAre
  <2>3. ~TrimsStm(m, a) /\ StmBounded(a)
    BY <1>4 DEF TrimsStm, BoundInv
  <2> QED
    BY <1>0, <2>2, <2>3, NextStmBounded
<1>5. memOps'[m].pc \notin StorePcs /\ memOps'[m].pc # "write"
  BY DEF StorePcs
<1>6. ASSUME NEW k \in Identities PROVE Single(k)'
  BY <1>5, NextSingle DEF BoundInv
<1>7. MemAgents' = MemAgents
  BY DEF MemAgents
<1> QED
  BY <1>2, <1>3, <1>4, <1>6, <1>7 DEF BoundInv

LEMMA BoundZcard ==
  ASSUME BoundInv, NEW m \in MemActor, Zcard(m)
  PROVE  BoundInv'
<1>0. MemBase /\ OpShaped(memOps[m])
  BY Progress DEF BoundInv
<1>1. memOps[m].pc = "zcard" /\ ltm' = ltm /\ stm' = stm /\ raced' = raced
      /\ spilled' = spilled \ {<<AgentOf(m), "stm">>} /\ vec' = vec /\ memClock' = memClock
  BY DEF Zcard, At
<1>2. PICK k \in memOps[m].ident : TRUE
  BY <1>0, <1>1 DEF OpShaped, AtRest
<1>3. AgentOf(m) = k.agent
  BY <1>0, <1>2, AgentIs
<1> DEFINE b == k.agent
           n == Cardinality(OfAgent(stm, b)) - StmMax
<1>4. /\ Others(m) /\ MemBase'
      /\ \/ ~(n > 0) /\ memOps'[m].pc = "done"
         \/ memOps'[m].pc = "ztrim" /\ memOps'[m].ident = memOps[m].ident /\ memOps'[m].excess = n
  <2>1. Others(m) /\ MemBase'
    BY <1>0, ZcardIs
  <2>2. ASSUME Finish(m) PROVE memOps'[m].pc = "done"
    BY <1>0, <1>1, <2>2, FinishIs DEF Fields, TrimPcs
  <2>3. \/ ~(n > 0) /\ Finish(m)
        \/ memOps'[m].pc = "ztrim" /\ memOps'[m].ident = memOps[m].ident /\ memOps'[m].excess = n
    BY <1>0, <1>3, ZcardIs DEF Fields
  <2> HIDE DEF n
  <2> QED
    BY <2>1, <2>2, <2>3
<1>5. OfAgent(stm, b)' = OfAgent(stm, b) /\ Cardinality(OfAgent(stm, b)) \in Nat /\ StmMax \in Nat
  BY <1>0, <1>1, SizesAre, CapsAreNaturals DEF OfAgent
<1>6. TrimsStm(m, b)' \/ Cardinality(OfAgent(stm, b)') <= StmMax
  BY <1>2, <1>4, <1>5 DEF TrimsStm, AboutAgent
<1>7. ASSUME NEW a, TrimsStm(m, a) \/ <<a, "stm">> \in spilled, <<a, "stm">> \notin spilled' PROVE a = b
  BY <1>0, <1>1, <1>3, <1>7, AboutOne DEF TrimsStm
<1>8. ASSUME NEW a, <<a, "ltm">> \in spilled PROVE <<a, "ltm">> \in spilled'
  BY <1>1, <1>8
<1>9. \A a : ~TrimsLtm(m, a)
  BY <1>1 DEF TrimsLtm
<1>10. memOps'[m].pc \notin StorePcs /\ memOps'[m].pc # "write"
  BY <1>4 DEF StorePcs
<1> HIDE DEF b, n
<1> QED
  BY <1>1, <1>4, <1>6, <1>7, <1>8, <1>9, <1>10, NextBound

LEMMA BoundZtrim ==
  ASSUME BoundInv, NEW m \in MemActor, Ztrim(m)
  PROVE  BoundInv'
<1>0. MemBase /\ OpShaped(memOps[m])
  BY Progress DEF BoundInv
<1>1. memOps[m].pc = "ztrim" /\ ltm' = ltm /\ raced' = raced /\ spilled' = spilled
  BY DEF Ztrim, At
<1>2. PICK k \in memOps[m].ident : TRUE
  BY <1>0, <1>1 DEF OpShaped, AtRest
<1> DEFINE b == k.agent
           S == OfAgent(stm, b)
           n == memOps[m].excess
<1>3. AgentOf(m) = b
  BY <1>0, <1>2, AgentIs
<1>4. /\ Others(m) /\ MemBase' /\ memOps'[m].pc = "done" /\ stm' = stm \ Oldest(S, n)
  BY <1>0, <1>3, ZtrimIs DEF Fields
<1>5. /\ IsFiniteSet(S) /\ Cardinality(S) \in Nat /\ StmMax \in Nat /\ n \in Nat
      /\ \A e \in S : e.at \in Nat
  BY <1>0, SizesAre, CapsAreNaturals DEF MemBase, MemTyped, MemOp, Entry, OfAgent
<1>6. LET rest == S \ Oldest(S, n)
      IN IsFiniteSet(rest) /\ (rest = {} \/ Cardinality(rest) + n <= Cardinality(S))
  BY <1>5, OldestAreEnough
<1>7. OfAgent(stm, b)' = S \ Oldest(S, n) /\ Cardinality(OfAgent(stm, b)') \in Nat
  BY <1>4, NextSizes DEF OfAgent
<1>8. ASSUME TrimsStm(m, b) PROVE Cardinality(OfAgent(stm, b)') <= StmMax
  <2>1. Cardinality(S) <= StmMax + n
    BY <1>1, <1>8 DEF TrimsStm
  <2> QED
    BY <1>5, <1>6, <1>7, <2>1, FS_EmptySet
<1>9. ASSUME NEW a, TrimsStm(m, a) PROVE a = b
  BY <1>0, <1>3, <1>9, AboutOne DEF TrimsStm
<1>10. \A a : ~TrimsLtm(m, a)
  BY <1>1 DEF TrimsLtm
<1>11. memOps'[m].pc \notin StorePcs /\ memOps'[m].pc # "write" /\ ltm' \subseteq ltm /\ stm' \subseteq stm
  BY <1>1, <1>4 DEF StorePcs
<1> HIDE DEF b, S, n
<1> QED
  BY <1>1, <1>4, <1>8, <1>9, <1>10, <1>11, NextBound

\* A document comes back that was deleted: of its agent, nothing is claimed.
LEMMA BoundRevived ==
  ASSUME BoundInv, NEW m \in MemActor, MemBase', Others(m), memOps[m].pc = "uset", memOps'[m].pc = "done",
         memOps'[m].ident = {}, stm' = stm,
         NEW k \in Identities, NEW n \in Doc, ltm' = {e \in ltm : e.no # n.no} \cup {n}, n.ident = k,
         raced' = raced \cup {k}, spilled' = spilled \cup {<<k.agent, "ltm">>}
  PROVE  BoundInv'
<1>0. MemBase
  BY DEF BoundInv
<1>1. \A a : ~TrimsLtm(m, a) /\ ~TrimsStm(m, a)
  BY DEF TrimsLtm, TrimsStm
<1>2. ASSUME NEW a \in MemAgents PROVE LtmBounded(a)'
  <2>1. CASE a = k.agent
    BY <2>1 DEF LtmBounded
  <2>2. CASE a # k.agent
    <3>1. OfAgent(ltm, a)' \in SUBSET OfAgent(ltm, a)
      BY <2>2 DEF OfAgent
    <3>2. ASSUME NEW x \in MemActor \ {m} PROVE KeptBy(x, a)' \in SUBSET KeptBy(x, a)
      BY <2>2 DEF OfAgent, KeptBy, Others, Weaker
    <3>3. /\ Cardinality(OfAgent(ltm, a)') <= Cardinality(OfAgent(ltm, a))
          /\ \A x \in MemActor \ {m} : Cardinality(KeptBy(x, a)') <= Cardinality(KeptBy(x, a))
      BY <1>0, <3>1, <3>2, SizesAre, FS_Subset
    <3>4. <<a, "ltm">> \in spilled => <<a, "ltm">> \in spilled'
      OBVIOUS
    <3> QED
      BY <1>0, <1>1, <3>3, <3>4, NextLtmBounded DEF BoundInv
  <2> QED
    BY <2>1, <2>2
<1>3. ASSUME NEW a \in MemAgents PROVE StmBounded(a)'
  <2>1. (<<a, "stm">> \in spilled) => (<<a, "stm">> \in spilled')
    OBVIOUS
  <2> QED
    BY <1>0, <1>1, <2>1, Fewer, NextStmBounded DEF BoundInv
<1>4. ASSUME NEW l \in Identities, l \notin raced' PROVE Single(l)'
  <2>1. Single(l) /\ "done" \notin StorePcs /\ "write" \in StorePcs /\ l # k /\ l \notin raced
    BY <1>4 DEF BoundInv, StorePcs
  <2>2. \A f, e \in ltm' : f.ident = l /\ e.ident = l => f = e
    BY <2>1 DEF Single
  <2>3. ASSUME NEW x \in MemActor, memOps'[x].pc = "write", l \in memOps'[x].ident, NEW e \in ltm', e.ident = l
        PROVE  \E f \in memOps'[x].found : f.no = e.no
    <3>1. x # m /\ e \in ltm
      BY <2>1, <2>3
    <3> QED
      BY <2>1, <2>3, <3>1 DEF Single, Others, Weaker
  <2>4. ASSUME NEW x \in MemActor, NEW y \in MemActor, memOps'[x].pc \in StorePcs, l \in memOps'[x].ident,
               memOps'[y].pc \in StorePcs, l \in memOps'[y].ident
        PROVE  x = y
    BY <2>1, <2>4 DEF Single, Others, Weaker
  <2> QED
    BY <2>2, <2>3, <2>4 DEF Single
<1>5. MemAgents' = MemAgents
  BY DEF MemAgents
<1> QED
  BY <1>2, <1>3, <1>4, <1>5 DEF BoundInv, Single

\* A document takes the place of its older self.
LEMMA BoundReplaced ==
  ASSUME BoundInv, NEW m \in MemActor, MemBase', Others(m), memOps[m].pc = "uset", memOps'[m].pc = "done",
         memOps'[m].ident = {}, stm' = stm, raced' = raced, spilled' = spilled,
         NEW d \in ltm, NEW n \in Doc, ltm' = {e \in ltm : e.no # n.no} \cup {n}, n.no = d.no, n.ident = d.ident
  PROVE  BoundInv'
<1>0. MemBase
  BY DEF BoundInv
<1>1. /\ Others(m) /\ MemBase' /\ memOps[m].pc = "uset" /\ memOps'[m].pc = "done" /\ memOps'[m].ident = {}
      /\ stm' = stm /\ raced' = raced /\ spilled' = spilled
  OBVIOUS
<1>3. \A e \in ltm : e.no = d.no => e = d
  BY <1>0 DEF MemBase, Numbered
<1>2. ltm' = (ltm \ {d}) \cup {n} /\ n.no = d.no /\ n.ident = d.ident
  BY <1>3
<1>4. ASSUME NEW S, IsFiniteSet(S), Cardinality(S) \in Nat, d \in S
      PROVE  Cardinality((S \ {d}) \cup {n}) <= Cardinality(S)
  <2>1. IsFiniteSet(S \ {d}) /\ Cardinality(S \ {d}) = Cardinality(S) - 1
    BY <1>4, FS_RemoveElement
  <2>2. Cardinality((S \ {d}) \cup {n}) <= Cardinality(S \ {d}) + 1
    <3> DEFINE T == S \ {d}
    <3>1. IsFiniteSet(T) /\ Cardinality(T) \in Nat
      BY <2>1, FS_CardinalityType
    <3> HIDE DEF T
    <3>2. Cardinality(T \cup {n}) = IF n \in T THEN Cardinality(T) ELSE Cardinality(T) + 1
      BY <3>1, FS_AddElement
    <3>3. Cardinality(T \cup {n}) <= Cardinality(T) + 1
      BY <3>1, <3>2
    <3> QED
      BY <3>3 DEF T
  <2> QED
    BY <1>4, <2>1, <2>2
<1>5. ASSUME NEW S, NEW T, IsFiniteSet(S), Cardinality(S) \in Nat, T = S \/ (d \in S /\ T = (S \ {d}) \cup {n})
      PROVE  Cardinality(T) <= Cardinality(S)
  BY <1>4, <1>5
<1>6. ASSUME NEW a
      PROVE  /\ Cardinality(OfAgent(ltm, a)') <= Cardinality(OfAgent(ltm, a))
             /\ \A x \in MemActor \ {m} : Cardinality(KeptBy(x, a)') <= Cardinality(KeptBy(x, a))
  <2>1. OfAgent(ltm, a)' = OfAgent(ltm, a)
        \/ (d \in OfAgent(ltm, a) /\ OfAgent(ltm, a)' = (OfAgent(ltm, a) \ {d}) \cup {n})
    BY <1>2 DEF OfAgent
  <2>2. ASSUME NEW x \in MemActor \ {m}
        PROVE  \/ KeptBy(x, a)' = KeptBy(x, a)
               \/ d \in KeptBy(x, a) /\ KeptBy(x, a)' = (KeptBy(x, a) \ {d}) \cup {n}
    <3>1. memOps'[x].left = memOps[x].left
      BY <1>1 DEF Others, Weaker
    <3> QED
      BY <1>2, <3>1 DEF KeptBy, OfAgent
  <2>3. Cardinality(OfAgent(ltm, a)') <= Cardinality(OfAgent(ltm, a))
    BY <1>0, <1>5, <2>1, SizesAre
  <2>4. ASSUME NEW x \in MemActor \ {m} PROVE Cardinality(KeptBy(x, a)') <= Cardinality(KeptBy(x, a))
    BY <1>0, <1>5, <2>2, SizesAre
  <2> QED
    BY <2>3, <2>4
<1>7. \A a : ~TrimsLtm(m, a) /\ ~TrimsStm(m, a)
  BY <1>1 DEF TrimsLtm, TrimsStm
<1>8. ASSUME NEW a \in MemAgents PROVE LtmBounded(a)'
  BY <1>0, <1>1, <1>6, <1>7, NextLtmBounded DEF BoundInv
<1>9. ASSUME NEW a \in MemAgents PROVE StmBounded(a)'
  BY <1>0, <1>1, <1>7, Fewer, NextStmBounded DEF BoundInv
<1>10. ASSUME NEW k \in Identities, k \notin raced PROVE Single(k)'
  <2>1. Single(k) /\ "done" \notin StorePcs /\ "write" \in StorePcs
    BY DEF BoundInv, StorePcs
  <2>2. \A f, e \in ltm' : f.ident = k /\ e.ident = k => f = e
    BY <1>2, <1>10, <2>1 DEF Single
  <2>3. ASSUME NEW x \in MemActor, memOps'[x].pc = "write", k \in memOps'[x].ident, NEW e \in ltm', e.ident = k
        PROVE  \E f \in memOps'[x].found : f.no = e.no
    <3>1. x # m
      BY <1>1, <2>3
    <3>2. \E e1 \in ltm : e1.no = e.no /\ e1.ident = k
      BY <1>2, <2>3
    <3> QED
      BY <1>1, <1>10, <2>1, <2>3, <3>1, <3>2 DEF Single, Others, Weaker
  <2>4. ASSUME NEW x \in MemActor, NEW y \in MemActor, memOps'[x].pc \in StorePcs, k \in memOps'[x].ident,
               memOps'[y].pc \in StorePcs, k \in memOps'[y].ident
        PROVE  x = y
    BY <1>1, <1>10, <2>1, <2>4 DEF Single, Others, Weaker
  <2> QED
    BY <2>2, <2>3, <2>4 DEF Single
<1>11. MemAgents' = MemAgents
  BY DEF MemAgents
<1> QED
  BY <1>1, <1>8, <1>9, <1>10, <1>11 DEF BoundInv, Single

LEMMA BoundUpdate ==
  ASSUME BoundInv, NEW m \in MemActor, UpdateMemory(m)
  PROVE  BoundInv'
<1>0. MemBase
  BY DEF BoundInv
<1>1. /\ Others(m) /\ MemBase' /\ memOps[m].pc = "uset" /\ memOps'[m].pc = "done" /\ memOps'[m].ident = {}
      /\ stm' = stm
  BY <1>0, UpdateIs DEF Fields, UpdateMemory
<1>2. CASE ltm' = ltm /\ raced' = raced /\ spilled' = spilled
  BY <1>1, <1>2, NextBoundAside DEF StorePcs, TrimPcs
<1>3. ASSUME NEW d \in memOps[m].found, NEW n \in Doc, d.ident \in Identities,
             ltm' = {e \in ltm : e.no # n.no} \cup {n}, n.ident = d.ident,
             raced' = raced \cup {d.ident}, spilled' = spilled \cup {<<d.ident.agent, "ltm">>}
      PROVE  BoundInv'
  BY <1>1, <1>3, BoundRevived
<1>4. ASSUME NEW d \in ltm, NEW n \in Doc, ltm' = {e \in ltm : e.no # n.no} \cup {n}, d.no = n.no,
             d.ident = n.ident, raced' = raced, spilled' = spilled
      PROVE  BoundInv'
  BY <1>1, <1>4, BoundReplaced
<1>5. PICK d \in memOps[m].found :
        /\ d.ident \in Identities
        /\ \/ ltm' = ltm /\ raced' = raced /\ spilled' = spilled
           \/ \E n \in Doc :
                /\ ltm' = {e \in ltm : e.no # n.no} \cup {n} /\ n.ident = d.ident
                /\ \/ raced' = raced /\ spilled' = spilled /\ \E e \in ltm : e.no = n.no /\ e.ident = n.ident
                   \/ /\ raced' = raced \cup {d.ident}
                      /\ spilled' = spilled \cup {<<d.ident.agent, "ltm">>}
  BY <1>0, UpdateIs
<1> QED
  BY <1>2, <1>3, <1>4, <1>5

LEMMA BoundPrune ==
  ASSUME BoundInv, Prune
  PROVE  BoundInv'
<1>0. MemBase
  BY DEF BoundInv
<1>1. /\ MemBase' /\ ltm' \subseteq ltm /\ \A x \in MemActor : Weaker(memOps'[x], memOps[x])
      /\ stm' = stm /\ raced' = raced /\ spilled' = spilled
  BY <1>0, PruneIs DEF Prune
<1>2. memOps' \in [MemActor -> MemOp]
  BY <1>1 DEF MemBase, MemTyped
<1>3. PICK m \in MemActor : TRUE
  <2>1. PICK d \in ltm : TRUE
    BY DEF Prune
  <2> QED
    BY <1>0, <2>1 DEF MemBase, MemTyped, Doc
<1>4. Others(m)
  BY <1>1, <1>2 DEF Others
<1>5. ASSUME NEW a
      PROVE  /\ Cardinality(OfAgent(ltm, a)') <= Cardinality(OfAgent(ltm, a))
             /\ Cardinality(KeptBy(m, a)') <= Cardinality(KeptBy(m, a))
  <2>1. KeptBy(m, a)' \in SUBSET KeptBy(m, a)
    BY <1>1 DEF KeptBy, OfAgent, Weaker
  <2> QED
    BY <1>0, <1>1, <1>4, <2>1, Fewer, SizesAre, FS_Subset
<1>6. \A a : /\ Cardinality(OfAgent(ltm, a)') \in Nat /\ Cardinality(OfAgent(ltm, a)) \in Nat /\ LtmCap \in Nat
             /\ Cardinality(KeptBy(m, a)) \in Nat /\ Cardinality(KeptBy(m, a)') \in Nat /\ memOps[m].excess \in Nat
  BY <1>0, <1>1, SizesAre, NextSizes, CapsAreNaturals DEF MemBase, MemTyped, MemOp
<1>7. ASSUME NEW a, TrimsLtm(m, a) PROVE TrimsLtm(m, a)'
  BY <1>1, <1>5, <1>6, <1>7 DEF TrimsLtm, AboutAgent, Weaker
<1>8. ASSUME NEW a, TrimsStm(m, a) PROVE TrimsStm(m, a)'
  BY <1>1, <1>8 DEF TrimsStm, AboutAgent, Weaker, OfAgent
<1>9. ASSUME NEW a \in MemAgents PROVE LtmBounded(a)' /\ StmBounded(a)'
  BY <1>0, <1>1, <1>4, <1>7, <1>8, Fewer, NextLtmBounded, NextStmBounded DEF BoundInv
<1>10. ASSUME NEW k \in Identities PROVE Single(k)'
  BY <1>1 DEF BoundInv, Single, Weaker
<1>11. MemAgents' = MemAgents
  BY DEF MemAgents
<1> QED
  BY <1>1, <1>9, <1>10, <1>11 DEF BoundInv

LEMMA NextBoundMem == BoundInv /\ [MemoryNext]_memVars => BoundInv'
<1> SUFFICES ASSUME BoundInv, [MemoryNext]_memVars PROVE BoundInv'
  OBVIOUS
<1>0. MemBase /\ \A m \in MemActor : OpShaped(memOps[m])
  BY Progress DEF BoundInv
<1>1. ASSUME NEW m \in MemActor, NEW k \in Identities, BeginStore(m, k) PROVE BoundInv'
  BY <1>1, BoundStart
<1>2. ASSUME NEW m \in MemActor, BeginDelete(m) PROVE BoundInv'
  <2>1. /\ Others(m) /\ MemBase' /\ memOps[m].pc = "idle" /\ memOps'[m].pc = "drange"
        /\ ltm' = ltm /\ stm' = stm /\ raced' = raced /\ spilled' = spilled
    BY <1>0, <1>2, BeginDeleteIs, IdleFields DEF BeginDelete, Fields
  <2> QED
    BY <2>1, NextBoundAside DEF StorePcs, TrimPcs
<1>3. ASSUME NEW m \in MemActor, NEW a, BeginWarmup(m, a) PROVE BoundInv'
  <2>1. /\ Others(m) /\ MemBase' /\ memOps[m].pc = "idle" /\ memOps'[m].pc = "wclear"
        /\ ltm' = ltm /\ stm' = stm /\ raced' = raced /\ spilled' = spilled
    BY <1>0, <1>3, BeginWarmupIs, IdleFields DEF BeginWarmup, Fields
  <2> QED
    BY <2>1, NextBoundAside DEF StorePcs, TrimPcs
<1>4. ASSUME NEW m \in MemActor, Find(m) PROVE BoundInv'
  BY <1>4, BoundFind
<1>5. ASSUME NEW m \in MemActor, Write(m) PROVE BoundInv'
  BY <1>5, BoundWrite
<1>6. ASSUME NEW m \in MemActor, CountDocuments(m) PROVE BoundInv'
  BY <1>6, BoundCount
<1>7. ASSUME NEW m \in MemActor, ListOldest(m) PROVE BoundInv'
  BY <1>7, BoundList
<1>8. ASSUME NEW m \in MemActor, Forget(m) PROVE BoundInv'
  BY <1>8, BoundForget
<1>9. ASSUME NEW m \in MemActor, StoreRaises(m) PROVE BoundInv'
  <2>1. /\ Others(m) /\ MemBase' /\ memOps'[m].pc = "done"
        /\ ltm' = ltm /\ stm' = stm /\ raced' = raced
        /\ memOps[m].pc \in {"find", "write", "count", "list", "forget"}
        /\ spilled' = IF memOps[m].pc \in {"count", "list", "forget"}
                      THEN spilled \cup {<<AgentOf(m), "ltm">>} ELSE spilled
    BY <1>0, <1>9, ErrorIs DEF StoreRaises, Fields
  <2> QED
    BY <2>1, NextBoundFails DEF TrimPcs
<1>10. ASSUME NEW m \in MemActor, StmFails(m) PROVE BoundInv'
  <2>1. /\ Others(m) /\ MemBase' /\ memOps'[m].pc = "done"
        /\ ltm' = ltm /\ stm' = stm /\ raced' = raced
        /\ memOps[m].pc \in {"zrange", "zrem", "zadd"} \cup WarmupPcs \cup TrimPcs
        /\ spilled' = IF memOps[m].pc \in TrimPcs THEN spilled \cup {<<AgentOf(m), "stm">>} ELSE spilled
    BY <1>0, <1>10, ErrorIs DEF StmFails, Fields
  <2> QED
    BY <2>1, NextBoundFails DEF TrimPcs, WarmupPcs
<1>11. ASSUME NEW m \in MemActor, StoreVector(m) PROVE BoundInv'
  <2>1. /\ Others(m) /\ MemBase' /\ memOps[m].pc = "vector" /\ memOps'[m].pc = "zrange"
        /\ memOps'[m].ident = memOps[m].ident
        /\ ltm' = ltm /\ stm' = stm /\ raced' = raced /\ spilled' = spilled
    BY <1>0, <1>11, VectorIs DEF StoreVector, Fields
  <2> QED
    BY <2>1, NextBoundAside DEF StorePcs, TrimPcs
<1>12. ASSUME NEW m \in MemActor, Zrange(m) PROVE BoundInv'
  <2>1. /\ Others(m) /\ MemBase' /\ memOps[m].pc = "zrange" /\ memOps'[m].pc \in {"zadd", "zrem"}
        /\ memOps'[m].ident = memOps[m].ident
        /\ ltm' = ltm /\ stm' = stm /\ raced' = raced /\ spilled' = spilled
    BY <1>0, <1>12, ZrangeIs DEF Zrange, Fields
  <2> QED
    BY <2>1, NextBoundAside DEF StorePcs, TrimPcs
<1>13. ASSUME NEW m \in MemActor, Zrem(m) PROVE BoundInv'
  <2>1. /\ Others(m) /\ MemBase' /\ memOps[m].pc = "zrem" /\ memOps'[m].pc = "zadd"
        /\ memOps'[m].ident = memOps[m].ident
        /\ ltm' = ltm /\ stm' \subseteq stm /\ raced' = raced /\ spilled' = spilled
    BY <1>0, <1>13, ZremIs DEF Zrem, Fields
  <2> QED
    BY <2>1, NextBoundAside DEF StorePcs, TrimPcs
<1>14. ASSUME NEW m \in MemActor, Zadd(m) PROVE BoundInv'
  <2>1. /\ Others(m) /\ MemBase' /\ memOps[m].pc = "zadd" /\ memOps'[m].pc = "zcard"
        /\ memOps'[m].ident = memOps[m].ident
        /\ ltm' = ltm /\ stm \subseteq stm' /\ raced' = raced /\ spilled' = spilled
        /\ \A e \in stm' \ stm : e.ident \in memOps[m].ident
    BY <1>0, <1>14, ZaddIs DEF Zadd, Fields
  <2> QED
    BY <2>1, BoundAdd
<1>15. ASSUME NEW m \in MemActor, Zcard(m) PROVE BoundInv'
  BY <1>15, BoundZcard
<1>16. ASSUME NEW m \in MemActor, Ztrim(m) PROVE BoundInv'
  BY <1>16, BoundZtrim
<1>17. ASSUME NEW m \in MemActor, DeleteZrange(m) PROVE BoundInv'
  <2>1. /\ Others(m) /\ MemBase' /\ memOps[m].pc = "drange" /\ memOps'[m].pc \in {"ddoc", "drem"}
        /\ ltm' = ltm /\ stm' = stm /\ raced' = raced /\ spilled' = spilled
    BY <1>0, <1>17, DeleteZrangeIs DEF DeleteZrange, Fields
  <2> QED
    BY <2>1, NextBoundAside DEF StorePcs, TrimPcs
<1>18. ASSUME NEW m \in MemActor, DeleteZrem(m) PROVE BoundInv'
  <2>1. /\ Others(m) /\ MemBase' /\ memOps[m].pc = "drem" /\ memOps'[m].pc = "ddoc"
        /\ ltm' = ltm /\ stm' \subseteq stm /\ raced' = raced /\ spilled' = spilled
    BY <1>0, <1>18, DeleteZremIs DEF DeleteZrem, Fields
  <2> QED
    BY <2>1, NextBoundAside DEF StorePcs, TrimPcs
<1>19. ASSUME NEW m \in MemActor, DeleteDocument(m) PROVE BoundInv'
  <2>1. /\ Others(m) /\ MemBase' /\ memOps[m].pc = "ddoc" /\ memOps'[m].pc = "done"
        /\ ltm' \subseteq ltm /\ stm' = stm /\ raced' = raced /\ spilled' = spilled
    BY <1>0, <1>19, DeleteDocumentIs DEF DeleteDocument, Fields
  <2> QED
    BY <2>1, NextBoundAside DEF StorePcs, TrimPcs
<1>20. ASSUME NEW m \in MemActor, WarmupClear(m) PROVE BoundInv'
  <2>1. /\ Others(m) /\ MemBase' /\ memOps[m].pc = "wclear" /\ memOps'[m].pc = "wadd"
        /\ ltm' = ltm /\ stm' \subseteq stm /\ raced' = raced /\ spilled' = spilled
    BY <1>0, <1>20, WarmupClearIs DEF WarmupClear, Fields
  <2> QED
    BY <2>1, NextBoundAside DEF StorePcs, TrimPcs
<1>21. ASSUME NEW m \in MemActor, WarmupFill(m) PROVE BoundInv'
  <2>1. /\ Others(m) /\ MemBase' /\ memOps[m].pc = "wadd" /\ memOps'[m].pc = "zcard"
        /\ memOps'[m].ident = memOps[m].ident /\ stm' = stm \cup {EntryOf(d) : d \in memOps[m].left}
        /\ ltm' = ltm /\ raced' = raced /\ spilled' = spilled
    BY <1>0, <1>21, WarmupFillIs DEF WarmupFill, Fields
  <2>2. \A d \in memOps[m].left : d.ident \in memOps[m].ident
    BY <1>0, <2>1 DEF OpShaped, WarmupPcs
  <2>3. \A e \in stm' \ stm : e.ident \in memOps[m].ident
    BY <2>1, <2>2 DEF EntryOf
  <2> QED
    BY <2>1, <2>3, BoundAdd
<1>22. ASSUME NEW m \in MemActor, UpdateMemory(m) PROVE BoundInv'
  BY <1>22, BoundUpdate
<1>25. ASSUME NEW m \in MemActor, BeginUpdate(m) PROVE BoundInv'
  <2>1. /\ Others(m) /\ MemBase' /\ memOps[m].pc = "idle" /\ memOps'[m].pc = "uset"
        /\ ltm' = ltm /\ stm' = stm /\ raced' = raced /\ spilled' = spilled
    BY <1>0, <1>25, BeginUpdateIs, IdleFields DEF BeginUpdate, Fields
  <2> QED
    BY <2>1, NextBoundAside DEF StorePcs, TrimPcs
<1>23. ASSUME Prune PROVE BoundInv'
  BY <1>23, BoundPrune
<1>24. ASSUME UNCHANGED memVars PROVE BoundInv'
  <2>1. /\ ltm' = ltm /\ stm' = stm /\ vec' = vec /\ memClock' = memClock /\ memOps' = memOps
        /\ fresh' = fresh /\ gone' = gone /\ raced' = raced /\ spilled' = spilled
    BY <1>24 DEF memVars
  <2>2. MemBase'
    BY <1>0, <2>1 DEF MemBase, MemTyped, Stamped, Numbered, Known, Written, CleanAlone
  <2>3. \A a : LtmBounded(a) => LtmBounded(a)'
    BY <2>1 DEF LtmBounded, TrimsLtm, AboutAgent, KeptBy, OfAgent
  <2>4. \A a : StmBounded(a) => StmBounded(a)'
    BY <2>1 DEF StmBounded, TrimsStm, AboutAgent, OfAgent
  <2>5. \A k : Single(k) => Single(k)'
    BY <2>1 DEF Single
  <2>6. MemAgents' = MemAgents
    BY DEF MemAgents
  <2> QED
    BY <2>2, <2>3, <2>4, <2>5, <2>6 DEF BoundInv
<1> QED
  BY <1>1, <1>2, <1>3, <1>4, <1>5, <1>6, <1>7, <1>8, <1>9, <1>10, <1>11, <1>12, <1>13, <1>14, <1>15,
     <1>16, <1>17, <1>18, <1>19, <1>20, <1>21, <1>22, <1>23, <1>24, <1>25 DEF MemoryNext

\* Both caps hold again whenever nobody is about to trim and no error has
\* prevented it, although stores count, list and trim by calls of their own, and
\* a memory has a second document only after two stores of it overlapped: for
\* any caps, number of operations, agents and identities.
THEOREM CapsHold == MemorySpec => []TiersBounded
<1>1. MemoryInit => BoundInv
  <2> SUFFICES ASSUME MemoryInit PROVE BoundInv
    OBVIOUS
  <2>1. ltm = {} /\ stm = {} /\ MemBase /\ \A m \in MemActor : memOps[m].pc = "idle"
    BY InitMemBase, IdleFields DEF MemoryInit, Fields
  <2>2. \A a : OfAgent(ltm, a) = {} /\ OfAgent(stm, a) = {}
    BY <2>1 DEF OfAgent
  <2>3. \A a : LtmBounded(a) /\ StmBounded(a)
    BY <2>2, CapsAreNaturals, FS_EmptySet DEF LtmBounded, StmBounded
  <2> QED
    BY <2>1, <2>3 DEF BoundInv, Single, StorePcs
<1>2. BoundInv => TiersBounded
  <2> SUFFICES ASSUME BoundInv PROVE TiersBounded
    OBVIOUS
  <2>1. ASSUME NEW a \in MemAgents, LtmCap > 0, <<a, "ltm">> \notin spilled,
               \A m \in Busy : memOps[m].pc \notin {"count", "list", "forget"}
        PROVE  Cardinality(OfAgent(ltm, a)) <= LtmCap
    BY <2>1 DEF BoundInv, LtmBounded, TrimsLtm, Busy
  <2>2. ASSUME NEW a \in MemAgents, <<a, "stm">> \notin spilled, \A m \in Busy : memOps[m].pc \notin TrimPcs
        PROVE  Cardinality(OfAgent(stm, a)) <= StmMax
    BY <2>2 DEF BoundInv, StmBounded, TrimsStm, Busy, TrimPcs
  <2>3. \A d, e \in ltm : d.ident = e.ident /\ d # e => d.ident \in raced
    BY DEF BoundInv, Single, MemBase, MemTyped, Doc
  <2> QED
    BY <2>1, <2>2, <2>3 DEF TiersBounded
<1> QED
  BY <1>1, <1>2, NextBoundMem, PTL DEF MemorySpec

-----------------------------------------------------------------------------
(* Memory: what is fresh is served *)

PastWrite == {"count", "list", "forget", "vector", "zrange", "zrem", "zadd"} \cup TrimPcs

\* Of the documents or entries of the memory, the newest has the value.
Serves(S, k, v) ==
  \A e \in S : e.ident = k /\ e.value # v => \E f \in S : f.ident = k /\ f.value = v /\ f.at > e.at

Stores(m, k) == memOps[m].clean /\ memOps[m].pc \in PastWrite /\ k \in memOps[m].ident

\* The value that the documents of the memory must show.
Rules(v, k) == v \in MemActor /\ (fresh[k] = v \/ Stores(v, k))

\* What the operation of x would take away of the documents of k.
TakesOldest(x, k) ==
  memOps[x].pc = "forget" =>
    \A d \in memOps[x].left : d \in ltm /\ d.ident = k /\ Rules(d.value, k) =>
      \A e \in ltm : e.ident = k /\ e.at < d.at => e \in memOps[x].left

FreshOf(k) ==
  /\ fresh[k] # NoActor =>
       /\ vec[k] \in {fresh[k], NoActor}
       /\ Serves(stm, k, fresh[k])
       /\ \A x \in MemActor : k \in memOps[x].ident =>
            /\ memOps[x].pc \in WarmupPcs \cup TrimPcs /\ ~memOps[x].clean
            /\ memOps[x].pc \in WarmupPcs => Serves(memOps[x].left, k, fresh[k])
  /\ \A v \in MemActor : Rules(v, k) => Serves(ltm, k, v)
  /\ \A x \in MemActor : TakesOldest(x, k)

\* A store that nothing has disturbed so far.
CleanOf(m) ==
  memOps[m].clean => \A k \in memOps[m].ident :
    /\ memOps[m].pc = "write" => /\ memOps[m].found \subseteq ltm
                                 /\ \A d \in ltm : d.ident = k => d.at < memOps[m].at
    /\ memOps[m].pc \in StorePcs \ {"find"} => \A e \in stm : e.ident = k => e.at < memOps[m].at
    /\ memOps[m].pc \in {"zrange", "zrem", "zadd"} \cup TrimPcs /\ memOps[m].whole => vec[k] \in {m, NoActor}
    /\ memOps[m].pc \in TrimPcs => Serves(stm, k, m)
    /\ memOps[m].pc = "forget" => Having(memOps[m].left, k) \subseteq ltm

FreshInv ==
  /\ MemBase
  /\ \A k \in Identities : FreshOf(k)
  /\ \A m \in MemActor : CleanOf(m)

LEMMA ServesLess ==
  ASSUME NEW S, NEW k, NEW v, Serves(S, k, v), IsFiniteSet(S), \A e \in S : e.at \in Nat,
         NEW a, NEW n \in Nat
  PROVE  Serves(S \ Oldest(OfAgent(S, a), n), k, v)
<1> DEFINE A == OfAgent(S, a)
           gone_ == Oldest(A, n)
<1>1. IsFiniteSet(A) /\ A \subseteq S /\ gone_ \subseteq A
  BY FS_Subset DEF OfAgent, Oldest
<1>2. SUFFICES ASSUME NEW e \in S \ gone_, e.ident = k, e.value # v
               PROVE  \E f \in S \ gone_ : f.ident = k /\ f.value = v /\ f.at > e.at
  BY DEF Serves
<1>3. PICK f \in S : f.ident = k /\ f.value = v /\ f.at > e.at
  BY <1>2 DEF Serves
<1>4. ASSUME f \in gone_ PROVE FALSE
  <2>1. e \in A /\ f \in A
    BY <1>1, <1>2, <1>3, <1>4 DEF OfAgent
  <2>2. e.at <= f.at /\ \A x \in A : x.at \in Nat
    BY <1>1, <1>2, <1>3
  <2> HIDE DEF A
  <2>3. e \in gone_
    BY <1>1, <1>4, <2>1, <2>2, OldestIsLow
  <2> QED
    BY <1>2, <2>3
<1> QED
  BY <1>3, <1>4

LEMMA ServesNewest ==
  ASSUME NEW S, NEW k, NEW v, Serves(S, k, v), IsFiniteSet(S), \A e \in S : e.at \in Nat, NEW n \in Nat
  PROVE  Serves(Newest(OfAgent(S, k.agent), n), k, v)
<1> DEFINE A == OfAgent(S, k.agent)
           new == Newest(A, n)
<1>1. IsFiniteSet(A) /\ A \subseteq S /\ new \subseteq A
  BY FS_Subset DEF OfAgent, Newest
<1>2. SUFFICES ASSUME NEW e \in new, e.ident = k, e.value # v
               PROVE  \E f \in new : f.ident = k /\ f.value = v /\ f.at > e.at
  BY DEF Serves
<1>3. PICK f \in S : f.ident = k /\ f.value = v /\ f.at > e.at
  BY <1>1, <1>2 DEF Serves
<1>4. f \in A /\ f.at >= e.at /\ \A x \in A : x.at \in Nat
  BY <1>1, <1>2, <1>3 DEF OfAgent
<1> HIDE DEF A
<1>5. f \in new
  BY <1>1, <1>4, NewestIsHigh
<1> QED
  BY <1>3, <1>5

\* What leaves the documents or entries of the memory as they are.
LEMMA ServesSame ==
  ASSUME NEW S, NEW T, NEW k, NEW v, Serves(S, k, v), Having(T, k) = Having(S, k)
  PROVE  Serves(T, k, v)
<1> SUFFICES ASSUME NEW e \in T, e.ident = k, e.value # v
             PROVE  \E f \in T : f.ident = k /\ f.value = v /\ f.at > e.at
  BY DEF Serves
<1>1. \A x : x \in T /\ x.ident = k <=> x \in S /\ x.ident = k
  BY DEF Having
<1> QED
  BY <1>1 DEF Serves

\* A memory of which nothing is known.
LEMMA NothingRules ==
  ASSUME NEW k, fresh'[k] = NoActor, \A x \in MemActor : ~Stores(x, k)'
  PROVE  FreshOf(k)'
<1>1. \A v : ~Rules(v, k)'
  BY NobodyIsNoActor DEF Rules
<1> QED
  BY <1>1 DEF FreshOf, TakesOldest

\* A step that makes no value the one to show.
LEMMA NextFreshOf ==
  ASSUME NEW k, FreshOf(k), NEW m \in MemActor, Others(m), MemBase,
         fresh'[k] = fresh[k] \/ fresh'[k] = NoActor,
         Stores(m, k)' => Stores(m, k),
         \A v \in MemActor : Rules(v, k)' /\ Serves(ltm, k, v) => Serves(ltm', k, v),
         fresh'[k] # NoActor => vec'[k] = vec[k] \/ vec'[k] = NoActor,
         fresh'[k] # NoActor => (Serves(stm, k, fresh[k]) => Serves(stm', k, fresh[k])),
         fresh'[k] # NoActor /\ k \in memOps'[m].ident =>
           /\ memOps'[m].pc \in WarmupPcs \cup TrimPcs /\ ~memOps'[m].clean
           /\ memOps'[m].pc \in WarmupPcs => Serves(memOps'[m].left, k, fresh[k]),
         Having(ltm', k) \subseteq ltm,
         TakesOldest(m, k)'
  PROVE  FreshOf(k)'
<1>1. ASSUME NEW x \in MemActor \ {m} PROVE Weaker(memOps'[x], memOps[x])
  BY DEF Others
<1>2. ASSUME NEW v \in MemActor, Rules(v, k)' PROVE Rules(v, k)
  <2>1. CASE fresh'[k] = v
    BY <2>1, NobodyIsNoActor DEF Rules
  <2>2. CASE Stores(v, k)'
    BY <1>1, <2>2 DEF Rules, Stores, Weaker
  <2> QED
    BY <1>2, <2>1, <2>2 DEF Rules
<1>3. \A v \in MemActor : Rules(v, k)' => Serves(ltm', k, v)
  BY <1>2 DEF FreshOf
<1>4. ASSUME NEW x \in MemActor PROVE TakesOldest(x, k)'
  <2>1. CASE x = m
    BY <2>1
  <2>2. CASE x # m
    <3> SUFFICES ASSUME memOps'[x].pc = "forget", NEW d \in memOps'[x].left, d \in ltm', d.ident = k,
                        Rules(d.value, k)', NEW e \in ltm', e.ident = k, e.at < d.at
                 PROVE  e \in memOps'[x].left
      BY DEF TakesOldest
    <3>1. d \in ltm /\ e \in ltm
      BY DEF Having
    <3>2. d.value \in MemActor /\ Rules(d.value, k)
      BY <1>2 DEF Rules
    <3> QED
      BY <1>1, <2>2, <3>1, <3>2 DEF FreshOf, TakesOldest, Weaker
  <2> QED
    BY <2>1, <2>2
<1>5. ASSUME fresh'[k] # NoActor
      PROVE  /\ vec'[k] \in {fresh'[k], NoActor}
             /\ Serves(stm', k, fresh'[k])
             /\ \A x \in MemActor : k \in memOps'[x].ident =>
                  /\ memOps'[x].pc \in WarmupPcs \cup TrimPcs /\ ~memOps'[x].clean
                  /\ memOps'[x].pc \in WarmupPcs => Serves(memOps'[x].left, k, fresh'[k])
  <2>1. fresh'[k] = fresh[k] /\ fresh[k] # NoActor
    BY <1>5
  <2>2. vec'[k] \in {fresh'[k], NoActor} /\ Serves(stm', k, fresh'[k])
    BY <2>1, <1>5 DEF FreshOf
  <2>3. ASSUME NEW x \in MemActor \ {m}, k \in memOps'[x].ident
        PROVE  /\ memOps'[x].pc \in WarmupPcs \cup TrimPcs /\ ~memOps'[x].clean
               /\ memOps'[x].pc \in WarmupPcs => Serves(memOps'[x].left, k, fresh'[k])
    BY <1>1, <2>1, <2>3 DEF FreshOf, Weaker
  <2> QED
    BY <1>5, <2>1, <2>2, <2>3
<1> QED
  BY <1>3, <1>4, <1>5 DEF FreshOf

LEMMA NextCleanOf ==
  ASSUME NEW x \in MemActor, Weaker(memOps'[x], memOps[x]), CleanOf(x), MemBase,
         \A k \in memOps[x].ident : memOps'[x].clean =>
           /\ Having(ltm', k) = Having(ltm, k) /\ Having(stm', k) \subseteq stm /\ vec'[k] = vec[k]
           /\ Serves(stm, k, x) => Serves(stm', k, x)
  PROVE  CleanOf(x)'
<1> SUFFICES ASSUME memOps'[x].clean, NEW k \in memOps'[x].ident
             PROVE  /\ memOps'[x].pc = "write" => /\ memOps'[x].found \subseteq ltm'
                                                  /\ \A d \in ltm' : d.ident = k => d.at < memOps'[x].at
                    /\ memOps'[x].pc \in StorePcs \ {"find"} => \A e \in stm' : e.ident = k => e.at < memOps'[x].at
                    /\ memOps'[x].pc \in {"zrange", "zrem", "zadd"} \cup TrimPcs /\ memOps'[x].whole => vec'[k] \in {x, NoActor}
                    /\ memOps'[x].pc \in TrimPcs => Serves(stm', k, x)
                    /\ memOps'[x].pc = "forget" => Having(memOps'[x].left, k) \subseteq ltm'
  BY DEF CleanOf, Having
<1>1. Weaker(memOps'[x], memOps[x]) /\ memOps[x].clean /\ k \in memOps[x].ident /\ OpShaped(memOps[x])
  BY Progress DEF Weaker
<1>2. memOps[x].ident = {k}
  BY <1>1 DEF OpShaped
<1>3. /\ Having(ltm', k) = Having(ltm, k) /\ Having(stm', k) \subseteq stm /\ vec'[k] = vec[k]
      /\ Serves(stm, k, x) => Serves(stm', k, x)
  BY <1>1
<1>4. /\ \A d \in ltm' : d.ident = k => d \in ltm
      /\ \A d \in ltm : d.ident = k => d \in ltm'
      /\ \A e \in stm' : e.ident = k => e \in stm
  BY <1>3 DEF Having
<1>5. \A d \in memOps[x].found : d.ident = k
  BY <1>1, <1>2 DEF OpShaped
<1>6. memOps'[x].pc = "write" => /\ memOps'[x].found \subseteq ltm'
                                 /\ \A d \in ltm' : d.ident = k => d.at < memOps'[x].at
  BY <1>1, <1>4, <1>5 DEF CleanOf, Weaker
<1>7. memOps'[x].pc = "forget" => Having(memOps'[x].left, k) \subseteq ltm'
  BY <1>1, <1>4 DEF CleanOf, Weaker, Having
<1> QED
  BY <1>1, <1>3, <1>4, <1>6, <1>7 DEF CleanOf, Weaker

\* An operation that is not about the memory.
LEMMA FreshApart ==
  ASSUME FreshInv, NEW k \in Identities, NEW m \in MemActor, Others(m),
         k \notin memOps'[m].ident, fresh'[k] = fresh[k], vec'[k] = vec[k], Having(ltm', k) = Having(ltm, k),
         \A v : Serves(stm, k, v) => Serves(stm', k, v),
         TakesOldest(m, k)'
  PROVE  FreshOf(k)'
<1>1. \A v \in MemActor : Rules(v, k)' /\ Serves(ltm, k, v) => Serves(ltm', k, v)
  BY ServesSame
<1>2. Having(ltm', k) \subseteq ltm /\ ~Stores(m, k)' /\ FreshOf(k) /\ MemBase
  BY DEF Having, Stores, FreshInv
<1> QED
  BY <1>1, <1>2, NextFreshOf

LEMMA NextFresh ==
  ASSUME FreshInv, MemBase', NEW m \in MemActor, Others(m),
         \A k \in Identities : FreshOf(k)', CleanOf(m)',
         \A x \in MemActor \ {m} : \A k \in memOps[x].ident : memOps'[x].clean =>
           /\ Having(ltm', k) = Having(ltm, k) /\ Having(stm', k) \subseteq stm /\ vec'[k] = vec[k]
           /\ Serves(stm, k, x) => Serves(stm', k, x)
  PROVE  FreshInv'
<1>1. ASSUME NEW x \in MemActor \ {m} PROVE CleanOf(x)'
  BY NextCleanOf DEF FreshInv, Others
<1> QED
  BY <1>1 DEF FreshInv

\* A step that changes no tier.
LEMMA NextFreshAlong ==
  ASSUME FreshInv, MemBase', NEW m \in MemActor, Others(m), ltm' = ltm, stm' = stm, vec' = vec, fresh' = fresh,
         memOps'[m].ident = memOps[m].ident \/ memOps'[m].ident = {},
         memOps'[m].clean => memOps[m].clean,
         memOps'[m].pc \in PastWrite => memOps[m].pc \in PastWrite \/ ~memOps'[m].clean,
         memOps[m].pc \in WarmupPcs \cup TrimPcs /\ memOps'[m].ident # {} => memOps'[m].pc \in WarmupPcs \cup TrimPcs,
         memOps'[m].pc \in WarmupPcs => memOps[m].pc \in WarmupPcs /\ memOps'[m].left = memOps[m].left,
         \A k \in Identities : TakesOldest(m, k)',
         CleanOf(m)'
  PROVE  FreshInv'
<1>1. ASSUME NEW k \in Identities PROVE FreshOf(k)'
  <2>1. FreshOf(k) /\ MemBase
    BY DEF FreshInv
  <2>2. Stores(m, k)' => Stores(m, k)
    BY DEF Stores
  <2>3. ASSUME fresh'[k] # NoActor, k \in memOps'[m].ident
        PROVE  /\ memOps'[m].pc \in WarmupPcs \cup TrimPcs /\ ~memOps'[m].clean
               /\ memOps'[m].pc \in WarmupPcs => Serves(memOps'[m].left, k, fresh[k])
    BY <2>1, <2>3 DEF FreshOf
  <2>4. Having(ltm', k) \subseteq ltm
    BY DEF Having
  <2> QED
    BY <2>1, <2>2, <2>3, <2>4, NextFreshOf
<1>2. \A k : Having(ltm', k) = Having(ltm, k) /\ Having(stm', k) \subseteq stm
  BY DEF Having
<1> QED
  BY <1>1, <1>2, NextFresh

LEMMA NextFreshEnd ==
  ASSUME FreshInv, MemBase', NEW m \in MemActor, Others(m), ltm' = ltm, stm' = stm, vec' = vec, fresh' = fresh,
         Fields(memOps'[m], "done", {}, {}, 0, {}, {}, 0, FALSE, TRUE)
  PROVE  FreshInv'
<1>1. memOps'[m].pc = "done" /\ memOps'[m].ident = {} /\ ~memOps'[m].clean
  BY DEF Fields
<1>2. CleanOf(m)' /\ \A k \in Identities : TakesOldest(m, k)'
  BY <1>1 DEF CleanOf, TakesOldest
<1>3. memOps'[m].pc \notin PastWrite \cup WarmupPcs
  BY <1>1 DEF PastWrite, WarmupPcs, TrimPcs
<1> QED
  BY <1>1, <1>2, <1>3, NextFreshAlong

LEMMA FreshBegin ==
  ASSUME FreshInv, MemBase', NEW m \in MemActor, Others(m), ltm' = ltm, stm' = stm, vec' = vec,
         NEW k \in Identities, memOps'[m].ident = {k}, memOps'[m].pc \in {"find", "drange", "uset"},
         fresh' = [fresh EXCEPT ![k] = NoActor],
         \A x \in MemActor \ {m} : k \in memOps[x].ident => ~memOps'[x].clean
  PROVE  FreshInv'
<1>0. MemBase /\ fresh \in [Identities -> Values]
  BY DEF FreshInv, MemBase, MemTyped
<1>1. fresh'[k] = NoActor /\ \A l \in Identities \ {k} : fresh'[l] = fresh[l]
  BY <1>0
<1>2. memOps'[m].pc \notin PastWrite \cup WarmupPcs \cup TrimPcs /\ memOps'[m].pc # "forget"
  BY DEF PastWrite, WarmupPcs, TrimPcs
<1>3. \A x \in MemActor : ~Stores(x, k)'
  BY <1>2 DEF Stores, Others, Weaker
<1>4. ASSUME NEW l \in Identities \ {k} PROVE FreshOf(l)'
  <2>1. TakesOldest(m, l)' /\ l \notin memOps'[m].ident
    BY <1>2 DEF TakesOldest
  <2>2. Having(ltm', l) = Having(ltm, l)
    BY DEF Having
  <2> QED
    BY <1>1, <2>1, <2>2, FreshApart
<1>5. CleanOf(m)'
  BY DEF CleanOf, StorePcs, TrimPcs
<1>6. \A l : Having(ltm', l) = Having(ltm, l) /\ Having(stm', l) \subseteq stm
  BY DEF Having
<1>7. \A l \in Identities : FreshOf(l)'
  BY <1>1, <1>3, <1>4, NothingRules
<1> QED
  BY <1>5, <1>6, <1>7, NextFresh

\* A step of an operation that is not trimming, on its own memory.
LEMMA FreshOwn ==
  ASSUME FreshInv, MemBase', NEW m \in MemActor, Others(m), NEW k \in Identities, memOps[m].ident = {k},
         memOps[m].pc \notin WarmupPcs \cup TrimPcs,
         memOps'[m].ident = {k}, ltm' = ltm, fresh' = fresh, memOps'[m].pc # "forget",
         memOps'[m].pc \in PastWrite => memOps[m].pc \in PastWrite \/ ~memOps'[m].clean,
         memOps'[m].clean => memOps[m].clean,
         \A l \in Identities \ {k} : Having(stm', l) = Having(stm, l) /\ vec'[l] = vec[l],
         CleanOf(m)'
  PROVE  FreshInv'
<1>0. MemBase /\ FreshOf(k)
  BY DEF FreshInv
<1>1. fresh[k] = NoActor
  BY <1>0 DEF FreshOf
<1>2. \A l : TakesOldest(m, l)'
  BY DEF TakesOldest
<1>3. \A l : Having(ltm', l) = Having(ltm, l) /\ Having(ltm', l) \subseteq ltm
  BY DEF Having
<1>4. FreshOf(k)'
  <2>1. Stores(m, k)' => Stores(m, k)
    BY DEF Stores
  <2> QED
    BY <1>0, <1>1, <1>2, <1>3, <2>1, NextFreshOf
<1>5. ASSUME NEW l \in Identities \ {k} PROVE FreshOf(l)'
  <2>1. \A v : Serves(stm, l, v) => Serves(stm', l, v)
    BY ServesSame
  <2> QED
    BY <1>2, <1>3, <2>1, FreshApart
<1>6. ASSUME NEW x \in MemActor \ {m}, NEW l \in memOps[x].ident, memOps'[x].clean
      PROVE  /\ Having(ltm', l) = Having(ltm, l) /\ Having(stm', l) \subseteq stm /\ vec'[l] = vec[l]
             /\ Serves(stm, l, x) => Serves(stm', l, x)
  <2>1. l # k /\ l \in Identities
    BY <1>0, <1>6, Progress DEF MemBase, CleanAlone, Others, Weaker
  <2>2. Having(stm', l) = Having(stm, l) /\ vec'[l] = vec[l]
    BY <2>1
  <2>3. Having(stm', l) \subseteq stm
    BY <2>2 DEF Having
  <2> QED
    BY <1>3, <2>2, <2>3, ServesSame
<1>7. \A l \in Identities : FreshOf(l)'
  BY <1>4, <1>5
<1> QED
  BY <1>6, <1>7, NextFresh

LEMMA FreshWarmup ==
  ASSUME FreshInv, NEW m \in MemActor, NEW a, BeginWarmup(m, a)
  PROVE  FreshInv'
<1>0. MemBase
  BY DEF FreshInv
<1>1. /\ Others(m) /\ MemBase' /\ memOps'[m].pc = "wclear" /\ ~memOps'[m].clean
      /\ memOps'[m].ident = {k \in Identities : k.agent = a}
      /\ memOps'[m].left = Newest(OfAgent(ltm, a), StmMax)
  BY <1>0, BeginWarmupIs DEF Fields
<1>2. ltm' = ltm /\ stm' = stm /\ vec' = vec /\ fresh' = fresh
  BY DEF BeginWarmup
<1>3. IsFiniteSet(ltm) /\ (\A e \in ltm : e.at \in Nat) /\ StmMax \in Nat
  BY <1>0, CapsAreNaturals DEF MemBase, MemTyped, Doc
<1>4. CleanOf(m)' /\ \A k : TakesOldest(m, k)' /\ ~Stores(m, k)'
  BY <1>1 DEF CleanOf, TakesOldest, Stores
<1>5. \A k : Having(ltm', k) = Having(ltm, k) /\ Having(ltm', k) \subseteq ltm /\ Having(stm', k) \subseteq stm
  BY <1>2 DEF Having
<1>6. ASSUME NEW k \in Identities PROVE FreshOf(k)'
  <2>1. FreshOf(k) /\ fresh[k] \in Values
    BY <1>0 DEF FreshInv, MemBase, MemTyped
  <2>2. ASSUME fresh'[k] # NoActor, k \in memOps'[m].ident
        PROVE  Serves(memOps'[m].left, k, fresh[k])
    <3>1. k.agent = a
      BY <1>1, <2>2
    <3>2. Serves(ltm, k, fresh[k])
      BY <1>2, <2>1, <2>2 DEF FreshOf, Rules, Values
    <3> QED
      BY <1>1, <1>3, <3>1, <3>2, ServesNewest
  <2>3. memOps'[m].pc \in WarmupPcs
    BY <1>1 DEF WarmupPcs
  <2> QED
    BY <1>0, <1>1, <1>2, <1>4, <1>5, <2>1, <2>2, <2>3, NextFreshOf
<1> QED
  BY <1>1, <1>2, <1>4, <1>5, <1>6, NextFresh

LEMMA FreshFind ==
  ASSUME FreshInv, NEW m \in MemActor, Find(m)
  PROVE  FreshInv'
<1>0. MemBase
  BY DEF FreshInv
<1>1. /\ Others(m) /\ MemBase' /\ memOps[m].pc = "find" /\ memOps'[m].pc = "write"
      /\ memOps'[m].ident = memOps[m].ident /\ memOps'[m].at = memClock + 1
      /\ memOps'[m].clean = memOps[m].clean /\ memOps'[m].found \subseteq ltm
  BY <1>0, FindIs DEF Fields, Having
<1>2. ltm' = ltm /\ stm' = stm /\ vec' = vec /\ fresh' = fresh
  BY DEF Find
<1>3. PICK k \in Identities : memOps[m].ident = {k}
  BY <1>0, <1>1, OneIdent DEF StorePcs
<1>4. /\ memClock \in Nat /\ \A d \in ltm : d.at \in Nat /\ d.at <= memClock
      /\ \A e \in stm : e.at \in Nat /\ e.at <= memClock
  BY <1>0 DEF MemBase, MemTyped, Stamped, Doc, Entry
<1>5. CleanOf(m)'
  BY <1>1, <1>2, <1>4 DEF CleanOf, TrimPcs
<1>6. memOps[m].pc \notin WarmupPcs \cup TrimPcs /\ memOps'[m].pc \notin PastWrite
  BY <1>1 DEF WarmupPcs, TrimPcs, PastWrite
<1> QED
  BY <1>1, <1>2, <1>3, <1>5, <1>6, FreshOwn DEF Having

LEMMA FreshWrite ==
  ASSUME FreshInv, NEW m \in MemActor, Write(m)
  PROVE  FreshInv'
<1>0. MemBase /\ CleanOf(m) /\ OpShaped(memOps[m])
  BY Progress DEF FreshInv
<1>1. /\ Others(m) /\ MemBase' /\ memOps[m].pc = "write" /\ memOps'[m].pc \in {"vector", "count"}
      /\ memOps'[m].ident = memOps[m].ident /\ memOps'[m].at = memOps[m].at
      /\ memOps'[m].clean = memOps[m].clean
  BY <1>0, WriteIs DEF Fields
<1>2. stm' = stm /\ vec' = vec /\ fresh' = fresh
  BY DEF Write
<1>3. PICK k \in Identities : /\ memOps[m].ident = {k}
              /\ \/ /\ ltm' = ltm
                    /\ \E d \in memOps[m].found : \A e \in ltm : e.no # d.no
                 \/ \E n \in Doc :
                      /\ ltm' = {e \in ltm : e.no # n.no} \cup {n}
                      /\ n.ident = k /\ n.value = m /\ n.at = memOps[m].at
                      /\ \/ memOps[m].found = {} /\ n.no = m /\ \A e \in ltm : e.no # m
                         \/ \E d \in memOps[m].found : n.no = d.no
  BY <1>0, WriteIs
<1>4. \A e \in ltm, d \in memOps[m].found : e.no = d.no => e.ident = k
  <2> SUFFICES ASSUME NEW e \in ltm, NEW d \in memOps[m].found, e.no = d.no PROVE e.ident = k
    OBVIOUS
  <2>1. Known(e) /\ Known(d) /\ e \in Doc /\ d \in Doc /\ d.ident = k
    BY <1>0, <1>3, Progress DEF Known, MemBase, MemTyped, OpShaped
  <2> QED
    BY <1>0, <2>1 DEF MemBase, Numbered
<1>5. \A l \in Identities \ {k} : Having(ltm', l) = Having(ltm, l)
  BY <1>3, <1>4 DEF Having
<1>6. fresh[k] = NoActor
  <2>1. memOps[m].pc \notin WarmupPcs \cup TrimPcs
    BY <1>1 DEF WarmupPcs, TrimPcs
  <2> QED
    BY <1>3, <2>1 DEF FreshInv, FreshOf
<1>7. ASSUME NEW v \in MemActor, Rules(v, k)' PROVE v = m /\ memOps[m].clean
  <2>1. Stores(v, k)'
    BY <1>2, <1>6, <1>7, NobodyIsNoActor DEF Rules
  <2>2. ASSUME v # m PROVE FALSE
    BY <1>0, <1>1, <1>3, <2>1, <2>2 DEF Stores, Others, Weaker, MemBase, CleanAlone
  <2> QED
    BY <1>1, <2>1, <2>2 DEF Stores
<1>8. ASSUME memOps[m].clean PROVE Serves(ltm', k, m)
  <2>1. memOps[m].found \subseteq ltm /\ \A d \in ltm : d.ident = k => d.at < memOps[m].at
    BY <1>0, <1>1, <1>3, <1>8 DEF CleanOf
  <2>2. PICK n \in Doc : /\ ltm' = {e \in ltm : e.no # n.no} \cup {n}
                         /\ n.ident = k /\ n.value = m /\ n.at = memOps[m].at
    BY <1>3, <2>1
  <2>3. \A e \in ltm : e.at \in Nat /\ n.at \in Nat
    BY <1>0 DEF MemBase, MemTyped, Doc
  <2> QED
    BY <2>1, <2>2, <2>3 DEF Serves
<1>9. ASSUME NEW x \in MemActor PROVE TakesOldest(x, k)'
  <2>1. ASSUME NEW d \in memOps'[x].left, d.value = m, memOps'[x].pc = "forget" PROVE FALSE
    <3>1. x # m /\ d \in memOps[x].left
      BY <1>1, <2>1 DEF Others, Weaker
    <3>2. Known(d) /\ d \in Doc
      BY <1>0, <3>1, Progress DEF Known
    <3>3. ~Written(m)
      BY <1>1 DEF Written
    <3> QED
      BY <1>0, <2>1, <3>2, <3>3, NobodyIsNoActor DEF MemBase, Numbered
  <2> QED
    BY <1>7, <2>1 DEF TakesOldest, Rules
<1>10. FreshOf(k)'
  BY <1>2, <1>6, <1>7, <1>8, <1>9 DEF FreshOf
<1>11. ASSUME NEW l \in Identities \ {k} PROVE FreshOf(l)'
  <2>1. TakesOldest(m, l)' /\ l \notin memOps'[m].ident
    BY <1>1, <1>3 DEF TakesOldest
  <2> QED
    BY <1>1, <1>2, <1>5, <2>1, FreshApart
<1>12. CleanOf(m)'
  BY <1>0, <1>1, <1>2 DEF CleanOf, StorePcs, TrimPcs
<1>13. ASSUME NEW x \in MemActor \ {m}, NEW l \in memOps[x].ident, memOps'[x].clean
       PROVE  /\ Having(ltm', l) = Having(ltm, l) /\ Having(stm', l) \subseteq stm /\ vec'[l] = vec[l]
              /\ Serves(stm, l, x) => Serves(stm', l, x)
  <2>1. l # k /\ l \in Identities
    BY <1>0, <1>1, <1>3, <1>13, Progress DEF MemBase, CleanAlone, Others, Weaker
  <2> QED
    BY <1>2, <1>5, <2>1 DEF Having
<1>14. \A l \in Identities : FreshOf(l)'
  BY <1>10, <1>11
<1> QED
  BY <1>1, <1>12, <1>13, <1>14, NextFresh

LEMMA FreshCount ==
  ASSUME FreshInv, NEW m \in MemActor, CountDocuments(m)
  PROVE  FreshInv'
<1>0. MemBase /\ CleanOf(m)
  BY DEF FreshInv
<1>1. /\ Others(m) /\ MemBase' /\ memOps[m].pc = "count" /\ memOps'[m].pc \in {"vector", "list"}
      /\ memOps'[m].ident = memOps[m].ident /\ memOps'[m].at = memOps[m].at
      /\ memOps'[m].clean = memOps[m].clean
  BY <1>0, CountIs DEF Fields
<1>2. ltm' = ltm /\ stm' = stm /\ vec' = vec /\ fresh' = fresh
  BY DEF CountDocuments
<1>3. CleanOf(m)' /\ \A k \in Identities : TakesOldest(m, k)'
  BY <1>0, <1>1, <1>2 DEF CleanOf, TakesOldest, StorePcs, TrimPcs
<1>4. memOps[m].pc \in PastWrite /\ memOps[m].pc \notin WarmupPcs \cup TrimPcs /\ memOps'[m].pc \notin WarmupPcs
  BY <1>1 DEF PastWrite, WarmupPcs, TrimPcs
<1> QED
  BY <1>1, <1>2, <1>3, <1>4, NextFreshAlong

LEMMA FreshList ==
  ASSUME FreshInv, NEW m \in MemActor, ListOldest(m)
  PROVE  FreshInv'
<1>0. MemBase /\ CleanOf(m)
  BY DEF FreshInv
<1> DEFINE oldest == Oldest(OfAgent(ltm, AgentOf(m)), memOps[m].excess)
<1>1. /\ Others(m) /\ MemBase' /\ memOps[m].pc = "list" /\ memOps'[m].pc \in {"vector", "forget"}
      /\ memOps'[m].ident = memOps[m].ident /\ memOps'[m].at = memOps[m].at
      /\ memOps'[m].clean = memOps[m].clean /\ memOps'[m].left = oldest
  BY <1>0, ListIs DEF Fields
<1>2. ltm' = ltm /\ stm' = stm /\ vec' = vec /\ fresh' = fresh
  BY DEF ListOldest
<1>3. PICK k \in Identities : memOps[m].ident = {k}
  BY <1>0, <1>1, OneIdent DEF StorePcs
<1>4. AgentOf(m) = k.agent
  BY <1>0, <1>3, AgentIs
<1>5. oldest \subseteq ltm
  BY DEF Oldest, OfAgent
<1>6. ASSUME NEW l \in Identities PROVE TakesOldest(m, l)'
  <2> SUFFICES ASSUME NEW d \in oldest, d \in ltm, d.ident = l, NEW e \in ltm, e.ident = l, e.at < d.at
               PROVE  e \in oldest
    BY <1>1, <1>2 DEF TakesOldest
  <2> DEFINE A == OfAgent(ltm, k.agent)
  <2>1. oldest = Oldest(A, memOps[m].excess)
    BY <1>4
  <2>2. IsFiniteSet(A) /\ (\A x \in A : x.at \in Nat) /\ memOps[m].excess \in Nat
    BY <1>0, SizesAre, Progress DEF MemBase, MemTyped, Doc, OfAgent
  <2>3. d \in A /\ e \in A
    BY <2>1 DEF Oldest, OfAgent
  <2>4. e.at <= d.at
    BY <2>2, <2>3
  <2> HIDE DEF A, oldest
  <2> QED
    BY <2>1, <2>2, <2>3, <2>4, OldestIsLow
<1>7. CleanOf(m)'
  BY <1>0, <1>1, <1>2, <1>5 DEF CleanOf, StorePcs, TrimPcs, Having
<1>8. memOps[m].pc \in PastWrite /\ memOps[m].pc \notin WarmupPcs \cup TrimPcs /\ memOps'[m].pc \notin WarmupPcs
  BY <1>1 DEF PastWrite, WarmupPcs, TrimPcs
<1> HIDE DEF oldest
<1> QED
  BY <1>1, <1>2, <1>6, <1>7, <1>8, NextFreshAlong

LEMMA FreshForget ==
  ASSUME FreshInv, NEW m \in MemActor, Forget(m)
  PROVE  FreshInv'
<1>0. MemBase /\ CleanOf(m) /\ IsFiniteSet(memOps[m].left) /\ memOps[m].left \subseteq Doc
  BY Progress DEF FreshInv, OpShaped
<1>1. Others(m) /\ MemBase' /\ memOps[m].pc = "forget" /\ stm' = stm /\ vec' = vec
  BY <1>0, ForgetIs DEF Forget
<1>2. PICK d \in Oldest(memOps[m].left, 1) :
        /\ ltm' = {e \in ltm : e.no # d.no}
        /\ Fields(memOps'[m], IF memOps[m].left \ {d} = {} THEN "vector" ELSE "forget",
                  memOps[m].ident, memOps[m].found, memOps[m].at, memOps[m].left \ {d},
                  memOps[m].raw, memOps[m].excess, memOps[m].clean, memOps[m].whole)
        /\ \A x \in MemActor \ {m} : d.ident \in memOps[x].ident => ~memOps'[x].clean
        /\ IF d \in ltm THEN UNCHANGED fresh ELSE Unknown({d.ident})
  BY <1>0, ForgetIs
<1>3. /\ d \in memOps[m].left /\ d \in Doc /\ memOps'[m].pc \in {"vector", "forget"}
      /\ memOps'[m].ident = memOps[m].ident /\ memOps'[m].left = memOps[m].left \ {d}
      /\ memOps'[m].at = memOps[m].at /\ memOps'[m].clean = memOps[m].clean
  BY <1>0, <1>2 DEF Oldest, Fields
<1>4. ASSUME NEW e \in ltm, e.no = d.no PROVE e.ident = d.ident /\ (d \in ltm => e = d)
  <2>1. Known(e) /\ Known(d) /\ e \in Doc
    BY <1>0, <1>3 DEF Known, MemBase, MemTyped
  <2> QED
    BY <1>0, <1>3, <1>4, <2>1 DEF MemBase, Numbered
<1>5. \A k : k # d.ident => Having(ltm', k) = Having(ltm, k)
  BY <1>2, <1>4 DEF Having
<1>6. \A k \in Identities : k # d.ident => fresh'[k] = fresh[k]
  BY <1>2 DEF Unknown
<1>7. ASSUME NEW k \in Identities,
             \A v \in MemActor : Rules(v, k)' /\ Serves(ltm, k, v) => Serves(ltm', k, v),
             fresh'[k] = fresh[k]
      PROVE  FreshOf(k)'
  <2>1. FreshOf(k) /\ memOps[m].pc \notin WarmupPcs \cup TrimPcs /\ memOps[m].pc \in PastWrite
    BY <1>1 DEF FreshInv, WarmupPcs, TrimPcs, PastWrite
  <2>2. Stores(m, k)' => Stores(m, k)
    BY <1>3, <2>1 DEF Stores
  <2>3. fresh[k] # NoActor => k \notin memOps'[m].ident
    BY <1>3, <2>1 DEF FreshOf
  <2>4. Having(ltm', k) \subseteq ltm /\ ltm' \subseteq ltm
    BY <1>2 DEF Having
  <2>5. ASSUME NEW v \in MemActor, Rules(v, k)' PROVE Rules(v, k)
    <3>1. CASE v = m
      BY <1>7, <2>2, <2>5, <3>1 DEF Rules
    <3>2. CASE v # m
      <4>1. Weaker(memOps'[v], memOps[v])
        BY <1>1, <3>2 DEF Others
      <4> QED
        BY <1>7, <2>5, <4>1 DEF Rules, Stores, Weaker
    <3> QED
      BY <3>1, <3>2
  <2>6. TakesOldest(m, k)'
    <3> SUFFICES ASSUME NEW d2 \in memOps'[m].left, d2 \in ltm', d2.ident = k, Rules(d2.value, k)',
                        NEW e \in ltm', e.ident = k, e.at < d2.at
                 PROVE  e \in memOps'[m].left
      BY DEF TakesOldest
    <3>1. Rules(d2.value, k) /\ d2 \in memOps[m].left /\ d2 \in ltm /\ e \in ltm
      BY <1>3, <2>4, <2>5 DEF Rules
    <3>2. e \in memOps[m].left
      BY <1>1, <2>1, <3>1 DEF FreshOf, TakesOldest
    <3> QED
      BY <1>2, <1>3, <3>2
  <2> QED
    BY <1>0, <1>1, <1>7, <2>1, <2>2, <2>3, <2>4, <2>6, NextFreshOf
<1>8. ASSUME NEW k \in Identities, k # d.ident PROVE FreshOf(k)'
  <2>1. \A v \in MemActor : Rules(v, k)' /\ Serves(ltm, k, v) => Serves(ltm', k, v)
    BY <1>5, <1>8, ServesSame
  <2> QED
    BY <1>6, <1>7, <1>8, <2>1
<1>9. ASSUME NEW k \in Identities, k = d.ident, d \notin ltm PROVE FreshOf(k)'
  <2>1. fresh'[k] = NoActor
    BY <1>2, <1>9 DEF Unknown
  <2>2. ASSUME NEW x \in MemActor, Stores(x, k)' PROVE FALSE
    <3>1. ASSUME x # m PROVE FALSE
      <4>1. Weaker(memOps'[x], memOps[x])
        BY <1>1, <3>1 DEF Others
      <4> QED
        BY <1>2, <1>9, <2>2, <3>1, <4>1 DEF Stores, Weaker
    <3>2. memOps[m].clean /\ k \in memOps[m].ident
      BY <1>3, <2>2, <3>1 DEF Stores
    <3>3. d \in Having(memOps[m].left, k)
      BY <1>3, <1>9 DEF Having
    <3> QED
      BY <1>0, <1>1, <1>9, <3>2, <3>3 DEF CleanOf
  <2> QED
    BY <2>1, <2>2, NothingRules
<1>10. ASSUME NEW k \in Identities, k = d.ident, d \in ltm PROVE FreshOf(k)'
  <2>1. fresh' = fresh
    BY <1>2, <1>10
  <2>2. ASSUME NEW v \in MemActor, Rules(v, k)', Serves(ltm, k, v) PROVE Serves(ltm', k, v)
    <3> SUFFICES ASSUME NEW e \in ltm', e.ident = k, e.value # v
                 PROVE  \E f \in ltm' : f.ident = k /\ f.value = v /\ f.at > e.at
      BY DEF Serves
    <3>1. e \in ltm
      BY <1>2
    <3>2. PICK f \in ltm : f.ident = k /\ f.value = v /\ f.at > e.at
      BY <2>2, <3>1 DEF Serves
    <3>3. ASSUME f.no = d.no PROVE FALSE
      <4>1. f = d
        BY <1>4, <1>10, <3>3
      <4>2. Rules(v, k)
        BY <1>1, <1>3, <2>1, <2>2 DEF Rules, Stores, Others, Weaker, PastWrite
      <4>3. e.at < d.at
        BY <1>0, <3>1, <3>2, <4>1 DEF MemBase, MemTyped, Doc
      <4>4. e \in memOps[m].left
        BY <1>1, <1>3, <3>1, <3>2, <4>1, <4>2, <4>3 DEF FreshInv, FreshOf, TakesOldest
      <4> QED
        BY <1>0, <4>3, <4>4, OldestIsFirst
    <3>4. f \in ltm'
      BY <1>2, <3>3
    <3> QED
      BY <3>2, <3>4
  <2> QED
    BY <1>7, <2>1, <2>2
<1>11. CleanOf(m)'
  <2> SUFFICES ASSUME memOps[m].clean, NEW k \in memOps[m].ident
               PROVE  /\ \A e \in stm : e.ident = k => e.at < memOps[m].at
                      /\ Having(memOps'[m].left, k) \subseteq ltm'
    BY <1>1, <1>3 DEF CleanOf, TrimPcs, Having
  <2>1. Having(memOps[m].left, k) \subseteq ltm /\ \A e \in stm : e.ident = k => e.at < memOps[m].at
    BY <1>0, <1>1 DEF CleanOf, StorePcs
  <2>2. ASSUME NEW x \in Having(memOps'[m].left, k) PROVE x \in ltm'
    <3>1. x \in Having(memOps[m].left, k) /\ x # d /\ x.ident = k
      BY <1>3 DEF Having
    <3>2. x \in ltm
      BY <2>1, <3>1
    <3>3. ASSUME x.no = d.no PROVE FALSE
      <4>1. d.ident = k
        BY <1>4, <3>1, <3>2, <3>3
      <4>2. d \in ltm
        BY <1>3, <2>1, <4>1 DEF Having
      <4> QED
        BY <1>4, <3>1, <3>2, <3>3, <4>2
    <3> QED
      BY <1>2, <3>2, <3>3
  <2> QED
    BY <2>1, <2>2
<1>12. ASSUME NEW x \in MemActor \ {m}, NEW l \in memOps[x].ident, memOps'[x].clean
       PROVE  /\ Having(ltm', l) = Having(ltm, l) /\ Having(stm', l) \subseteq stm /\ vec'[l] = vec[l]
              /\ Serves(stm, l, x) => Serves(stm', l, x)
  <2>1. l # d.ident
    BY <1>2, <1>12
  <2> QED
    BY <1>1, <1>5, <2>1 DEF Having
<1>13. \A k \in Identities : FreshOf(k)'
  BY <1>8, <1>9, <1>10
<1> QED
  BY <1>1, <1>11, <1>12, <1>13, NextFresh

LEMMA FreshVector ==
  ASSUME FreshInv, NEW m \in MemActor, StoreVector(m)
  PROVE  FreshInv'
<1>0. MemBase /\ CleanOf(m) /\ vec \in [Identities -> Values]
  BY DEF FreshInv, MemBase, MemTyped
<1>1. /\ Others(m) /\ MemBase' /\ memOps[m].pc = "vector" /\ memOps'[m].pc = "zrange"
      /\ memOps'[m].ident = memOps[m].ident /\ memOps'[m].at = memOps[m].at
      /\ memOps'[m].clean = memOps[m].clean
  BY <1>0, VectorIs DEF Fields
<1>2. PICK k \in Identities :
        /\ memOps[m].ident = {k} /\ (vec' = vec \/ vec' = [vec EXCEPT ![k] = m])
        /\ memOps'[m].whole => memOps[m].whole /\ vec'[k] \in {m, NoActor}
  BY <1>0, VectorIs
<1>3. ltm' = ltm /\ stm' = stm /\ fresh' = fresh
  BY DEF StoreVector
<1>4. CleanOf(m)'
  BY <1>0, <1>1, <1>2, <1>3 DEF CleanOf, StorePcs, TrimPcs
<1>5. \A l \in Identities \ {k} : Having(stm', l) = Having(stm, l) /\ vec'[l] = vec[l]
  BY <1>0, <1>2, <1>3 DEF Having
<1>6. memOps[m].pc \notin WarmupPcs \cup TrimPcs /\ memOps[m].pc \in PastWrite /\ memOps'[m].pc # "forget"
  BY <1>1 DEF WarmupPcs, TrimPcs, PastWrite
<1> QED
  BY <1>1, <1>2, <1>3, <1>4, <1>5, <1>6, FreshOwn

LEMMA FreshZrange ==
  ASSUME FreshInv, NEW m \in MemActor, Zrange(m)
  PROVE  FreshInv'
<1>0. MemBase /\ CleanOf(m)
  BY DEF FreshInv
<1>1. /\ Others(m) /\ MemBase' /\ memOps[m].pc = "zrange" /\ memOps'[m].pc \in {"zrem", "zadd"}
      /\ memOps'[m].ident = memOps[m].ident /\ memOps'[m].at = memOps[m].at
      /\ memOps'[m].clean = memOps[m].clean /\ memOps'[m].whole = memOps[m].whole
  BY <1>0, ZrangeIs DEF Fields
<1>2. ltm' = ltm /\ stm' = stm /\ vec' = vec /\ fresh' = fresh
  BY DEF Zrange
<1>3. CleanOf(m)' /\ \A k \in Identities : TakesOldest(m, k)'
  BY <1>0, <1>1, <1>2 DEF CleanOf, TakesOldest, StorePcs, TrimPcs
<1>4. memOps[m].pc \in PastWrite /\ memOps[m].pc \notin WarmupPcs \cup TrimPcs /\ memOps'[m].pc \notin WarmupPcs
  BY <1>1 DEF PastWrite, WarmupPcs, TrimPcs
<1> QED
  BY <1>1, <1>2, <1>3, <1>4, NextFreshAlong

LEMMA FreshZrem ==
  ASSUME FreshInv, NEW m \in MemActor, Zrem(m)
  PROVE  FreshInv'
<1>0. MemBase /\ CleanOf(m) /\ OpShaped(memOps[m])
  BY Progress DEF FreshInv
<1>1. /\ Others(m) /\ MemBase' /\ memOps[m].pc = "zrem" /\ memOps'[m].pc = "zadd"
      /\ memOps'[m].ident = memOps[m].ident /\ memOps'[m].at = memOps[m].at
      /\ memOps'[m].clean = memOps[m].clean /\ memOps'[m].whole = memOps[m].whole
      /\ stm' = stm \ memOps[m].raw
  BY <1>0, ZremIs DEF Fields
<1>2. ltm' = ltm /\ vec' = vec /\ fresh' = fresh
  BY DEF Zrem
<1>3. PICK k \in Identities : memOps[m].ident = {k}
  BY <1>0, <1>1, OneIdent DEF StorePcs
<1>4. CleanOf(m)'
  BY <1>0, <1>1, <1>2 DEF CleanOf, StorePcs, TrimPcs
<1>5. \A l \in Identities \ {k} : Having(stm', l) = Having(stm, l) /\ vec'[l] = vec[l]
  BY <1>0, <1>1, <1>2, <1>3 DEF Having, OpShaped
<1>6. memOps[m].pc \notin WarmupPcs \cup TrimPcs /\ memOps[m].pc \in PastWrite /\ memOps'[m].pc # "forget"
  BY <1>1 DEF WarmupPcs, TrimPcs, PastWrite
<1> QED
  BY <1>1, <1>2, <1>3, <1>4, <1>5, <1>6, FreshOwn

LEMMA FreshZadd ==
  ASSUME FreshInv, NEW m \in MemActor, Zadd(m)
  PROVE  FreshInv'
<1>0. MemBase /\ CleanOf(m)
  BY DEF FreshInv
<1>1. /\ Others(m) /\ MemBase' /\ memOps[m].pc = "zadd" /\ memOps'[m].pc = "zcard"
      /\ memOps'[m].ident = memOps[m].ident /\ memOps'[m].at = memOps[m].at
      /\ memOps'[m].clean = memOps[m].clean /\ memOps'[m].whole = memOps[m].whole
  BY <1>0, ZaddIs DEF Fields
<1>2. ltm' = ltm /\ vec' = vec /\ fresh' = fresh
  BY DEF Zadd
<1>3. PICK k \in Identities, n \in Entry :
        /\ memOps[m].ident = {k} /\ stm' = stm \cup {n}
        /\ n.ident = k /\ n.value = m /\ n.at = memOps[m].at
  BY <1>0, ZaddIs
<1>4. ASSUME memOps[m].clean PROVE Serves(stm', k, m)
  <2>1. \A e \in stm : e.ident = k => e.at < memOps[m].at
    BY <1>0, <1>1, <1>3, <1>4 DEF CleanOf, StorePcs
  <2>2. \A e \in stm : e.at \in Nat /\ n.at \in Nat
    BY <1>0 DEF MemBase, MemTyped, Entry
  <2> QED
    BY <1>3, <2>1, <2>2 DEF Serves
<1>5. CleanOf(m)'
  BY <1>0, <1>1, <1>2, <1>3, <1>4 DEF CleanOf, StorePcs, TrimPcs
<1>6. \A l \in Identities \ {k} : Having(stm', l) = Having(stm, l) /\ vec'[l] = vec[l]
  BY <1>2, <1>3 DEF Having
<1>7. memOps[m].pc \notin WarmupPcs \cup TrimPcs /\ memOps[m].pc \in PastWrite /\ memOps'[m].pc # "forget"
  BY <1>1 DEF WarmupPcs, TrimPcs, PastWrite
<1> QED
  BY <1>1, <1>2, <1>3, <1>5, <1>6, <1>7, FreshOwn

\* A store is over, or a warm-up.
LEMMA FreshFinish ==
  ASSUME FreshInv, MemBase', NEW m \in MemActor, Others(m), memOps[m].pc \in TrimPcs,
         Fields(memOps'[m], "done", {}, {}, 0, {}, {}, 0, FALSE, TRUE),
         \A k \in Identities : fresh'[k] =
              IF memOps[m].clean /\ memOps[m].whole /\ memOps[m].ident = {k} THEN m ELSE fresh[k],
         ltm' = ltm, vec' = vec, stm' \subseteq stm,
         \A k, v : Serves(stm, k, v) => Serves(stm', k, v)
  PROVE  FreshInv'
<1>0. MemBase /\ CleanOf(m)
  BY DEF FreshInv
<1>1. memOps'[m].pc = "done" /\ memOps'[m].ident = {} /\ ~memOps'[m].clean
  BY DEF Fields
<1>2. CleanOf(m)' /\ \A k : TakesOldest(m, k)'
  BY <1>1 DEF CleanOf, TakesOldest
<1>3. \A k : Having(ltm', k) = Having(ltm, k) /\ Having(stm', k) \subseteq stm
  BY DEF Having
<1>4. ASSUME NEW k \in Identities, fresh'[k] = fresh[k] PROVE FreshOf(k)'
  BY <1>1, <1>2, <1>3, <1>4, FreshApart
<1>5. ASSUME NEW k \in Identities, memOps[m].clean, memOps[m].whole, memOps[m].ident = {k} PROVE FreshOf(k)'
  <2>1. fresh'[k] = m /\ FreshOf(k)
    BY <1>5 DEF FreshInv
  <2>2. \A x \in MemActor : k \notin memOps'[x].ident
    BY <1>0, <1>1, <1>5 DEF MemBase, CleanAlone, Others, Weaker
  <2>3. Rules(m, k) /\ \A v \in MemActor : Rules(v, k)' => v = m
    BY <1>5, <2>1, <2>2 DEF Rules, Stores, PastWrite
  <2>4. vec'[k] \in {m, NoActor} /\ Serves(stm', k, m)
    BY <1>0, <1>5 DEF CleanOf
  <2>5. \A v \in MemActor : Rules(v, k)' => Serves(ltm', k, v)
    BY <2>1, <2>3 DEF FreshOf
  <2>6. ASSUME NEW x \in MemActor PROVE TakesOldest(x, k)'
    <3>1. CASE x = m
      BY <1>2, <3>1
    <3>2. CASE x # m
      <4>1. Weaker(memOps'[x], memOps[x]) /\ TakesOldest(x, k)
        BY <2>1, <3>2 DEF Others, FreshOf
      <4>2. \A d : Rules(d, k)' => Rules(d, k)
        BY <2>3 DEF Rules
      <4> QED
        BY <4>1, <4>2 DEF TakesOldest, Weaker
    <3> QED
      BY <3>1, <3>2
  <2> QED
    BY <2>1, <2>2, <2>4, <2>5, <2>6 DEF FreshOf
<1>6. \A k \in Identities : FreshOf(k)'
  BY <1>4, <1>5
<1> QED
  BY <1>2, <1>3, <1>6, NextFresh

LEMMA FreshZcard ==
  ASSUME FreshInv, NEW m \in MemActor, Zcard(m)
  PROVE  FreshInv'
<1>0. MemBase /\ CleanOf(m)
  BY DEF FreshInv
<1>1. /\ Others(m) /\ MemBase' /\ memOps[m].pc = "zcard" /\ ltm' = ltm /\ stm' = stm /\ vec' = vec
      /\ memClock' = memClock
  BY <1>0, ZcardIs DEF Zcard
<1>2. CASE Finish(m)
  <2>1. /\ Fields(memOps'[m], "done", {}, {}, 0, {}, {}, 0, FALSE, TRUE)
        /\ \A k \in Identities : fresh'[k] =
              IF memOps[m].clean /\ memOps[m].whole /\ memOps[m].ident = {k} THEN m ELSE fresh[k]
    BY <1>0, <1>1, <1>2, FinishIs DEF TrimPcs
  <2> QED
    BY <1>1, <2>1, FreshFinish DEF TrimPcs
<1>3. ASSUME fresh' = fresh, memOps'[m].pc = "ztrim", memOps'[m].ident = memOps[m].ident,
             memOps'[m].clean = memOps[m].clean, memOps'[m].whole = memOps[m].whole
      PROVE  FreshInv'
  <2>1. CleanOf(m)' /\ \A k \in Identities : TakesOldest(m, k)'
    BY <1>0, <1>1, <1>3 DEF CleanOf, TakesOldest, StorePcs, TrimPcs
  <2>2. memOps[m].pc \in PastWrite /\ memOps'[m].pc \in TrimPcs /\ memOps'[m].pc \notin WarmupPcs
    BY <1>1, <1>3 DEF PastWrite, WarmupPcs, TrimPcs
  <2> QED
    BY <1>1, <1>3, <2>1, <2>2, NextFreshAlong
<1> QED
  BY <1>0, <1>2, <1>3, ZcardIs DEF Fields

LEMMA FreshZtrim ==
  ASSUME FreshInv, NEW m \in MemActor, Ztrim(m)
  PROVE  FreshInv'
<1>0. MemBase
  BY DEF FreshInv
<1>1. /\ Others(m) /\ MemBase' /\ memOps[m].pc = "ztrim" /\ ltm' = ltm /\ vec' = vec
      /\ stm' = stm \ Oldest(OfAgent(stm, AgentOf(m)), memOps[m].excess)
      /\ Fields(memOps'[m], "done", {}, {}, 0, {}, {}, 0, FALSE, TRUE)
      /\ \A k \in Identities : fresh'[k] =
           IF memOps[m].clean /\ memOps[m].whole /\ memOps[m].ident = {k} THEN m ELSE fresh[k]
  BY <1>0, ZtrimIs DEF Ztrim
<1>2. IsFiniteSet(stm) /\ (\A e \in stm : e.at \in Nat) /\ memOps[m].excess \in Nat
  BY <1>0, Progress DEF MemBase, MemTyped, Entry
<1>3. \A k, v : Serves(stm, k, v) => Serves(stm', k, v)
  BY <1>1, <1>2, ServesLess
<1>4. stm' \subseteq stm /\ memOps[m].pc \in TrimPcs
  BY <1>1 DEF TrimPcs
<1> QED
  BY <1>1, <1>3, <1>4, FreshFinish

LEMMA FreshDeleteZrange ==
  ASSUME FreshInv, NEW m \in MemActor, DeleteZrange(m)
  PROVE  FreshInv'
<1>0. MemBase
  BY DEF FreshInv
<1>1. /\ Others(m) /\ MemBase' /\ memOps[m].pc = "drange" /\ memOps'[m].pc \in {"drem", "ddoc"}
      /\ memOps'[m].ident = memOps[m].ident /\ memOps'[m].clean = memOps[m].clean
  BY <1>0, DeleteZrangeIs DEF Fields
<1>2. ltm' = ltm /\ stm' = stm /\ vec' = vec /\ fresh' = fresh
  BY DEF DeleteZrange
<1>3. CleanOf(m)' /\ \A k \in Identities : TakesOldest(m, k)'
  BY <1>1 DEF CleanOf, TakesOldest, StorePcs, TrimPcs
<1>4. /\ memOps'[m].pc \notin PastWrite /\ memOps[m].pc \notin WarmupPcs \cup TrimPcs
      /\ memOps'[m].pc \notin WarmupPcs
  BY <1>1 DEF PastWrite, WarmupPcs, TrimPcs
<1> QED
  BY <1>1, <1>2, <1>3, <1>4, NextFreshAlong

LEMMA FreshDeleteZrem ==
  ASSUME FreshInv, NEW m \in MemActor, DeleteZrem(m)
  PROVE  FreshInv'
<1>0. MemBase /\ OpShaped(memOps[m])
  BY Progress DEF FreshInv
<1>1. /\ Others(m) /\ MemBase' /\ memOps[m].pc = "drem" /\ memOps'[m].pc = "ddoc"
      /\ memOps'[m].ident = memOps[m].ident /\ memOps'[m].clean = memOps[m].clean
      /\ (stm' = stm \/ stm' = stm \ memOps[m].raw)
  BY <1>0, DeleteZremIs DEF Fields, DeleteZrem
<1>2. ltm' = ltm /\ vec' = vec /\ fresh' = fresh
  BY DEF DeleteZrem
<1>3. PICK k \in Identities : memOps[m].ident = {k}
  BY <1>0, <1>1, OneIdent DEF DeletePcs
<1>4. CleanOf(m)'
  BY <1>1 DEF CleanOf, StorePcs, TrimPcs
<1>5. \A l \in Identities \ {k} : Having(stm', l) = Having(stm, l) /\ vec'[l] = vec[l]
  BY <1>0, <1>1, <1>2, <1>3 DEF Having, OpShaped
<1>6. /\ memOps[m].pc \notin WarmupPcs \cup TrimPcs /\ memOps'[m].pc \notin PastWrite
      /\ memOps'[m].pc # "forget"
  BY <1>1 DEF WarmupPcs, TrimPcs, PastWrite
<1> QED
  BY <1>1, <1>2, <1>3, <1>4, <1>5, <1>6, FreshOwn

LEMMA FreshDeleteDocument ==
  ASSUME FreshInv, NEW m \in MemActor, DeleteDocument(m)
  PROVE  FreshInv'
<1>0. MemBase /\ OpShaped(memOps[m])
  BY Progress DEF FreshInv
<1>1. /\ Others(m) /\ MemBase' /\ memOps[m].pc = "ddoc"
      /\ memOps'[m].pc = "done" /\ memOps'[m].ident = {} /\ ~memOps'[m].clean
  BY <1>0, DeleteDocumentIs DEF Fields
<1>2. stm' = stm /\ vec' = vec /\ fresh' = fresh
  BY DEF DeleteDocument
<1>3. PICK d \in memOps[m].found : memOps[m].ident = {d.ident} /\ ltm' = {e \in ltm : e.no # d.no}
  BY <1>0, DeleteDocumentIs
<1> DEFINE k == d.ident
<1>4. /\ d \in Doc /\ k \in Identities
      /\ \A e \in ltm : e.no = d.no => e.ident = k
  BY <1>0, <1>3, Progress DEF MemBase, MemTyped, Numbered, Known, Doc
<1>5. \A l : l # k => Having(ltm', l) = Having(ltm, l)
  BY <1>3, <1>4 DEF Having
<1>6. fresh[k] = NoActor
  BY <1>1, <1>3, <1>4 DEF FreshInv, FreshOf, WarmupPcs, TrimPcs
<1>7. ASSUME NEW x \in MemActor PROVE ~Stores(x, k)'
  <2>1. CASE x = m
    BY <1>1, <2>1 DEF Stores
  <2>2. CASE x # m
    BY <1>0, <1>1, <1>3, <2>2 DEF Stores, Others, Weaker, MemBase, CleanAlone
  <2> QED
    BY <2>1, <2>2
<1>8. FreshOf(k)'
  BY <1>2, <1>6, <1>7, NothingRules
<1>9. CleanOf(m)' /\ \A l : TakesOldest(m, l)'
  BY <1>1 DEF CleanOf, TakesOldest
<1>10. ASSUME NEW l \in Identities, l # k PROVE FreshOf(l)'
  BY <1>1, <1>2, <1>5, <1>9, <1>10, FreshApart
<1>11. ASSUME NEW x \in MemActor \ {m}, NEW l \in memOps[x].ident, memOps'[x].clean
       PROVE  /\ Having(ltm', l) = Having(ltm, l) /\ Having(stm', l) \subseteq stm /\ vec'[l] = vec[l]
              /\ Serves(stm, l, x) => Serves(stm', l, x)
  <2>1. l # k
    BY <1>0, <1>1, <1>3, <1>11 DEF MemBase, CleanAlone, Others, Weaker
  <2> QED
    BY <1>2, <1>5, <2>1 DEF Having
<1>12. \A l \in Identities : FreshOf(l)'
  BY <1>8, <1>10
<1> QED
  BY <1>1, <1>9, <1>11, <1>12, NextFresh

LEMMA FreshClear ==
  ASSUME FreshInv, NEW m \in MemActor, WarmupClear(m)
  PROVE  FreshInv'
<1>0. MemBase /\ OpShaped(memOps[m])
  BY Progress DEF FreshInv
<1>1. /\ Others(m) /\ MemBase' /\ memOps[m].pc = "wclear" /\ memOps'[m].pc = "wadd"
      /\ memOps'[m].ident = memOps[m].ident /\ memOps'[m].left = memOps[m].left
      /\ memOps'[m].clean = memOps[m].clean /\ stm' = stm \ OfAgent(stm, AgentOf(m))
  BY <1>0, WarmupClearIs DEF Fields
<1>2. ltm' = ltm /\ vec' = vec /\ fresh' = fresh
  BY DEF WarmupClear
<1>3. ~memOps[m].clean
  BY <1>0, <1>1 DEF OpShaped, WarmupPcs
<1>4. CleanOf(m)' /\ \A k : TakesOldest(m, k)' /\ ~Stores(m, k)'
  BY <1>1, <1>3 DEF CleanOf, TakesOldest, Stores
<1>5. \A k, v : Serves(stm, k, v) => Serves(stm', k, v)
  BY <1>1 DEF Serves, OfAgent
<1>6. \A k : Having(ltm', k) = Having(ltm, k) /\ Having(ltm', k) \subseteq ltm /\ Having(stm', k) \subseteq stm
  BY <1>1, <1>2 DEF Having
<1>7. ASSUME NEW k \in Identities PROVE FreshOf(k)'
  <2>1. FreshOf(k)
    BY DEF FreshInv
  <2>2. fresh[k] # NoActor /\ k \in memOps'[m].ident => Serves(memOps'[m].left, k, fresh[k])
    BY <1>1, <2>1 DEF FreshOf, WarmupPcs
  <2>3. memOps'[m].pc \in WarmupPcs
    BY <1>1 DEF WarmupPcs
  <2> QED
    BY <1>0, <1>1, <1>2, <1>3, <1>4, <1>5, <1>6, <2>1, <2>2, <2>3, NextFreshOf
<1> QED
  BY <1>1, <1>2, <1>4, <1>5, <1>6, <1>7, NextFresh

LEMMA FreshFill ==
  ASSUME FreshInv, NEW m \in MemActor, WarmupFill(m)
  PROVE  FreshInv'
<1>0. MemBase /\ OpShaped(memOps[m])
  BY Progress DEF FreshInv
<1> DEFINE left == memOps[m].left
           new == {EntryOf(d) : d \in left}
<1>1. /\ Others(m) /\ MemBase' /\ memOps[m].pc = "wadd" /\ memOps'[m].pc = "zcard"
      /\ memOps'[m].ident = memOps[m].ident
      /\ memOps'[m].clean = memOps[m].clean /\ stm' = stm \cup new
  BY <1>0, WarmupFillIs DEF Fields
<1>2. ltm' = ltm /\ vec' = vec /\ fresh' = fresh
  BY DEF WarmupFill
<1>3. ~memOps[m].clean /\ \A d \in left : d.ident \in memOps[m].ident
  BY <1>0, <1>1 DEF OpShaped, WarmupPcs
<1>4. CleanOf(m)' /\ \A k : TakesOldest(m, k)' /\ ~Stores(m, k)'
  BY <1>1, <1>3 DEF CleanOf, TakesOldest, Stores
<1>5. ASSUME NEW k, k \notin memOps[m].ident PROVE Having(stm', k) = Having(stm, k)
  BY <1>1, <1>3, <1>5 DEF Having, EntryOf
<1>6. \A k : Having(ltm', k) = Having(ltm, k) /\ Having(ltm', k) \subseteq ltm
  BY <1>2 DEF Having
<1>7. ASSUME NEW k, NEW v, Serves(left, k, v), Serves(stm, k, v) PROVE Serves(stm', k, v)
  <2>1. \A d \in left : EntryOf(d) \in new /\ EntryOf(d).ident = d.ident /\ EntryOf(d).value = d.value /\ EntryOf(d).at = d.at
    BY DEF EntryOf
  <2>2. \A e \in new : \E d \in left : e = EntryOf(d)
    OBVIOUS
  <2>3. ASSUME NEW d \in left, d.ident = k, d.value # v PROVE \E f \in new : f.ident = k /\ f.value = v /\ f.at > d.at
    <3>1. PICK f \in left : f.ident = k /\ f.value = v /\ f.at > d.at
      BY <1>7, <2>3 DEF Serves
    <3> HIDE DEF new, left
    <3> QED
      BY <2>1, <3>1
  <2> HIDE DEF new, left
  <2> QED
    BY <1>1, <1>7, <2>1, <2>2, <2>3 DEF Serves
<1>8. ASSUME NEW k \in Identities PROVE FreshOf(k)'
  <2>1. FreshOf(k)
    BY DEF FreshInv
  <2>2. CASE k \in memOps[m].ident
    <3>1. fresh[k] # NoActor => (Serves(stm, k, fresh[k]) => Serves(stm', k, fresh[k]))
      BY <1>1, <1>7, <2>1, <2>2 DEF FreshOf, WarmupPcs
    <3>2. memOps'[m].pc \in TrimPcs /\ memOps'[m].pc \notin WarmupPcs
      BY <1>1 DEF TrimPcs, WarmupPcs
    <3> QED
      BY <1>0, <1>1, <1>2, <1>3, <1>4, <1>6, <2>1, <3>1, <3>2, NextFreshOf
  <2>3. CASE k \notin memOps[m].ident
    <3>1. \A v : Serves(stm, k, v) => Serves(stm', k, v)
      BY <1>5, <2>3, ServesSame
    <3> QED
      BY <1>1, <1>2, <1>4, <1>6, <2>3, <3>1, FreshApart
  <2> QED
    BY <2>2, <2>3
<1>9. ASSUME NEW x \in MemActor \ {m}, NEW l \in memOps[x].ident, memOps'[x].clean
      PROVE  /\ Having(ltm', l) = Having(ltm, l) /\ Having(stm', l) \subseteq stm /\ vec'[l] = vec[l]
             /\ Serves(stm, l, x) => Serves(stm', l, x)
  <2>1. l \notin memOps[m].ident
    BY <1>0, <1>1, <1>9 DEF MemBase, CleanAlone, Others, Weaker
  <2>2. Having(stm', l) = Having(stm, l) /\ Having(stm, l) \subseteq stm
    BY <1>5, <2>1 DEF Having
  <2> QED
    BY <1>2, <1>6, <2>2, ServesSame
<1> HIDE DEF left, new
<1> QED
  BY <1>1, <1>4, <1>8, <1>9, NextFresh

LEMMA FreshUpdate ==
  ASSUME FreshInv, NEW m \in MemActor, UpdateMemory(m)
  PROVE  FreshInv'
<1>0. MemBase
  BY DEF FreshInv
<1>1. /\ Others(m) /\ MemBase' /\ memOps[m].pc = "uset" /\ memOps'[m].pc = "done" /\ memOps'[m].ident = {}
      /\ ~memOps'[m].clean /\ stm' = stm /\ vec' = vec /\ fresh' = fresh
  BY <1>0, UpdateIs DEF Fields, UpdateMemory
<1>2. PICK d \in memOps[m].found :
        /\ d.ident \in memOps[m].ident /\ d.ident \in Identities
        /\ \A x \in MemActor \ {m} : d.ident \in memOps[x].ident => ~memOps'[x].clean
        /\ \/ ltm' = ltm
           \/ \E n \in Doc : /\ ltm' = {e \in ltm : e.no # n.no} \cup {n}
                             /\ n.no = d.no /\ n.ident = d.ident
  BY <1>0, UpdateIs
<1>3. CleanOf(m)' /\ \A l : TakesOldest(m, l)' /\ ~Stores(m, l)'
  BY <1>1 DEF CleanOf, TakesOldest, Stores
<1>4. \A l : l # d.ident => Having(ltm', l) = Having(ltm, l)
  <2>1. d \in Doc /\ Known(d)
    BY <1>0, Progress DEF Known
  <2>2. \A e \in ltm : e \in Doc /\ Known(e)
    BY <1>0 DEF MemBase, MemTyped, Known
  <2>3. \A e \in ltm : e.no = d.no => e.ident = d.ident
    BY <1>0, <2>1, <2>2 DEF MemBase, Numbered
  <2> QED
    BY <1>2, <2>3 DEF Having
<1>5. fresh[d.ident] = NoActor
  BY <1>1, <1>2 DEF FreshInv, FreshOf, WarmupPcs, TrimPcs
<1>6. ASSUME NEW l \in Identities, l = d.ident PROVE FreshOf(l)'
  <2>1. \A x \in MemActor : ~Stores(x, l)'
    BY <1>1, <1>2, <1>3, <1>6 DEF Stores, Others, Weaker
  <2> QED
    BY <1>1, <1>5, <1>6, <2>1, NothingRules
<1>7. ASSUME NEW l \in Identities, l # d.ident PROVE FreshOf(l)'
  BY <1>1, <1>3, <1>4, <1>7, FreshApart
<1>8. ASSUME NEW x \in MemActor \ {m}, NEW l \in memOps[x].ident, memOps'[x].clean
      PROVE  /\ Having(ltm', l) = Having(ltm, l) /\ Having(stm', l) \subseteq stm /\ vec'[l] = vec[l]
             /\ Serves(stm, l, x) => Serves(stm', l, x)
  <2>1. l # d.ident
    BY <1>2, <1>8
  <2> QED
    BY <1>1, <1>4, <2>1 DEF Having
<1>9. \A l \in Identities : FreshOf(l)'
  BY <1>6, <1>7
<1> QED
  BY <1>1, <1>3, <1>8, <1>9, NextFresh

LEMMA FreshPrune ==
  ASSUME FreshInv, Prune
  PROVE  FreshInv'
<1>0. MemBase
  BY DEF FreshInv
<1>1. /\ MemBase' /\ ltm' = {d \in ltm : ~d.ttl}
      /\ \A x \in MemActor : Weaker(memOps'[x], memOps[x])
      /\ \A d \in ltm, x \in MemActor : d.ttl /\ d.ident \in memOps[x].ident => ~memOps'[x].clean
      /\ \A k \in Identities : fresh'[k] = fresh[k] \/ fresh'[k] = NoActor
      /\ \A d \in ltm : d.ttl => fresh'[d.ident] = NoActor
      /\ stm' = stm /\ vec' = vec
  BY <1>0, PruneIs DEF Prune
<1>2. memOps' \in [MemActor -> MemOp]
  BY <1>1 DEF MemBase, MemTyped
<1>3. PICK m \in MemActor : TRUE
  <2>1. PICK d \in ltm : TRUE
    BY DEF Prune
  <2> QED
    BY <1>0, <2>1 DEF MemBase, MemTyped, Doc
<1>4. Others(m)
  BY <1>1, <1>2 DEF Others
<1>5. ASSUME NEW k, \A d \in ltm : d.ident = k => ~d.ttl PROVE Having(ltm', k) = Having(ltm, k)
  BY <1>1, <1>5 DEF Having
<1>6. ASSUME NEW k \in Identities, NEW d \in ltm, d.ttl, d.ident = k PROVE FreshOf(k)'
  <2>1. \A x \in MemActor : ~Stores(x, k)'
    BY <1>1, <1>6 DEF Stores, Weaker
  <2> QED
    BY <1>1, <1>6, <2>1, NothingRules
<1>7. ASSUME NEW k \in Identities, \A d \in ltm : d.ident = k => ~d.ttl PROVE FreshOf(k)'
  <2>1. FreshOf(k) /\ Having(ltm', k) = Having(ltm, k)
    BY <1>5, <1>7 DEF FreshInv
  <2>2. \A x \in MemActor : Stores(x, k)' => Stores(x, k)
    BY <1>1 DEF Stores, Weaker
  <2>3. ASSUME NEW v \in MemActor, Rules(v, k)' PROVE Rules(v, k)
    BY <1>1, <2>2, <2>3, NobodyIsNoActor DEF Rules
  <2>4. \A v \in MemActor : Rules(v, k)' /\ Serves(ltm, k, v) => Serves(ltm', k, v)
    BY <2>1, ServesSame
  <2>5. TakesOldest(m, k)'
    <3> SUFFICES ASSUME memOps'[m].pc = "forget", NEW d \in memOps'[m].left, d \in ltm', d.ident = k,
                        Rules(d.value, k)', NEW e \in ltm', e.ident = k, e.at < d.at
                 PROVE  e \in memOps'[m].left
      BY DEF TakesOldest
    <3>1. d \in ltm /\ e \in ltm /\ Rules(d.value, k)
      BY <1>1, <2>3 DEF Rules
    <3> QED
      BY <1>1, <2>1, <3>1 DEF FreshOf, TakesOldest, Weaker
  <2>6. fresh'[k] # NoActor /\ k \in memOps'[m].ident =>
          /\ memOps'[m].pc \in WarmupPcs \cup TrimPcs /\ ~memOps'[m].clean
          /\ memOps'[m].pc \in WarmupPcs => Serves(memOps'[m].left, k, fresh[k])
    BY <1>1, <2>1 DEF FreshOf, Weaker
  <2>7. Having(ltm', k) \subseteq ltm
    BY <1>1 DEF Having
  <2> QED
    BY <1>0, <1>1, <1>4, <2>1, <2>2, <2>4, <2>5, <2>6, <2>7, NextFreshOf
<1>8. ASSUME NEW x \in MemActor PROVE CleanOf(x)'
  <2>1. ASSUME NEW k \in memOps[x].ident, memOps'[x].clean
        PROVE  /\ Having(ltm', k) = Having(ltm, k) /\ Having(stm', k) \subseteq stm /\ vec'[k] = vec[k]
               /\ Serves(stm, k, x) => Serves(stm', k, x)
    <3>1. \A d \in ltm : d.ident = k => ~d.ttl
      BY <1>1, <2>1
    <3> QED
      BY <1>1, <1>5, <3>1 DEF Having
  <2> QED
    BY <1>0, <1>1, <2>1, NextCleanOf DEF FreshInv
<1>9. \A k \in Identities : FreshOf(k)'
  BY <1>6, <1>7
<1> QED
  BY <1>1, <1>8, <1>9 DEF FreshInv

LEMMA NextFreshMem == FreshInv /\ [MemoryNext]_memVars => FreshInv'
<1> SUFFICES ASSUME FreshInv, [MemoryNext]_memVars PROVE FreshInv'
  OBVIOUS
<1>0. MemBase
  BY DEF FreshInv
<1>1. ASSUME NEW m \in MemActor, NEW k \in Identities, BeginStore(m, k) PROVE FreshInv'
  <2>1. /\ Others(m) /\ MemBase' /\ memOps'[m].ident = {k} /\ memOps'[m].pc = "find"
        /\ \A x \in MemActor \ {m} : k \in memOps[x].ident => ~memOps'[x].clean
        /\ ltm' = ltm /\ stm' = stm /\ vec' = vec /\ fresh' = [fresh EXCEPT ![k] = NoActor]
    BY <1>0, <1>1, BeginStoreIs DEF BeginStore, Fields
  <2> QED
    BY <2>1, FreshBegin
<1>2. ASSUME NEW m \in MemActor, BeginDelete(m) PROVE FreshInv'
  <2>1. Others(m) /\ MemBase' /\ ltm' = ltm /\ stm' = stm /\ vec' = vec
    BY <1>0, <1>2, BeginDeleteIs DEF BeginDelete
  <2>2. PICK d \in ltm :
          /\ memOps'[m].ident = {d.ident} /\ memOps'[m].pc = "drange"
          /\ \A x \in MemActor \ {m} : d.ident \in memOps[x].ident => ~memOps'[x].clean
          /\ fresh' = [fresh EXCEPT ![d.ident] = NoActor]
    BY <1>0, <1>2, BeginDeleteIs DEF Fields
  <2>3. d.ident \in Identities
    BY <1>0 DEF MemBase, MemTyped, Doc
  <2> QED
    BY <2>1, <2>2, <2>3, FreshBegin
<1>3. ASSUME NEW m \in MemActor, NEW a, BeginWarmup(m, a) PROVE FreshInv'
  BY <1>3, FreshWarmup
<1>4. ASSUME NEW m \in MemActor, Find(m) PROVE FreshInv'
  BY <1>4, FreshFind
<1>5. ASSUME NEW m \in MemActor, Write(m) PROVE FreshInv'
  BY <1>5, FreshWrite
<1>6. ASSUME NEW m \in MemActor, CountDocuments(m) PROVE FreshInv'
  BY <1>6, FreshCount
<1>7. ASSUME NEW m \in MemActor, ListOldest(m) PROVE FreshInv'
  BY <1>7, FreshList
<1>8. ASSUME NEW m \in MemActor, Forget(m) PROVE FreshInv'
  BY <1>8, FreshForget
<1>9. ASSUME NEW m \in MemActor, StoreRaises(m) \/ StmFails(m) PROVE FreshInv'
  <2>1. ltm' = ltm /\ stm' = stm /\ vec' = vec /\ fresh' = fresh
    BY <1>9 DEF StoreRaises, StmFails
  <2> QED
    BY <1>0, <1>9, <2>1, ErrorIs, NextFreshEnd
<1>10. ASSUME NEW m \in MemActor, StoreVector(m) PROVE FreshInv'
  BY <1>10, FreshVector
<1>11. ASSUME NEW m \in MemActor, Zrange(m) PROVE FreshInv'
  BY <1>11, FreshZrange
<1>12. ASSUME NEW m \in MemActor, Zrem(m) PROVE FreshInv'
  BY <1>12, FreshZrem
<1>13. ASSUME NEW m \in MemActor, Zadd(m) PROVE FreshInv'
  BY <1>13, FreshZadd
<1>14. ASSUME NEW m \in MemActor, Zcard(m) PROVE FreshInv'
  BY <1>14, FreshZcard
<1>15. ASSUME NEW m \in MemActor, Ztrim(m) PROVE FreshInv'
  BY <1>15, FreshZtrim
<1>16. ASSUME NEW m \in MemActor, DeleteZrange(m) PROVE FreshInv'
  BY <1>16, FreshDeleteZrange
<1>17. ASSUME NEW m \in MemActor, DeleteZrem(m) PROVE FreshInv'
  BY <1>17, FreshDeleteZrem
<1>18. ASSUME NEW m \in MemActor, DeleteDocument(m) PROVE FreshInv'
  BY <1>18, FreshDeleteDocument
<1>19. ASSUME NEW m \in MemActor, WarmupClear(m) PROVE FreshInv'
  BY <1>19, FreshClear
<1>20. ASSUME NEW m \in MemActor, WarmupFill(m) PROVE FreshInv'
  BY <1>20, FreshFill
<1>21. ASSUME NEW m \in MemActor, UpdateMemory(m) PROVE FreshInv'
  BY <1>21, FreshUpdate
<1>24. ASSUME NEW m \in MemActor, BeginUpdate(m) PROVE FreshInv'
  <2>1. Others(m) /\ MemBase' /\ ltm' = ltm /\ stm' = stm /\ vec' = vec
    BY <1>0, <1>24, BeginUpdateIs DEF BeginUpdate
  <2>2. PICK d \in ltm :
          /\ memOps'[m].ident = {d.ident} /\ memOps'[m].pc = "uset"
          /\ \A x \in MemActor \ {m} : d.ident \in memOps[x].ident => ~memOps'[x].clean
          /\ fresh' = [fresh EXCEPT ![d.ident] = NoActor]
    BY <1>0, <1>24, BeginUpdateIs DEF Fields
  <2>3. d.ident \in Identities
    BY <1>0 DEF MemBase, MemTyped, Doc
  <2> QED
    BY <2>1, <2>2, <2>3, FreshBegin
<1>22. ASSUME Prune PROVE FreshInv'
  BY <1>22, FreshPrune
<1>23. ASSUME UNCHANGED memVars PROVE FreshInv'
  <2>1. /\ ltm' = ltm /\ stm' = stm /\ vec' = vec /\ memClock' = memClock /\ memOps' = memOps /\ fresh' = fresh
    BY <1>23 DEF memVars
  <2>2. MemBase'
    BY <1>0, <2>1 DEF MemBase, MemTyped, Stamped, Numbered, Known, Written, CleanAlone
  <2>3. \A k : FreshOf(k) => FreshOf(k)'
    BY <2>1 DEF FreshOf, Rules, Stores, TakesOldest
  <2>4. \A x : CleanOf(x) => CleanOf(x)'
    BY <2>1 DEF CleanOf
  <2> QED
    BY <2>2, <2>3, <2>4 DEF FreshInv
<1> QED
  BY <1>1, <1>2, <1>3, <1>4, <1>5, <1>6, <1>7, <1>8, <1>9, <1>10, <1>11, <1>12, <1>13, <1>14, <1>15,
     <1>16, <1>17, <1>18, <1>19, <1>20, <1>21, <1>22, <1>23, <1>24 DEF MemoryNext

\* What a tier shows of a memory whose value is known.
LEMMA RecalledIsFresh ==
  ASSUME MemBase, NEW k \in Identities, FreshOf(k), fresh[k] # NoActor, NEW w,
         NEW tier \in {"vec", "stm", "ltm"}, NEW e \in Recalled(tier, k.agent, w), e.ident = k,
         tier = "ltm" => \E d \in Having(ltm, k) :
                           /\ Shown(d, k.agent, w)
                           /\ d.value = fresh[k] \/ d \in Newest(Having(ltm, k), 1)
  PROVE  e.value = fresh[k]
<1>1. fresh[k] \in MemActor
  BY DEF MemBase, MemTyped, Values
<1>2. CASE tier = "vec"
  <2>1. e.value = vec[k] /\ vec[k] # NoActor
    BY <1>2 DEF Recalled, Hits
  <2> QED
    BY <2>1 DEF FreshOf
<1>3. CASE tier = "stm"
  <2>1. e \in stm /\ \A f \in stm : f.ident = k => ~(f.at > e.at)
    BY <1>3 DEF Recalled, FirstOfEach, Visible, OfAgent
  <2> QED
    BY <2>1 DEF FreshOf, Serves
<1>4. CASE tier = "ltm"
  <2>1. PICK d \in ltm : e = EntryOf(d)
    BY <1>4 DEF Recalled, FirstOfEach, Visible
  <2>2. d.ident = k /\ e.value = d.value /\ e.at = d.at
    BY <2>1 DEF EntryOf
  <2>3. PICK f \in Having(ltm, k) : Shown(f, k.agent, w) /\ (f.value = fresh[k] \/ f \in Newest(Having(ltm, k), 1))
    BY <1>4
  <2>4. f \in ltm /\ f.ident = k
    BY <2>3 DEF Having
  <2>5. ~(f.at > d.at)
    <3>1. EntryOf(f) \in Visible("ltm", k.agent, w)
      BY <2>3, <2>4 DEF Visible
    <3>2. EntryOf(f).ident = k /\ EntryOf(f).at = f.at
      BY <2>4 DEF EntryOf
    <3> QED
      BY <1>4, <2>2, <3>1, <3>2 DEF Recalled, FirstOfEach
  <2> SUFFICES ASSUME d.value # fresh[k] PROVE FALSE
    BY <2>2
  <2>6. PICK g \in ltm : g.ident = k /\ g.value = fresh[k] /\ g.at > d.at
    BY <1>1, <2>2 DEF FreshOf, Rules, Serves
  <2>7. CASE f.value = fresh[k]
    <3>1. f \in Doc /\ g \in Doc /\ Known(f) /\ Known(g)
      BY <2>4 DEF MemBase, MemTyped, Known
    <3>2. f.no = g.no
      BY <2>6, <2>7, <3>1 DEF MemBase, Numbered
    <3>3. f = g
      BY <2>4, <3>2 DEF MemBase, Numbered
    <3> QED
      BY <2>5, <2>6, <3>3
  <2>8. CASE f \in Newest(Having(ltm, k), 1)
    <3> DEFINE S == Having(ltm, k)
               T == {h \in S : h.at > f.at}
    <3>1. IsFiniteSet(T) /\ Cardinality(T) < 1
      BY <2>8, FS_Subset DEF Newest, Having, MemBase, MemTyped
    <3>2. Cardinality(T) = 0
      BY <3>1, FS_CardinalityType
    <3>3. T = {}
      BY <3>1, <3>2, FS_EmptySet
    <3>4. g \in S /\ ~(g.at > f.at)
      BY <2>6, <3>3 DEF Having
    <3>5. f.at \in Nat /\ d.at \in Nat /\ g.at \in Nat
      BY <2>4 DEF MemBase, MemTyped, Doc
    <3> QED
      BY <2>5, <2>6, <3>4, <3>5
  <2> QED
    BY <2>3, <2>7, <2>8
<1> QED
  BY <1>2, <1>3, <1>4

\* After a store that reached every tier and that nothing on the same memory
\* overlapped, whichever tier answers shows the stored value or does not know the
\* memory: for any number of operations, agents and memories, and any caps.
THEOREM StoredIsServed == MemorySpec => []FreshIsServed
<1>1. MemoryInit => FreshInv
  <2> SUFFICES ASSUME MemoryInit PROVE FreshInv
    OBVIOUS
  <2>1. /\ MemBase /\ \A k \in Identities : fresh[k] = NoActor
        /\ \A m \in MemActor : memOps[m].pc = "idle" /\ ~memOps[m].clean
    BY InitMemBase, IdleFields DEF MemoryInit, Fields
  <2> QED
    BY <2>1, NobodyIsNoActor DEF FreshInv, FreshOf, CleanOf, Rules, Stores, TakesOldest
<1>2. FreshInv => FreshIsServed
  BY RecalledIsFresh DEF FreshInv, FreshIsServed
<1> QED
  BY <1>1, <1>2, NextFreshMem, PTL DEF MemorySpec

-----------------------------------------------------------------------------
(* Memory: the types *)

Histories ==
  gone \subseteq Identities /\ raced \subseteq Identities /\ spilled \subseteq MemAgents \X {"ltm", "stm"}

LEMMA AgentIsKnown ==
  ASSUME MemBase, NEW m \in MemActor, memOps[m].pc \notin {"idle", "done"}
  PROVE  AgentOf(m) \in MemAgents
<1>1. PICK k : k \in memOps[m].ident
  BY Progress DEF OpShaped, AtRest
<1>2. k \in Identities
  BY <1>1 DEF MemBase, MemTyped, MemOp
<1> QED
  BY <1>1, <1>2, AgentIs DEF MemAgents

LEMMA NextHistories == MemBase /\ Histories /\ [MemoryNext]_memVars => Histories'
<1> SUFFICES ASSUME MemBase, Histories, [MemoryNext]_memVars PROVE Histories' OBVIOUS
<1>1. CASE UNCHANGED <<gone, raced>> /\ spilled' \subseteq spilled
  BY <1>1 DEF Histories
<1>2. ASSUME NEW m \in MemActor, NEW k \in Identities, BeginStore(m, k) PROVE Histories'
  BY <1>2 DEF BeginStore, Histories
<1>3. ASSUME NEW m \in MemActor, StoreRaises(m) \/ StmFails(m) PROVE Histories'
  <2>1. memOps[m].pc \notin {"idle", "done"}
    BY <1>3 DEF StoreRaises, StmFails, WarmupPcs, TrimPcs
  <2>2. AgentOf(m) \in MemAgents
    BY <2>1, AgentIsKnown
  <2>3. gone' = gone /\ raced' = raced /\ spilled' \subseteq spilled \cup ({AgentOf(m)} \X {"ltm", "stm"})
    BY <1>3 DEF StoreRaises, StmFails
  <2> QED
    BY <2>2, <2>3 DEF Histories
<1>4. ASSUME NEW m \in MemActor, DeleteDocument(m) PROVE Histories'
  <2>1. PICK d \in memOps[m].found : gone' \subseteq gone \cup {d.ident}
    BY <1>4 DEF DeleteDocument
  <2>2. d.ident \in Identities
    BY <2>1 DEF MemBase, MemTyped, MemOp, Doc
  <2> QED
    BY <1>4, <2>1, <2>2 DEF Histories, DeleteDocument
<1>5. ASSUME NEW m \in MemActor,
             \/ BeginDelete(m) \/ (\E k \in Identities : BeginWarmup(m, k.agent)) \/ Find(m) \/ Write(m)
             \/ CountDocuments(m) \/ ListOldest(m) \/ Forget(m) \/ StoreVector(m)
      PROVE  Histories'
  BY <1>1, <1>5
    DEF BeginDelete, BeginWarmup, Find, Write, CountDocuments, ListOldest, Forget, StoreVector
<1>6. ASSUME NEW m \in MemActor,
             \/ Zrange(m) \/ Zrem(m) \/ Zadd(m) \/ Zcard(m) \/ Ztrim(m)
             \/ DeleteZrange(m) \/ DeleteZrem(m) \/ WarmupClear(m) \/ WarmupFill(m) \/ BeginUpdate(m)
      PROVE  Histories'
  BY <1>1, <1>6
    DEF Zrange, Zrem, Zadd, Zcard, Ztrim, DeleteZrange, DeleteZrem, WarmupClear, WarmupFill, BeginUpdate
<1>8. ASSUME NEW m \in MemActor, UpdateMemory(m) PROVE Histories'
  <2>1. PICK d \in memOps[m].found :
          /\ d.ident \in Identities
          /\ raced' = raced \/ raced' = raced \cup {d.ident}
          /\ spilled' = spilled \/ spilled' = spilled \cup {<<d.ident.agent, "ltm">>}
    BY <1>8, UpdateIs
  <2>2. d.ident.agent \in MemAgents
    BY <2>1 DEF MemAgents
  <2>3. gone' = gone
    BY <1>8 DEF UpdateMemory
  <2>4. raced' \subseteq Identities
    BY <2>1 DEF Histories
  <2>5. spilled' \subseteq MemAgents \X {"ltm", "stm"}
    <3>1. spilled' = spilled \/ spilled' = spilled \cup {<<d.ident.agent, "ltm">>}
      BY <2>1
    <3>2. <<d.ident.agent, "ltm">> \in MemAgents \X {"ltm", "stm"}
      BY <2>2
    <3> QED
      BY <3>1, <3>2 DEF Histories
  <2> QED
    BY <2>3, <2>4, <2>5 DEF Histories
<1>7. CASE Prune \/ UNCHANGED memVars
  BY <1>1, <1>7 DEF Prune, memVars
<1> QED
  BY <1>2, <1>3, <1>4, <1>5, <1>6, <1>7, <1>8 DEF MemoryNext

LEMMA MemoriesTyped == MemBase /\ Histories => MemoryTypeOK
<1> SUFFICES ASSUME MemBase, Histories PROVE MemoryTypeOK OBVIOUS
<1>1. ASSUME NEW m \in MemActor
      PROVE  /\ memOps[m].pc \in {"idle", "done"} \cup StorePcs \cup DeletePcs \cup UpdatePcs
                                \cup WarmupPcs \cup TrimPcs
             /\ memOps[m].ident \subseteq Identities
             /\ memOps[m].found \subseteq Doc /\ Cardinality(memOps[m].found) <= 1
             /\ memOps[m].left \subseteq Doc
             /\ memOps[m].raw \subseteq Entry
             /\ memOps[m].excess \in Nat
  <2>1. memOps[m] \in MemOp /\ \A d, e \in memOps[m].found : d = e
    BY DEF MemBase, MemTyped, OpShaped
  <2>2. Cardinality(memOps[m].found) <= 1
    <3>1. CASE memOps[m].found = {}
      BY <3>1, FS_EmptySet
    <3>2. CASE memOps[m].found # {}
      <4>1. PICK d : memOps[m].found = {d}
        BY <2>1, <3>2
      <4> QED
        BY <4>1, FS_Singleton
    <3> QED
      BY <3>1, <3>2
  <2> QED
    BY <2>1, <2>2 DEF MemOp, MemPcs, AtRest
<1> QED
  BY <1>1 DEF MemoryTypeOK, MemBase, MemTyped, Histories
=============================================================================
