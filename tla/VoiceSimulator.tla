--------------------------- MODULE VoiceSimulator ---------------------------
(***************************************************************************)
(* The voice simulator: a turn of a conversation asks a brain (a language  *)
(* model, or the rules that stand in for it) which tools to call, calls    *)
(* them at the shop's assistant and speaks the answer.  The model may      *)
(* propose anything; the host decides what runs.  Turns of one             *)
(* conversation may overlap, and share its history and its pending draft.  *)
(*                                                                         *)
(* What is said is abstracted to the words the rules look for, an answer   *)
(* to what the tools said, a cost to one unit per answer of the model.     *)
(***************************************************************************)
EXTENDS Integers, Sequences, FiniteSets, SequencesExt

CONSTANTS
    Scripts,       \* what is said, and how a model may answer, see ScriptOf
    Suppliers,     \* those a plan names, in its order
    MaxRounds,     \* MAX_TOOL_ROUNDS
    HistoryLimit,  \* HISTORY_LIMIT, in messages
    MaxKept,       \* conversations kept
    Tokens,        \* requests a minute
    TurnCap,       \* turns of the model a day
    Budget,        \* what they may cost a day
    MaxFaults      \* bound: calls that fail, answers that are lost, expiries, resets

(* reorder says that an order is named, intent what the other rules find.  *)
CallOf == [tool : {"create", "confirm", "suggest", "other"}, supplier : STRING]
UtteranceOf == [yes : BOOLEAN, no : BOOLEAN, question : BOOLEAN, short : BOOLEAN, reorder : BOOLEAN, intent : Seq(CallOf)]

(* The words of each request to /api/turn; whether a model is configured,  *)
(* and the calls it may propose, <<>> for text only.                       *)
ScriptOf == [words : Seq(UtteranceOf), model : BOOLEAN, proposals : SUBSET Seq(CallOf)]

VARIABLES
    script,
    turn,   \* turn -> how far it is
    talk,   \* conversations, the newest last: their history and pending draft
    kept,   \* those the server can find, by when they were last seen
    idle,   \* those not seen for half an hour
    drafts, \* at the shop: supplier, conversation, status, who confirmed it
    spend,  \* turns of the model and their cost today, requests left this minute
    mishaps

simVars == <<script, turn, talk, kept, idle, drafts, spend, mishaps>>

None == 0
Turns == DOMAIN script.words
UsesModel == script.model
Call(tool, supplier) == [tool |-> tool, supplier |-> supplier]
Event(tool, status, of) == [tool |-> tool, status |-> status, suppliers |-> of]

(* before stands for nothing in the code: the drafts there were when the   *)
(* turn began, for the property below.                                     *)
Waiting == [stage |-> "new", talk |-> None, held |-> None, before |-> 0, brain |-> "none",
            round |-> 0, calls |-> <<>>, results |-> <<>>, returned |-> None, confirmed |-> FALSE, cost |-> 0]

SimInit ==
    /\ script \in Scripts
    /\ turn = [t \in DOMAIN script.words |-> Waiting]
    /\ talk = <<>> /\ kept = <<>> /\ idle = {} /\ drafts = <<>>
    /\ spend = [turns |-> 0, cost |-> 0, tokens |-> Tokens]
    /\ mishaps = 0

Mishap == mishaps < MaxFaults /\ mishaps' = mishaps + 1

-----------------------------------------------------------------------------
(* What the rules hear in the words, and plan to call.                     *)
IsAffirmative(u) == u.yes /\ ~u.question /\ ~u.no
IsNegative(u) == u.no /\ ~u.yes

PlanToolCalls(u) ==
    IF ~u.reorder /\ IsAffirmative(u) /\ u.short THEN <<Call("confirm", "")>> ELSE u.intent

Said(u) == [kind |-> "words", words |-> u, events |-> <<>>]
Did(events) == [kind |-> "results", words |-> None, events |-> events]
Assistant == [kind |-> "assistant", words |-> None, events |-> <<>>]

Heard(history) == SelectSeq(history, LAMBDA m : m.kind = "words")
ToolHistory(history) == FlattenSeq([i \in DOMAIN history |-> history[i].events])

(* The suppliers of the latest plan for which nothing was drafted since.   *)
RemainingPlan(events) ==
    LET plans == {i \in DOMAIN events : events[i].tool = "suggest" /\ events[i].status = "ok"}
        latest == CHOOSE i \in plans : \A j \in plans : j <= i
        drafted == UNION {events[i].suppliers : i \in {j \in DOMAIN events : j > latest /\ events[j].status = "draft_created"}}
    IN IF plans = {} THEN <<>> ELSE SelectSeq(Suppliers, LAMBDA s : s \notin drafted)

Silence == [yes |-> FALSE, no |-> FALSE, question |-> FALSE, short |-> TRUE, reorder |-> FALSE, intent |-> <<>>]

(* RulesBrain: it speaks what the tools said last, takes a yes after a     *)
(* plan or an order for the next supplier of the plan, and otherwise calls *)
(* what the words ask for.                                                 *)
RulesCalls(history) ==
    LET u == IF Heard(history) = <<>> THEN Silence ELSE Last(Heard(history)).words
        events == ToolHistory(history)
        remaining == RemainingPlan(events)
        planned == PlanToolCalls(u)
        confirms == IsAffirmative(u) /\ planned # <<>> /\ planned[1].tool = "confirm"
    IN CASE Last(history).kind = "results" -> <<>>
         [] Last(history).kind # "results" /\ confirms ->
              IF events # <<>> /\ Last(events).tool \in {"suggest", "confirm"} /\ remaining # <<>>
              THEN <<Call("create", remaining[1])>> ELSE planned
         [] Last(history).kind # "results" /\ ~confirms /\ IsNegative(u) -> <<>>
         [] OTHER -> planned

-----------------------------------------------------------------------------
(* conversationFor: who has been away for half an hour is forgotten, then  *)
(* the one seen longest ago when there are too many.                       *)
Awake == SelectSeq(kept, LAMBDA c : c \notin idle)
Room == IF Len(Awake) >= MaxKept THEN Tail(Awake) ELSE Awake
NewTalk == [history |-> <<>>, pending |-> None]

(* handleTurn: the limiters, then the conversation, then whether the model *)
(* may be used; runTurn notes the draft that is pending.                   *)
Limited(t) ==
    /\ turn[t].stage = "new" /\ spend.tokens = 0
    /\ turn' = [turn EXCEPT ![t].stage = "refused"]
    /\ UNCHANGED <<script, talk, kept, idle, drafts, spend, mishaps>>

MayStart == spend.turns < TurnCap /\ spend.cost < Budget

Begin(t, c) ==
    /\ turn[t].stage = "new" /\ spend.tokens > 0
    /\ LET known == c # None /\ c \in ToSet(Awake)
           id == IF known THEN c ELSE Len(talk) + 1
       IN /\ talk' = IF known THEN talk ELSE Append(talk, NewTalk)
          /\ kept' = IF known THEN Awake ELSE Append(Room, id)
          /\ turn' = [turn EXCEPT ![t] = [Waiting EXCEPT
                 !.stage = "begun", !.talk = id, !.before = Len(drafts),
                 !.held = IF known THEN talk[c].pending ELSE None,
                 !.brain = IF UsesModel /\ MayStart THEN "model" ELSE "rules"]]
    /\ idle' = {}
    /\ spend' = [spend EXCEPT !.tokens = @ - 1, !.turns = @ + (IF UsesModel /\ MayStart THEN 1 ELSE 0)]
    /\ UNCHANGED <<script, drafts, mishaps>>

ListTools(t) ==
    /\ turn[t].stage = "begun"
    /\ turn' = [turn EXCEPT ![t].stage = "asking"]
    /\ talk' = [talk EXCEPT ![turn[t].talk].history = Append(@, Said(script.words[t]))]
    /\ UNCHANGED <<script, kept, idle, drafts, spend, mishaps>>

(* The history is cut where someone spoke, so that calls keep their        *)
(* results.                                                                *)
TrimHistory(history) ==
    LET from == {i \in DOMAIN history : i > Len(history) - HistoryLimit /\ history[i].kind = "words"}
    IN IF Len(history) <= HistoryLimit THEN history
       ELSE IF from = {} THEN SubSeq(history, Len(history) - 1, Len(history))
       ELSE SubSeq(history, CHOOSE i \in from : \A j \in from : i <= j, Len(history))

LastSeen(c) == IF c \in ToSet(kept) THEN Append(SelectSeq(kept, LAMBDA k : k # c), c) ELSE kept

(* The turn is over: history cut, conversation seen, cost recorded.        *)
Speak(t, history, pending, cost) ==
    /\ talk' = [talk EXCEPT ![turn[t].talk] = [history |-> TrimHistory(history), pending |-> pending]]
    /\ kept' = LastSeen(turn[t].talk)
    /\ idle' = idle \ {turn[t].talk}
    /\ spend' = [spend EXCEPT !.cost = @ + cost]

(* An answer of a brain: the calls to make, or what to say.                *)
Answered(t, brain, calls) ==
    LET c == turn[t].talk
        history == Append(talk[c].history, Assistant)
        cost == turn[t].cost + (IF brain = "model" THEN 1 ELSE 0)
    IN IF calls = <<>>
       THEN /\ Speak(t, history, talk[c].pending, cost)
            /\ turn' = [turn EXCEPT ![t].stage = "spoken", ![t].brain = brain]
       ELSE /\ turn' = [turn EXCEPT ![t].stage = "calling", ![t].brain = brain, ![t].calls = calls,
                                    ![t].round = @ + 1, ![t].cost = cost]
            /\ talk' = [talk EXCEPT ![c].history = history]
            /\ UNCHANGED <<kept, idle, spend>>

Converse(t, calls) ==
    /\ turn[t].stage = "asking" /\ turn[t].brain = "model"
    /\ Answered(t, "model", calls)
    /\ UNCHANGED <<script, drafts, mishaps>>

ConverseByRules(t) ==
    /\ turn[t].stage = "asking" /\ turn[t].brain = "rules"
    /\ Answered(t, "rules", RulesCalls(talk[turn[t].talk].history))
    /\ UNCHANGED <<script, drafts, mishaps>>

(* An error, a refusal, an empty answer or the deadline: the rules answer  *)
(* the rest of the turn.                                                   *)
FallBack(t) ==
    /\ turn[t].stage = "asking" /\ turn[t].brain = "model"
    /\ Mishap
    /\ Answered(t, "rules", RulesCalls(talk[turn[t].talk].history))
    /\ UNCHANGED <<script, drafts>>

-----------------------------------------------------------------------------
(* Mutant of Held: the draft that is pending now.                          *)
HeldNow(t) == talk[turn[t].talk].pending

Held(t) == turn[t].held

Blocked(t) ==
    /\ turn[t].calls[1].tool = "confirm"
    /\ ~IsAffirmative(script.words[t]) \/ Held(t) = None \/ turn[t].confirmed

(* The result of a call goes into the round; after the last call of the    *)
(* round the brain is asked again, or the last tool's words are spoken.    *)
AddResult(t, event, pending, confirmed) ==
    LET c == turn[t].talk
        results == Append(turn[t].results, event)
        history == Append(talk[c].history, Did(results))
        left == [turn[t] EXCEPT !.calls = Tail(@), !.returned = None, !.confirmed = confirmed, !.results = <<>>]
    IN CASE Len(turn[t].calls) > 1 ->
              /\ turn' = [turn EXCEPT ![t] = [left EXCEPT !.stage = "calling", !.results = results]]
              /\ talk' = [talk EXCEPT ![c].pending = pending]
              /\ UNCHANGED <<kept, idle, spend>>
         [] Len(turn[t].calls) = 1 /\ turn[t].round < MaxRounds ->
              /\ turn' = [turn EXCEPT ![t] = [left EXCEPT !.stage = "asking"]]
              /\ talk' = [talk EXCEPT ![c] = [history |-> history, pending |-> pending]]
              /\ UNCHANGED <<kept, idle, spend>>
         [] OTHER ->
              /\ turn' = [turn EXCEPT ![t] = [left EXCEPT !.stage = "spoken"]]
              /\ Speak(t, history, pending, turn[t].cost)

Block(t) ==
    /\ turn[t].stage = "calling" /\ Blocked(t)
    /\ AddResult(t, Event("confirm", "error", {}), talk[turn[t].talk].pending, turn[t].confirmed)
    /\ UNCHANGED <<script, drafts, mishaps>>

NewDraft(t) == [supplier |-> turn[t].calls[1].supplier, talk |-> turn[t].talk, status |-> "draft", by |-> None]

(* What a call does at the shop, once.                                     *)
Effect(t, rows) ==
    CASE turn[t].calls[1].tool = "create" -> Append(rows, NewDraft(t))
      [] turn[t].calls[1].tool = "confirm" /\ rows[Held(t)].status = "draft" ->
           [rows EXCEPT ![Held(t)].status = "confirmed", ![Held(t)].by = t]
      [] OTHER -> rows

(* The draft a call made, or was about.                                    *)
Answer(t, rows) == IF turn[t].calls[1].tool = "create" THEN Len(rows) ELSE Held(t)

CallTool(t) ==
    /\ turn[t].stage = "calling" /\ ~Blocked(t)
    /\ drafts' = Effect(t, drafts)
    /\ turn' = [turn EXCEPT ![t].stage = "called", ![t].returned = Answer(t, drafts')]
    /\ UNCHANGED <<script, talk, kept, idle, spend, mishaps>>

(* withReconnect: when the answer is lost the call is made again.          *)
CallAgain(t) ==
    /\ turn[t].stage = "calling" /\ ~Blocked(t)
    /\ Mishap
    /\ drafts' = Effect(t, Effect(t, drafts))
    /\ turn' = [turn EXCEPT ![t].stage = "called", ![t].returned = Answer(t, drafts')]
    /\ UNCHANGED <<script, talk, kept, idle, spend>>

(* Both fail, or the first does and the second's answer is lost: the turn  *)
(* ends with 502, and leaves its words and what it has done.               *)
TurnFails(t) ==
    /\ turn[t].stage \in {"begun", "calling"}
    /\ turn[t].stage = "calling" => ~Blocked(t)
    /\ Mishap
    /\ drafts' \in {drafts} \union (IF turn[t].stage = "calling" THEN {Effect(t, drafts)} ELSE {})
    /\ turn' = [turn EXCEPT ![t].stage = "failed"]
    /\ UNCHANGED <<script, talk, kept, idle, spend>>

(* The host's part: a new draft is pending, one that was confirmed (or     *)
(* gone) is not, unless another has taken its place.                       *)
Returned(t) ==
    /\ turn[t].stage = "called"
    /\ LET tool == turn[t].calls[1].tool
           draft == turn[t].returned
           pending == talk[turn[t].talk].pending
       IN CASE tool = "create" ->
                 AddResult(t, Event("create", "draft_created", {drafts[draft].supplier}), draft, turn[t].confirmed)
            [] tool = "confirm" ->
                 AddResult(t, Event("confirm", drafts[draft].status, {}),
                   IF drafts[draft].status # "expired" /\ pending = turn[t].held THEN None ELSE pending, TRUE)
            [] OTHER ->
                 AddResult(t, Event(tool, "ok", {}), pending, turn[t].confirmed)
    /\ UNCHANGED <<script, drafts, mishaps>>

-----------------------------------------------------------------------------
DraftExpires(d) ==
    /\ Mishap /\ drafts[d].status = "draft"
    /\ drafts' = [drafts EXCEPT ![d].status = "expired"]
    /\ UNCHANGED <<script, turn, talk, kept, idle, spend>>

(* A visitor goes away, or starts again.                                   *)
Idles ==
    /\ Mishap /\ ToSet(kept) # idle
    /\ idle' = ToSet(kept)
    /\ UNCHANGED <<script, turn, talk, kept, drafts, spend>>

Reset(c) ==
    /\ Mishap /\ c \in ToSet(kept)
    /\ kept' = SelectSeq(kept, LAMBDA k : k # c)
    /\ UNCHANGED <<script, turn, talk, idle, drafts, spend>>

(* A minute passes, and maybe midnight.                                    *)
Tick ==
    /\ Mishap /\ spend.tokens < Tokens
    /\ spend' \in {[spend EXCEPT !.tokens = Tokens], [turns |-> 0, cost |-> 0, tokens |-> Tokens]}
    /\ UNCHANGED <<script, turn, talk, kept, idle, drafts>>

Turn(t) ==
    \/ Limited(t)
    \/ \E c \in 0..Len(talk) : Begin(t, c)
    \/ ListTools(t)
    \/ \E calls \in script.proposals : Converse(t, calls)
    \/ ConverseByRules(t) \/ FallBack(t) \/ Block(t)
    \/ CallTool(t) \/ CallAgain(t) \/ TurnFails(t) \/ Returned(t)

SimNext ==
    \/ \E t \in Turns : Turn(t)
    \/ \E d \in DOMAIN drafts : DraftExpires(d)
    \/ \E c \in DOMAIN talk : Reset(c)
    \/ Idles \/ Tick

-----------------------------------------------------------------------------
(* Whatever a model proposes, and however turns overlap, fail and are      *)
(* retried, an order is only placed by a turn whose words were a yes, for  *)
(* a draft of the same conversation that was there before the turn began,  *)
(* and one yes places at most one order.                                   *)
OneYesOneOrder ==
    /\ \A d \in DOMAIN drafts : drafts[d].by # None =>
         LET t == drafts[d].by IN
         IsAffirmative(script.words[t]) /\ drafts[d].talk = turn[t].talk /\ d <= turn[t].before
    /\ \A d, e \in DOMAIN drafts : (drafts[d].by = drafts[e].by /\ drafts[d].by # None) => d = e
=============================================================================
