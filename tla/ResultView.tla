----------------------------- MODULE ResultView -----------------------------
(***************************************************************************)
(* An opened study pack (app.js): its tabs, quiz and mock exam, and flash  *)
(* cards. A new result, a change of language and a started exam all render *)
(* the same panels again while the reader is answering.                    *)
(***************************************************************************)
EXTENDS Integers, Sequences, FiniteSets, SequencesExt, FiniteSetsExt

CONSTANTS
  Results,  \* [quiz: Seq of [id, options, answer_index], cards: Nat,
            \*  panes: SUBSET Panes]
  Nothing

\* The tabs from left to right.
PaneOrder == [summary |-> 1, notes |-> 2, transcript |-> 3, slides |-> 4, quiz |-> 5,
              exam |-> 6, cards |-> 7, ask |-> 8, files |-> 9]
Panes == DOMAIN PaneOrder

VARIABLES
  result,    \* latestResult
  items,     \* activeQuizItems
  answers,   \* quizAnswers: partial function from question to option, from 0
  score, answered,
  pane,      \* the active tab
  card, revealed

vars == <<result, items, answers, score, answered, pane, card, revealed>>

Init ==
  /\ result = Nothing /\ items = <<>> /\ answers = <<>>
  /\ score = 0 /\ answered = 0 /\ pane = Nothing
  /\ card = 0 /\ revealed = FALSE

-----------------------------------------------------------------------------
(* Tabs *)

Leftmost(tabs)  == CHOOSE p \in tabs : \A q \in tabs : PaneOrder[p] <= PaneOrder[q]
Rightmost(tabs) == CHOOSE p \in tabs : \A q \in tabs : PaneOrder[p] >= PaneOrder[q]

\* The tabs that are not hidden.
Available == IF result = Nothing THEN {} ELSE result.panes

\* activateResultPane: the named tab, the first available one, or none.
Activated(available, wanted, now) ==
  IF available = {} THEN now
  ELSE IF wanted \in available THEN wanted ELSE Leftmost(available)

OpenTab(p) ==
  /\ p \in Available
  /\ pane' = Activated(Available, p, pane)
  /\ UNCHANGED <<result, items, answers, score, answered, card, revealed>>

\* Arrow keys go round the available tabs; Home and End.
KeyTab(key) ==
  LET after == {p \in Available : PaneOrder[p] > PaneOrder[pane]}
      before == {p \in Available : PaneOrder[p] < PaneOrder[pane]}
      next == CASE key = "right" -> Leftmost(IF after # {} THEN after ELSE Available)
                [] key = "left" -> Rightmost(IF before # {} THEN before ELSE Available)
                [] key = "home" -> Leftmost(Available)
                [] key = "end" -> Rightmost(Available)
  IN /\ pane \in Available
     /\ pane' = Activated(Available, next, pane)
     /\ UNCHANGED <<result, items, answers, score, answered, card, revealed>>

-----------------------------------------------------------------------------
(* Quiz and exam *)

Right(qs, as) == {i \in DOMAIN as : i \in DOMAIN qs /\ as[i] = qs[i].answer_index}

\* renderQuiz: counts are taken anew from the answers at every rendering.
RenderQuiz(qs, as) ==
  /\ items' = qs /\ answers' = as
  /\ answered' = Cardinality(DOMAIN as \cap DOMAIN qs)
  /\ score' = Cardinality(Right(qs, as))

RenderCards(r, i) == IF r.cards = 0 THEN i ELSE Max({0, Min({i, r.cards - 1})})

\* renderResult: a new quiz, the first visible tab; the card index is clamped.
RenderResult(r) ==
  /\ result' = r
  /\ RenderQuiz(r.quiz, <<>>)
  /\ pane' = Activated(r.panes, Nothing, pane)
  /\ card' = RenderCards(r, card)
  /\ revealed' = revealed

Answerable(q, o) ==
  /\ o \in 0 .. Len(items[q].options) - 1
  /\ items[q].answer_index \in 0 .. Len(items[q].options) - 1

\* A click on an option: the first answer to a question counts.
Answer(q, o) ==
  /\ q \in DOMAIN items /\ q \notin DOMAIN answers /\ Answerable(q, o)
  /\ RenderQuiz(items, [i \in DOMAIN answers \cup {q} |-> IF i = q THEN o ELSE answers[i]])
  /\ UNCHANGED <<result, pane, card, revealed>>

\* applyLanguage: everything is drawn again, nothing is forgotten.
ChangeLanguage ==
  /\ result # Nothing
  /\ RenderQuiz(items, answers)
  /\ UNCHANGED <<result, pane, card, revealed>>

Orders(n) == {f \in [1 .. n -> 1 .. n] : IsInjective(f)}

\* Mutant: the correct option's place is not moved with it.
ShuffledBlind(item, order) ==
  [item EXCEPT !.options = [i \in DOMAIN order |-> item.options[order[i]]]]

\* One question of shuffledExamQuestions: the options in a new order, and the
\* place where the correct one went (-1 when there is none).
Shuffled(item, order) ==
  [item EXCEPT !.options = [i \in DOMAIN order |-> item.options[order[i]]],
               !.answer_index = IF \E i \in DOMAIN order : order[i] = item.answer_index + 1
                                THEN (CHOOSE i \in DOMAIN order : order[i] = item.answer_index + 1) - 1
                                ELSE -1]

\* The exam asks the result's questions in any order, options in any order.
StartExam ==
  /\ result # Nothing /\ result.quiz # <<>>
  /\ \E qs \in Orders(Len(result.quiz)) :
       \E os \in [DOMAIN result.quiz -> UNION {Orders(Len(result.quiz[i].options)) : i \in DOMAIN result.quiz}] :
         /\ \A i \in DOMAIN result.quiz : os[i] \in Orders(Len(result.quiz[i].options))
         /\ RenderQuiz([i \in DOMAIN qs |-> Shuffled(result.quiz[qs[i]], os[qs[i]])], <<>>)
  /\ pane' = Activated(Available, "quiz", pane)
  /\ UNCHANGED <<result, card, revealed>>

-----------------------------------------------------------------------------
(* Flash cards *)

HasCards == result # Nothing /\ result.cards > 0

Turn == /\ HasCards /\ revealed' = ~revealed
        /\ UNCHANGED <<result, items, answers, score, answered, pane, card>>

StepCard(d) ==
  /\ HasCards
  /\ card' = RenderCards(result, (card + d + result.cards) % result.cards)
  /\ revealed' = FALSE
  /\ UNCHANGED <<result, items, answers, score, answered, pane>>

RepeatCard == /\ HasCards /\ revealed' = FALSE
              /\ UNCHANGED <<result, items, answers, score, answered, pane, card>>

Next ==
  \/ \E r \in Results : RenderResult(r)
  \/ \E p \in Panes : OpenTab(p)
  \/ \E k \in {"left", "right", "home", "end"} : KeyTab(k)
  \/ \E q \in DOMAIN items : \E o \in 0 .. Len(items[q].options) - 1 : Answer(q, o)
  \/ ChangeLanguage \/ StartExam
  \/ Turn \/ RepeatCard \/ \E d \in {-1, 1} : StepCard(d)

Spec == Init /\ [][Next]_vars

-----------------------------------------------------------------------------
\* The shape of the opened pack.
TypeOK ==
  /\ result \in Results \cup {Nothing} /\ items \in Seq([id: Int, options: Seq(Int), answer_index: Int])
  /\ DOMAIN answers \subseteq DOMAIN items
  /\ score \in Nat /\ answered \in Nat /\ pane \in Panes \cup {Nothing}
  /\ card \in Nat /\ revealed \in BOOLEAN

\* The question of the result with this id.
Original(id) == CHOOSE q \in ToSet(result.quiz) : q.id = id

\* The score is what a teacher would count on the lesson's own quiz: the
\* questions whose chosen text is the correct text there, in whatever order the
\* exam shows questions and options and however often the page is drawn again;
\* a card is shown that exists and the open tab is one of the result's tabs.
ScoreIsTrue ==
  result # Nothing =>
    /\ answered = Cardinality(DOMAIN answers)
    /\ score = Cardinality({i \in DOMAIN answers :
                 LET q == Original(items[i].id)
                 IN items[i].options[answers[i] + 1] = q.options[q.answer_index + 1]})
    /\ result.panes # {} => pane \in result.panes
    /\ result.cards > 0 => card < result.cards
=============================================================================
