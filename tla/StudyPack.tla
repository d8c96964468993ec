----------------------------- MODULE StudyPack -----------------------------
(***************************************************************************)
(* The settings form of a study pack (app.js): what is included, how many  *)
(* quiz questions and cards, which preset. The account's entitlements may  *)
(* arrive, or change, after the settings are already in use; whatever is   *)
(* submitted has to stay within the plan, because the server rejects what  *)
(* exceeds it instead of lowering it.                                      *)
(***************************************************************************)
EXTENDS Integers, FiniteSets, FiniteSetsExt

CONSTANTS
  Plans,    \* entitlements: [quiz, cards: largest count, precise: BOOLEAN]
  FreePlan  \* what a visitor without a loaded account may use

VARIABLES
  on,       \* ticked boxes
  count,    \* the selected counts of quiz and cards
  formats,  \* ticked output formats
  chosen,   \* chosenPackPreset
  limit,    \* limits the count menus were last synchronised with
  plan,     \* billingAccount's entitlements
  same,     \* source and output language are the same
  kept      \* history: the chosen preset has not been edited or cut since

vars == <<on, count, formats, chosen, limit, plan, same, kept>>

Counted == {"quiz", "cards"}
Presented == {"summary", "transcript", "slides", "quiz", "cards", "timestamps", "speakers"}
Boxes == Presented \cup {"translate"}
Options == [quiz |-> {5, 10, 20, 30}, cards |-> {10, 20, 40, 60}]

PACK_PRESETS ==
  [fast |-> [on |-> {"summary", "transcript"}, formats |-> {"pdf"},
             count |-> [quiz |-> 5, cards |-> 10]],
   balanced |-> [on |-> {"summary", "transcript", "slides", "quiz", "cards"},
                 formats |-> {"pdf"}, count |-> [quiz |-> 10, cards |-> 20]],
   exam |-> [on |-> {"summary", "transcript", "slides", "quiz", "cards"},
             formats |-> {"pdf"}, count |-> [quiz |-> 20, cards |-> 40]],
   transcript |-> [on |-> {"transcript"}, formats |-> {},
                   count |-> [quiz |-> 5, cards |-> 10]]]

Presets == DOMAIN PACK_PRESETS
PresetOrder == [fast |-> 1, balanced |-> 2, exam |-> 3, transcript |-> 4]

-----------------------------------------------------------------------------
\* The largest option within the limit and the wish; the first when there is none.
AllowedCount(id, lim, wanted) ==
  LET fit == {v \in Options[id] : v <= lim[id] /\ v <= wanted}
  IN IF fit = {} THEN Min(Options[id]) ELSE Max(fit)

AllowedCounts(lim, wanted) == [id \in Counted |-> AllowedCount(id, lim, wanted[id])]

\* A form: the values of on, count, formats, chosen and limit together.
Form == [on |-> on, count |-> count, formats |-> formats, chosen |-> chosen, limit |-> limit]

\* The preset the form shows, read under the limits of its last synchronisation.
ActivePreset(f) ==
  LET matches == {n \in Presets : /\ f.on \cap Presented = PACK_PRESETS[n].on
                                  /\ f.count = AllowedCounts(f.limit, PACK_PRESETS[n].count)
                                  /\ f.formats = PACK_PRESETS[n].formats}
  IN IF f.chosen \in matches THEN f.chosen
     ELSE IF matches = {} THEN ""
     ELSE CHOOSE n \in matches : \A m \in matches : PresetOrder[n] <= PresetOrder[m]

\* Mutant: new limits leave the chosen counts as they are.
KeepCounts(f, pl) == [f EXCEPT !.limit = [quiz |-> pl.quiz, cards |-> pl.cards]]

SyncCountLimits(f, pl) ==
  LET preset == ActivePreset(f)
      lim == [quiz |-> pl.quiz, cards |-> pl.cards]
      wanted == IF preset # "" THEN PACK_PRESETS[preset].count ELSE f.count
  IN [f EXCEPT !.limit = lim,
               !.count = AllowedCounts(lim, wanted),
               !.on = @ \ {id \in Counted : Min(Options[id]) > lim[id]}]

SyncTranslationChoice(f, eq) ==
  [f EXCEPT !.on = IF eq \/ "transcript" \notin @ THEN @ \ {"translate"} ELSE @]

SyncTranscriptEnhancements(f, pl) ==
  [f EXCEPT !.on = IF "transcript" \in @ /\ pl.precise /\ "timestamps" \in @ THEN @
                   ELSE @ \ {"timestamps", "speakers"}]

SyncContentChoices(f, pl) ==
  SyncTranscriptEnhancements(SyncTranslationChoice(SyncCountLimits(f, pl), same), pl)

Shows(f) ==
  /\ on' = f.on /\ count' = f.count /\ formats' = f.formats
  /\ chosen' = f.chosen /\ limit' = f.limit

-----------------------------------------------------------------------------
\* The page opens with the markup's defaults and synchronises them at once.
Init ==
  LET f == [on |-> PACK_PRESETS.balanced.on \cup {"translate"},
            count |-> PACK_PRESETS.balanced.count, formats |-> {"pdf"}, chosen |-> "",
            limit |-> [quiz |-> 30, cards |-> 60]]
      g == SyncTranscriptEnhancements(SyncCountLimits(f, FreePlan), FreePlan)
  IN /\ on = g.on /\ count = g.count /\ formats = g.formats /\ chosen = ""
     /\ limit = g.limit /\ plan = FreePlan /\ same = FALSE /\ kept = FALSE

\* Boxes the page has disabled.
Disabled(b) ==
  CASE b \in Counted -> Min(Options[b]) > limit[b]
    [] b = "timestamps" -> "transcript" \notin on \/ ~plan.precise
    [] b = "speakers" -> "timestamps" \notin on
    [] b = "translate" -> same \/ "transcript" \notin on
    [] OTHER -> FALSE

Flipped(S, x) == IF x \in S THEN S \ {x} ELSE S \cup {x}

Toggle(b) ==
  /\ ~Disabled(b)
  /\ Shows(IF b = "translate" THEN [Form EXCEPT !.on = Flipped(@, b)]
           ELSE SyncContentChoices([Form EXCEPT !.on = Flipped(@, b)], plan))
  /\ kept' = (kept /\ b = "translate")
  /\ UNCHANGED <<plan, same>>

ToggleFormat(x) ==
  /\ Shows(SyncContentChoices([Form EXCEPT !.formats = Flipped(@, x)], plan))
  /\ kept' = FALSE
  /\ UNCHANGED <<plan, same>>

PickCount(id, v) ==
  /\ id \in on /\ v <= limit[id] /\ v # count[id]
  /\ Shows(SyncContentChoices([Form EXCEPT !.count[id] = v], plan))
  /\ kept' = FALSE
  /\ UNCHANGED <<plan, same>>

ApplyPackPreset(n) ==
  LET p == PACK_PRESETS[n]
      f == [on |-> (p.on \cap (Presented \ (IF plan.precise THEN {} ELSE {"timestamps", "speakers"})))
                   \cup (IF "transcript" \in p.on /\ ~same THEN {"translate"} ELSE {}),
            count |-> AllowedCounts(limit, p.count), formats |-> p.formats,
            chosen |-> n, limit |-> limit]
  IN /\ Shows(SyncContentChoices(f, plan))
     /\ kept' = (p.on \subseteq SyncContentChoices(f, plan).on)
     /\ UNCHANGED <<plan, same>>

\* renderBillingAccount: entitlements arrive, change or are dropped.
AccountArrives(pl) ==
  /\ pl # plan
  /\ plan' = pl
  /\ Shows(SyncContentChoices(Form, pl))
  /\ kept' = (kept /\ PACK_PRESETS[chosen].on \subseteq SyncContentChoices(Form, pl).on)
  /\ UNCHANGED same

PickLanguages(eq) ==
  /\ same' = eq /\ eq # same
  /\ Shows(SyncTranslationChoice(Form, eq))
  /\ UNCHANGED <<plan, kept>>

Next ==
  \/ \E b \in Boxes : Toggle(b)
  \/ \E x \in {"pdf", "txt"} : ToggleFormat(x)
  \/ \E id \in Counted : \E v \in Options[id] : PickCount(id, v)
  \/ \E n \in Presets : ApplyPackPreset(n)
  \/ \E pl \in Plans \cup {FreePlan} : AccountArrives(pl)
  \/ \E eq \in BOOLEAN : PickLanguages(eq)

Spec == Init /\ [][Next]_vars

-----------------------------------------------------------------------------
(* What formData would send now. *)
SentCount(id) == IF id \in on THEN count[id] ELSE 0
SentTimestamps == {"transcript", "timestamps"} \subseteq on
SentTranslation == {"transcript", "translate"} \subseteq on

\* The shape of the form.
TypeOK ==
  /\ on \subseteq Boxes /\ count \in [Counted -> Nat] /\ \A id \in Counted : count[id] \in Options[id]
  /\ formats \subseteq {"pdf", "txt"} /\ chosen \in Presets \cup {""}
  /\ limit \in [Counted -> Nat] /\ plan \in Plans \cup {FreePlan}
  /\ same \in BOOLEAN /\ kept \in BOOLEAN

\* Whatever the order of clicks, presets and arriving entitlements, the request
\* asks for no count above the loaded plan, for no precise transcript the plan
\* lacks and for no translation into the source language: the server would
\* reject the upload after it was sent.
WithinPlan ==
  /\ \A id \in Counted : SentCount(id) <= plan[id]
  /\ SentTimestamps => plan.precise
  /\ SentTranslation => ~same

\* A chosen preset follows the entitlements: as long as the visitor has not
\* edited it and no plan has cut one of its outputs, it stays the active preset
\* and its counts are the largest the current plan allows, although a smaller
\* plan may have lowered them before.
PresetFollowsPlan ==
  kept => /\ ActivePreset(Form) = chosen
          /\ count = AllowedCounts([quiz |-> plan.quiz, cards |-> plan.cards],
                                   PACK_PRESETS[chosen].count)

\* The form keeps to the plan, and gives as much of the preset as the plan does.
PackAsPlanned == WithinPlan /\ PresetFollowsPlan
=============================================================================
