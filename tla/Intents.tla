------------------------------ MODULE Intents ------------------------------
(***************************************************************************)
(* Delivery semantics a sender attaches to a message (intents.py).  What   *)
(* the caller passes is a raw value: nothing at all, one of the recognised *)
(* intents, or a string nobody recognises.                                 *)
(***************************************************************************)

\* The members of the enum Intent.
ValidIntents == {"execute", "fyi", "question", "review", "triage"}

\* What a message gets when its sender named no recognised intent.
DefaultIntent == "execute"

\* The intents that do not spawn a session at the recipient.
NoWakeIntents == {"fyi"}

\* The raw values a caller can pass: Absent stands for None, Unknown for any
\* string outside the enum.
Absent == "absent"
Unknown == "unknown"
RawIntents == ValidIntents \cup {Absent, Unknown}

\* Mutant: only an absent intent is replaced, any string is stored.
KeepsUnknown(raw) == IF raw = Absent THEN DefaultIntent ELSE raw

\* The intent that is stored for a raw value.
NormalizeIntent(raw) == IF raw \in ValidIntents THEN raw ELSE DefaultIntent

\* Mutant: the webhook is posted whatever the intent.
AlwaysWakes(intent) == TRUE

\* Whether a message with that intent triggers the webhook.
Wakes(intent) == intent \notin NoWakeIntents
=============================================================================
