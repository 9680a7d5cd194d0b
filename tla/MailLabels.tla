------------------------------ MODULE MailLabels ------------------------------
(***************************************************************************)
(* The labels a DeclutrMail action moves, and what each verb does to them. *)
(*                                                                         *)
(* A mail store (Gmail itself, or the local mirror mail_messages.label_ids)*)
(* is a function from messages to sets of labels.  Only the three labels   *)
(* the label-modify verbs touch are kept: INBOX, TRASH and the user label  *)
(* DeclutrMail/Later, here LATER.  A message with none of them is archived.*)
(***************************************************************************)

Labels == {"INBOX", "LATER", "TRASH"}

(* The verbs whose pipeline is complete (PIPELINE_COMPLETE_VERBS).         *)
LabelVerbs == {"archive", "later", "delete"}

(* A Delete may reach past the inbox; no other verb may (ADR-0028).        *)
ActionReaches == {"inbox_only", "all_mail"}

LabelChange(add, remove) == [add |-> add, remove |-> remove]

(* The registry's forward change of each verb.                             *)
ForwardChange(verb) ==
  CASE verb = "archive" -> LabelChange({}, {"INBOX"})
    [] verb = "later"   -> LabelChange({"LATER"}, {"INBOX"})
    [] verb = "delete"  -> LabelChange({"TRASH"}, {"INBOX"})

(* The registry's reverse change of each verb.                             *)
ReverseChange(verb) ==
  CASE verb = "archive" -> LabelChange({"INBOX"}, {})
    [] verb = "later"   -> LabelChange({"INBOX"}, {"LATER"})
    [] verb = "delete"  -> LabelChange({"INBOX"}, {"TRASH"})

(* A reverse change without its INBOX re-add: back to the archive.         *)
ArchiveReverseChange(verb) == LabelChange({}, ReverseChange(verb).remove)

(* Apply a change to some messages of a store: removals, then additions.   *)
(* This is Gmail's batchModify and buildLabelMirrorExpr alike, and doing   *)
(* it twice is doing it once.                                              *)
Modify(store, ids, change) ==
  [m \in DOMAIN store |->
     IF m \in ids THEN (store[m] \ change.remove) \cup change.add ELSE store[m]]

(* The messages of a store that carry a label.                             *)
Carrying(store, label) == {m \in DOMAIN store : label \in store[m]}

(* The messages an action at a given reach resolves to (reachWhere).       *)
SenderActionIds(store, reach) ==
  IF reach = "inbox_only" THEN Carrying(store, "INBOX")
                          ELSE DOMAIN store \ Carrying(store, "TRASH")

===============================================================================
