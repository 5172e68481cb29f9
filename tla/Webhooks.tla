-------------------------------- MODULE Webhooks --------------------------------
(***************************************************************************)
(* The receivers that take one message at a time: Gotify, Slack and         *)
(* Gitea/Forgejo (internal/ingest/gotify, slack, gitea).  A parser returns  *)
(* a sequence of one notification, or of none for a payload it refuses.    *)
(* A title and a body are sequences of the parts they are put together      *)
(* from, <<>> being the empty string; "" is a field that is missing.       *)
(***************************************************************************)
EXTENDS Integers, Sequences

Text(value) == IF value = "" THEN <<>> ELSE <<value>>

Notification(title, body, priority) ==
  [title |-> title, body |-> body, priority |-> priority]

--------------------------------------------------------------------------------
(* Gotify. *)

\* Mutant: a message may be missing.
GotifyMessage_optional(p) == TRUE

GotifyMessage(p) == p.message # ""

\* JSON has its priority as a number; in a form it is text, "none" or not a
\* number if p.number is FALSE.
GotifyParse(p) ==
  IF p.valid /\ p.number /\ GotifyMessage(p)
  THEN <<Notification(Text(p.title), Text(p.message), p.priority)>>
  ELSE <<>>

--------------------------------------------------------------------------------
(* Slack. *)

\* blockText: the texts of headers and sections.
BlockTexts(blocks) ==
  {blocks[i].text : i \in {j \in DOMAIN blocks : blocks[j].type \in {"header", "section"}}}

\* What an attachment adds: its title, text or fallback, and blocks.
AttachmentTexts(a) ==
  {a.title, IF a.text # "" THEN a.text ELSE a.fallback} \cup BlockTexts(a.blocks)

\* The texts of a message, those that are not empty.
SlackTexts(p) ==
  ({p.text} \cup BlockTexts(p.blocks)
     \cup UNION {AttachmentTexts(p.attachments[i]) : i \in DOMAIN p.attachments}) \ {""}

\* The loop leaves at the first attachment that is a danger.
SlackPriority(attachments) ==
  LET colors == {attachments[i].color : i \in DOMAIN attachments}
  IN  IF "danger" \in colors THEN 5 ELSE IF "warning" \in colors THEN 4 ELSE 3

\* JSON, or a form with the JSON in its payload field.  The body is what the
\* message has of texts, whose order is left out.
SlackParse(p) ==
  IF p.valid /\ SlackTexts(p) # {}
  THEN <<Notification(Text(p.username), <<SlackTexts(p)>>, SlackPriority(p.attachments))>>
  ELSE <<>>

--------------------------------------------------------------------------------
(* Gitea and Forgejo. *)

\* All titles begin with the repository's name in brackets; what follows is
\* wording.
Titled(body, priority) == Notification(<<"[repo]">>, body, priority)

ActionRuns == {"action_run_failure", "action_run_success", "action_run_recover"}

\* Events whose notification needs the object they are about.
ObjectEvents == {"pull_request", "issues", "release"} \cup ActionRuns

\* What happened to an object; a closed pull request may have been merged.
ObjectPriority(event, p) ==
  CASE event = "action_run_failure" -> 5
    [] event = "release" -> 4
    [] event = "pull_request" /\ p.action = "merged" -> 4
    [] event = "pull_request" /\ p.action = "closed" /\ p.merged -> 4
    [] OTHER -> 3

\* An event nobody knows is still reported, in a minimal line.
GiteaFormat(event, p) ==
  CASE event = "push" -> Titled([i \in 1 .. p.commits |-> "commit"], 3)
    [] event \in {"create", "delete"} -> Titled(<<>>, 3)
    [] event \in ObjectEvents /\ p.object -> Titled(<<"link">>, ObjectPriority(event, p))
    [] event \in ObjectEvents /\ ~p.object -> Titled(<<>>, 3)
    [] OTHER -> Titled(<<"event">>, 3)

\* The event comes in a header of either name.
GiteaParse(p) ==
  IF p.event # "" /\ p.valid THEN <<GiteaFormat(p.event, p)>> ELSE <<>>
================================================================================
