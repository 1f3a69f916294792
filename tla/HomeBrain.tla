----------------------------- MODULE HomeBrain -----------------------------
(* Images that the voice assistant of the home sends to a phone              *)
(* (services/friday_brain/main.py): the one record _image_delivery, the turns*)
(* of all rooms and users, which read and write it, and the background tasks *)
(* that do so too.                                                           *)
EXTENDS Naturals, Sequences, SequencesExt

CONSTANTS
    Device,        \* phones and tablets of FRIDAY_IMAGE_TARGETS
    NoDevice,
    Default,       \* FRIDAY_DEFAULT_IMAGE_TARGET, or NoDevice when no target has that name
    MaxTasks,      \* bound: deliveries that are begun
    MaxApprovals   \* bound: approvals

VARIABLES
    delivery,      \* _image_delivery
    tasks,         \* the background deliveries, _generate_and_deliver_image; `word` is what the
                   \* device got of each, "lost" when Home Assistant did not take it
    approvals,     \* turns that send a reviewed image
    sent           \* history: images that were sent, where, and whether a user approved

vars == <<delivery, tasks, approvals, sent>>

Task == 1..MaxTasks
Waiting == {"awaiting_target", "awaiting_source"}
Idle == [status |-> "idle", device |-> NoDevice, image |-> 0, search |-> FALSE]

TypeOK ==
    /\ delivery \in [status : {"idle", "generating", "review", "no_match", "sent", "failed"} \cup Waiting,
                     device : Device \cup {NoDevice}, image : 0..MaxTasks,
                     search : BOOLEAN]
    /\ tasks \in Seq([device : Device \cup {NoDevice}, search : BOOLEAN,
                      at : {"new", "job", "note", "send", "unload", "tell", "over"},
                      match : {"none", "strong", "close", "weak", "unscored"},
                      word : {"none", "image", "told", "lost"}])
    /\ approvals \in Seq([image : Task, device : Device \cup {NoDevice}, at : {"send", "over"}])
    /\ sent \subseteq [image : Task, device : Device, approved : BOOLEAN]

Init ==
    /\ delivery = Idle /\ tasks = <<>> /\ approvals = <<>>
    /\ sent = {}

-----------------------------------------------------------------------------
(* The turns of _answer that concern an image.                               *)

\* create_task: the record changes only when the task runs.
NewTask(device, search) ==
    /\ Len(tasks) < MaxTasks
    /\ tasks' = Append(tasks, [device |-> device, search |-> search,
                               at |-> "new", match |-> "none", word |-> "none"])
    /\ UNCHANGED delivery

\* The assistant asked for a device, and the reply, whatever else it says, names one.
NameTarget(d) ==
    /\ delivery.status = "awaiting_target"
    /\ NewTask(d, delivery.search)
    /\ UNCHANGED <<approvals, sent>>

\* It asked for a source, and the reply has a word for one.
ChooseSource(search) ==
    /\ delivery.status = "awaiting_source"
    /\ NewTask(delivery.device, search)
    /\ UNCHANGED <<approvals, sent>>

\* The reply is clearly about something else.
Supersede ==
    /\ delivery.status \in Waiting
    /\ delivery' = Idle
    /\ UNCHANGED <<tasks, approvals, sent>>

\* Mutation of Approvable: a weak match can be approved too.
ApprovableAny == delivery.status \in {"review", "no_match"}

Approvable == delivery.status = "review"

\* "Send it": the turn waits for the notification with what the record says now.
Approve ==
    /\ Approvable /\ Len(approvals) < MaxApprovals
    /\ approvals' = Append(approvals, [image |-> delivery.image, device |-> delivery.device,
                                       at |-> "send"])
    /\ UNCHANGED <<delivery, tasks, sent>>

\* The notification was sent or not, and the turn writes so into the record, unless the call raised.
\* It is refused when a request without a device has emptied the record meanwhile.
Approved(k) ==
    /\ approvals[k].at = "send"
    /\ approvals' = [approvals EXCEPT ![k].at = "over"]
    /\ \/ /\ approvals[k].device # NoDevice
          /\ sent' = sent \cup {[image |-> approvals[k].image, device |-> approvals[k].device,
                                 approved |-> TRUE]}
          /\ delivery' = [delivery EXCEPT !.status = "sent"]
       \/ delivery' \in {delivery, [delivery EXCEPT !.status = "failed"]} /\ UNCHANGED sent
    /\ UNCHANGED tasks

\* "Generate one", of the prompt on record.
GenerateInstead ==
    /\ delivery.status \in {"review", "no_match"}
    /\ NewTask(delivery.device, FALSE)
    /\ UNCHANGED <<approvals, sent>>

\* An ask that says whether to search or to generate, for the device d or for the default.
AskFor(search, d) ==
    /\ delivery.status \notin Waiting
    /\ \/ d # NoDevice /\ NewTask(d, search)
       \/ /\ d = NoDevice
          /\ delivery' = [Idle EXCEPT !.status = "awaiting_target", !.search = search]
          /\ UNCHANGED tasks
    /\ UNCHANGED <<approvals, sent>>

\* An ask that does not say.
AskForPicture(d) ==
    /\ delivery.status \notin Waiting
    /\ d # NoDevice
    /\ delivery' = [Idle EXCEPT !.status = "awaiting_source", !.device = d]
    /\ UNCHANGED <<tasks, approvals, sent>>

-----------------------------------------------------------------------------
(* _generate_and_deliver_image.                                              *)

Goes(t, place) == tasks' = [tasks EXCEPT ![t].at = place]

Ends(t, word) == tasks' = [tasks EXCEPT ![t].at = "over", ![t].word = word]

TaskBegins(t) ==
    /\ tasks[t].at = "new"
    /\ delivery' = [status |-> "generating", device |-> tasks[t].device,
                    image |-> 0, search |-> tasks[t].search]
    /\ Goes(t, "job")
    /\ UNCHANGED <<approvals, sent>>

\* The image service has an image.  Only a search has a score, and not when the model that looks at
\* the image does not answer: such an image is delivered as a strong match is.
TaskFinds(t) ==
    /\ tasks[t].at = "job"
    /\ \/ \E match \in {"none", "strong", "unscored"} :
            /\ match = "none" <=> ~tasks[t].search
            /\ tasks' = [tasks EXCEPT ![t].at = "send", ![t].match = match]
            /\ UNCHANGED delivery
       \/ \E match \in {"close", "weak"} :
            /\ tasks[t].search
            /\ tasks' = [tasks EXCEPT ![t].at = "note", ![t].match = match]
            /\ delivery' = [delivery EXCEPT !.image = t,
                                            !.status = IF match = "close" THEN "review" ELSE "no_match"]
    /\ UNCHANGED <<approvals, sent>>

TaskFails(t) ==
    /\ delivery' = [delivery EXCEPT !.status = "failed"]
    /\ Goes(t, "tell")
    /\ UNCHANGED <<approvals, sent>>

\* The image service answers with an error.
TaskRefused(t) == tasks[t].at = "job" /\ TaskFails(t)

\* Mutation of TaskTimesOut: the task returns.
TaskGivesUp(t) ==
    /\ tasks[t].at = "job"
    /\ delivery' = [delivery EXCEPT !.status = "failed"]
    /\ Goes(t, "over")
    /\ UNCHANGED <<approvals, sent>>

\* Ten minutes without an image.
TaskTimesOut(t) == tasks[t].at = "job" /\ TaskFails(t)

\* The image goes to the device that the task was begun with.
TaskSends(t) ==
    /\ tasks[t].at = "send"
    /\ \/ /\ tasks[t].device # NoDevice
          /\ sent' = sent \cup {[image |-> t, device |-> tasks[t].device, approved |-> FALSE]}
          /\ IF tasks[t].search
             THEN Ends(t, "image") /\ delivery' = [delivery EXCEPT !.status = "sent", !.image = t]
             ELSE Goes(t, "unload") /\ UNCHANGED delivery
          /\ UNCHANGED approvals
       \/ TaskFails(t)

\* After a generation the weights are unloaded first.
TaskUnloads(t) ==
    /\ tasks[t].at = "unload"
    /\ delivery' = [delivery EXCEPT !.status = "sent", !.image = t]
    /\ Ends(t, "image")
    /\ UNCHANGED <<approvals, sent>>

\* The device is told of a failure, or of a match that needs a decision, if Home Assistant takes the
\* notification: an error that it returns is not looked at, and one that is raised makes the match
\* a failure, or ends the task.
TaskTells(t) ==
    \/ /\ tasks[t].at \in {"note", "tell"}
       /\ \E word \in {"told", "lost"} :
            /\ word = "told" => tasks[t].device # NoDevice
            /\ Ends(t, word)
       /\ UNCHANGED <<delivery, approvals, sent>>
    \/ tasks[t].at = "note" /\ TaskFails(t)

\* What a task does by itself, and what depends on the image service.
TaskStep(t) ==
    TaskBegins(t) \/ TaskTimesOut(t) \/ TaskSends(t) \/ TaskUnloads(t) \/ TaskTells(t)

ServiceAnswers(t) == TaskFinds(t) \/ TaskRefused(t)

\* A restart of the service forgets the record, its tasks and its turns.
Lost(task) == IF task.at = "over" THEN task ELSE [task EXCEPT !.at = "over", !.word = "lost"]

Restart ==
    /\ delivery' = Idle
    /\ tasks' = [t \in DOMAIN tasks |-> Lost(tasks[t])]
    /\ approvals' = [k \in DOMAIN approvals |-> [approvals[k] EXCEPT !.at = "over"]]
    /\ UNCHANGED sent

-----------------------------------------------------------------------------

Turn ==
    \/ Supersede \/ Approve \/ GenerateInstead
    \/ \E d \in Device : NameTarget(d)
    \/ \E search \in BOOLEAN : ChooseSource(search)
    \/ \E d \in Device \cup {Default}, search \in BOOLEAN : AskFor(search, d)
    \/ \E d \in Device \cup {Default} : AskForPicture(d)
    \/ \E k \in DOMAIN approvals : Approved(k)

Next ==
    \/ Turn \/ Restart
    \/ \E t \in DOMAIN tasks : TaskStep(t) \/ ServiceAnswers(t)

-----------------------------------------------------------------------------

\* An image that was found to be a weak match is never sent, and a close one is sent only when a
\* user said so: the record never offers the image of one search with the verdict of another.
WeakNeverSent ==
    \A s \in sent :
        /\ tasks[s.image].match # "weak"
        /\ tasks[s.image].match = "close" => s.approved

\* A delivery that was promised ends, even if the image service hangs, and it does not end silently:
\* the image or a word about it was sent to the device, or was lost on the way.
DeliveryEnds ==
    \A t \in Task :
        t \in DOMAIN tasks ~> t \in DOMAIN tasks /\ tasks[t].at = "over" /\ tasks[t].word # "none"

\* "[I] will check the match before sending it".  Refuted: a check that fails counts as passed.
CheckedBeforeSent == \A s \in sent : tasks[s.image].match # "unscored"

\* The device hears of each delivery that was begun for it.  Refuted: a notification that Home
\* Assistant refuses is not repeated, and a restart forgets the task.
DeviceHears ==
    \A t \in DOMAIN tasks :
        tasks[t].at = "over" /\ tasks[t].device # NoDevice => tasks[t].word # "lost"

\* An image goes to the device that it was made for.  Refuted: an approval sends the image of one
\* task to the device that a later task wrote into the record.
SentWhereAsked == \A s \in sent : s.device = tasks[s.image].device
=============================================================================
