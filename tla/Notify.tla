------------------------------- MODULE Notify -------------------------------
(***************************************************************************)
(* The notification channel of a client (Dial, Receive and Close in        *)
(* client/client.go) in a program that runs Receive beside its calls, as   *)
(* tools/crawldeps does.  One reader goroutine of the JSON-RPC client, an  *)
(* external package, takes the server's messages in order; for a           *)
(* notification it runs OnNotify, which hands it over on a channel without *)
(* buffer.  While it waits to do so, it reads no answers.                  *)
(* Receive calls f, which reads the notification it is given; the only f   *)
(* of the repository is the one of crawldeps.                              *)
(***************************************************************************)
EXTENDS Integers, Sequences, FiniteSets

CONSTANT MaxNotes    \* bound on the notifications the server pushes

ASSUME NotifyAssumption == MaxNotes \in Nat

VARIABLES
    inbox,       \* messages sent by the server and not yet read
    reader,      \* the reader: "idle", "offering" a notification, or "dead" in a panic
    notes,       \* the channel Client.notes: "open" or "closed"
    receiver,    \* Receive: "waiting" on the channel, "busy" in f, "stopped", or "dead"
    stopped,     \* the context of the program has ended
    closing,     \* Close: "no", "cancelled" the notifier, "done"
    pending,     \* the call in progress: "none", "waiting", "answered", "failed"
    sent,        \* history: notifications sent
    received     \* history: notifications handed over

history == <<sent, received>>
notifyVars == <<inbox, reader, notes, receiver, stopped, closing, pending, history>>

-----------------------------------------------------------------------------
NotifyInit ==
    /\ inbox = << >> /\ reader = "idle"
    /\ notes = "open" /\ receiver = "waiting"
    /\ stopped = FALSE /\ closing = "no" /\ pending = "none"
    /\ sent = 0 /\ received = 0

\* A panic of one goroutine ends the program.
Panicked == reader = "dead" \/ receiver = "dead"

\* The program has neither panicked nor closed the client.
Alive == ~Panicked /\ closing # "done"

Answering == \E i \in DOMAIN inbox : inbox[i] = "answer"

\* A call is made.
Calls ==
    /\ Alive /\ ~stopped /\ closing = "no" /\ pending = "none"
    /\ pending' = "waiting"
    /\ UNCHANGED <<inbox, reader, notes, receiver, stopped, closing, history>>

\* Working on the call, the server pushes notifications; then it answers.
ServerNotifies ==
    /\ Alive /\ pending = "waiting" /\ sent < MaxNotes /\ ~Answering
    /\ inbox' = Append(inbox, "note")
    /\ sent' = sent + 1
    /\ UNCHANGED <<reader, notes, receiver, stopped, closing, pending, received>>

ServerAnswers ==
    /\ Alive /\ pending = "waiting" /\ ~Answering
    /\ inbox' = Append(inbox, "answer")
    /\ UNCHANGED <<reader, notes, receiver, stopped, closing, pending, history>>

\* The reader takes a notification and waits to hand it over.
ReadsNote ==
    /\ Alive /\ reader = "idle" /\ inbox # << >> /\ Head(inbox) = "note"
    /\ reader' = "offering"
    /\ inbox' = Tail(inbox)
    /\ UNCHANGED <<notes, receiver, stopped, closing, pending, history>>

\* Mutant of ReadsAnswer: answers do not queue behind notifications.
AnswerOvertakes ==
    /\ Alive /\ Answering
    /\ inbox' = SubSeq(inbox, 1, Len(inbox) - 1)
    /\ pending' = IF pending = "waiting" THEN "answered" ELSE pending
    /\ UNCHANGED <<reader, notes, receiver, stopped, closing, history>>

\* The answer ends the call, if it has not been given up.
ReadsAnswer ==
    /\ Alive /\ reader = "idle" /\ inbox # << >> /\ Head(inbox) = "answer"
    /\ inbox' = Tail(inbox)
    /\ pending' = IF pending = "waiting" THEN "answered" ELSE pending
    /\ UNCHANGED <<reader, notes, receiver, stopped, closing, history>>

\* OnNotify: Receive takes the notification ...
HandsOver ==
    /\ Alive /\ reader = "offering" /\ notes = "open" /\ receiver = "waiting"
    /\ reader' = "idle" /\ receiver' = "busy"
    /\ received' = received + 1
    /\ UNCHANGED <<inbox, notes, stopped, closing, pending, sent>>

\* Mutant of GivesUp: OnNotify only tries to deliver.
NeverGivesUp == FALSE /\ UNCHANGED notifyVars

\* ... or the notifier is cancelled, and the channel is closed ...
GivesUp ==
    /\ Alive /\ reader = "offering" /\ notes = "open" /\ closing = "cancelled"
    /\ reader' = "idle" /\ notes' = "closed"
    /\ UNCHANGED <<inbox, receiver, stopped, closing, pending, history>>

\* ... or it was closed before: to send on it, or close it again, panics.
Panics ==
    /\ Alive /\ reader = "offering" /\ notes = "closed"
    /\ reader' = "dead"
    /\ UNCHANGED <<inbox, notes, receiver, stopped, closing, pending, history>>

\* A closed channel yields nil at once, and Receive calls f with it: f reads the
\* parameters of no request and panics.  After Close there is time for that
\* until the process exits.
ReceivesNil ==
    /\ ~Panicked /\ receiver = "waiting" /\ notes = "closed"
    /\ receiver' = "dead"
    /\ UNCHANGED <<inbox, reader, notes, stopped, closing, pending, history>>

ReceiverReturns ==
    /\ Alive /\ receiver = "busy"
    /\ receiver' = "waiting"
    /\ UNCHANGED <<inbox, reader, notes, stopped, closing, pending, history>>

\* Its context ends.
ReceiveEnds ==
    /\ Alive /\ receiver = "waiting" /\ stopped
    /\ receiver' = "stopped"
    /\ UNCHANGED <<inbox, reader, notes, stopped, closing, pending, history>>

\* The context of the program ends: its call, if any, fails.
Stops ==
    /\ Alive /\ ~stopped
    /\ stopped' = TRUE
    /\ pending' = IF pending = "waiting" THEN "failed" ELSE pending
    /\ UNCHANGED <<inbox, reader, notes, receiver, closing, history>>

\* Mutant of Cancels: Close closes the channel itself.
CancelsAndCloses ==
    /\ Alive /\ closing = "no"
    /\ closing' = "cancelled" /\ notes' = "closed"
    /\ UNCHANGED <<inbox, reader, receiver, stopped, pending, history>>

\* Close cancels the notifier; then it closes the connection, failing the call
\* in progress, and waits for the reader to end, which it does between messages.
Cancels ==
    /\ Alive /\ closing = "no"
    /\ closing' = "cancelled"
    /\ UNCHANGED <<inbox, reader, notes, receiver, stopped, pending, history>>

Closes ==
    /\ Alive /\ closing # "no" /\ reader = "idle"
    /\ closing' = "done"
    /\ pending' = IF pending = "waiting" THEN "failed" ELSE pending
    /\ UNCHANGED <<inbox, reader, notes, receiver, stopped, history>>

ReaderStep == ReadsNote \/ ReadsAnswer \/ HandsOver \/ GivesUp \/ Panics

NotifyNext ==
    \/ Calls \/ ServerNotifies \/ ServerAnswers
    \/ ReaderStep
    \/ ReceivesNil \/ ReceiverReturns \/ ReceiveEnds
    \/ Stops \/ Cancels \/ Closes

NotifySpec == NotifyInit /\ [][NotifyNext]_notifyVars
-----------------------------------------------------------------------------
\* The parts of the channel have their values (part of ClientTypeOK).
NotifyTypeOK ==
    /\ inbox \in Seq({"note", "answer"}) /\ Len(inbox) <= MaxNotes + 1
    /\ reader \in {"idle", "offering", "dead"} /\ notes \in {"open", "closed"}
    /\ receiver \in {"waiting", "busy", "stopped", "dead"}
    /\ stopped \in BOOLEAN /\ closing \in {"no", "cancelled", "done"}
    /\ pending \in {"none", "waiting", "answered", "failed"}
    /\ sent \in 0 .. MaxNotes /\ received \in 0 .. sent

\* When a call has returned its result, every notification the server pushed
\* before has been handed to Receive: they are "synchronous with request
\* processing" (client.go:77-78).
NotesBeforeAnswer ==
    pending = "answered" /\ closing = "no" => received = sent

\* The notifications the reader has not come to.
Unread == Cardinality({i \in DOMAIN inbox : inbox[i] = "note"})

\* The program panics only once Close has given up a notification that nobody
\* received: that one closes the channel, on which Receive then finds nil; for
\* the reader itself to panic it takes a second, which finds the channel closed
\* (client.go:60-65, 84-85).  Receive says of itself that it "calls f with each
\* server notification received by c" (client.go:77), not that there may be none.
PanicsOnGivenUp ==
    Panicked =>
        /\ closing # "no"
        /\ sent - Unread - received >= IF reader = "dead" THEN 2 ELSE 1

\* A call returns as long as Receive takes the notifications before its answer,
\* and Close returns although one is offered and Receive has stopped: neither
\* waits for ever behind a notification nobody takes, unless the program panics
\* meanwhile (client.go:58-66, 79-91).
ClientReturns ==
    /\ pending = "waiting" ~> pending # "waiting" \/ Panicked
    /\ closing = "cancelled" ~> closing = "done" \/ Panicked
=============================================================================
