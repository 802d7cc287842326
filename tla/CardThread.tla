----------------------------- MODULE CardThread -----------------------------
(***************************************************************************)
(* What hangs on the cards of a tuidos board: topics (kept in the global   *)
(* database), tags (in the project's database, with no reference between   *)
(* the two), messages, and attachments, whose bytes are files named by     *)
(* their hash, written before the row that refers to them.                 *)
(*                                                                         *)
(* Clients are processes.  A transaction or a system call is one step;     *)
(* a client may stop, or its step be refused, anywhere.                    *)
(***************************************************************************)
EXTENDS Integers, FiniteSets

CONSTANTS
  Clients,    \* processes and requests
  Cards,      \* cards of the project
  Topics,     \* ids a topic may get
  Messages,   \* ids a message may get
  Media,      \* ids an attachment may get
  Blobs,      \* contents of files, by hash
  Nil

VARIABLES
  shownCards,  \* cards that are not archived
  topics,      \* the topics table: whether each topic made is active
  tags,        \* the task_topics table
  messages,    \* the card_messages table
  media,       \* the message_media table
  blobs,       \* the file of each blob
  cut,         \* blobs a write of which was cut short
  calls        \* what each client is doing

vars == <<shownCards, topics, tags, messages, media, blobs, cut, calls>>

NoCall == [step |-> "none", card |-> Nil, id |-> Nil, blob |-> Nil]

Steps == {"none", "tag", "open", "write", "attach"}

TypeOK ==
  /\ shownCards \subseteq Cards
  /\ \E made \in SUBSET Topics : topics \in [made -> BOOLEAN]
  /\ tags \subseteq Cards \X Topics
  /\ \E made \in SUBSET Messages :
       messages \in [made -> [card : Cards, active : BOOLEAN]]
  /\ \E made \in SUBSET Media :
       media \in [made -> [message : Messages, blob : Blobs, active : BOOLEAN]]
  /\ blobs \in [Blobs -> {"absent", "part", "whole"}]
  /\ cut \subseteq Blobs
  /\ calls \in [Clients -> [step : Steps, card : Cards \cup {Nil},
                            id : Topics \cup Messages \cup {Nil},
                            blob : Blobs \cup {Nil}]]

Init ==
  /\ shownCards = Cards
  /\ topics = <<>> /\ tags = {} /\ messages = <<>> /\ media = <<>>
  /\ blobs = [b \in Blobs |-> "absent"]
  /\ cut = {}
  /\ calls = [c \in Clients |-> NoCall]

-----------------------------------------------------------------------------

Put(f, key, value) == [k \in DOMAIN f \cup {key} |-> IF k = key THEN value ELSE f[k]]

Call(c, step, card, id, blob) ==
  calls' = [calls EXCEPT ![c] = [step |-> step, card |-> card, id |-> id, blob |-> blob]]

Goes(c, step) ==
  calls' = [calls EXCEPT ![c] = IF step = "none" THEN NoCall ELSE [@ EXCEPT !.step = step]]

\* The thread of a card: its active messages.
Thread(card) == {m \in DOMAIN messages : messages[m].card = card /\ messages[m].active}

\* Attachments a card shows: active, on an active message of it.
ShownMedia(card) ==
  {a \in DOMAIN media : media[a].active /\ media[a].message \in Thread(card)}

-----------------------------------------------------------------------------
(* Topics and tags. *)

CreateTopic(t) ==
  /\ t \notin DOMAIN topics
  /\ topics' = Put(topics, t, TRUE)
  /\ UNCHANGED <<shownCards, tags, messages, media, blobs, cut, calls>>

ArchiveTopic(t) ==
  /\ t \in DOMAIN topics
  /\ topics[t]
  /\ topics' = [topics EXCEPT ![t] = FALSE]
  /\ UNCHANGED <<shownCards, tags, messages, media, blobs, cut, calls>>

\* The topic is looked up in the global database ...
RequireActiveTopic(c, card, t) ==
  /\ calls[c] = NoCall
  /\ t \in DOMAIN topics
  /\ topics[t]
  /\ Call(c, "tag", card, t, Nil)
  /\ UNCHANGED <<shownCards, topics, tags, messages, media, blobs, cut>>

\* ... and the tag added in the project's.
AttachTopic(c) ==
  /\ calls[c].step = "tag"
  /\ calls[c].card \in shownCards
  /\ tags' = tags \cup {<<calls[c].card, calls[c].id>>}
  /\ Goes(c, "none")
  /\ UNCHANGED <<shownCards, topics, messages, media, blobs, cut>>

\* Any id is accepted here, known or not, archived or not.
DetachTopic(card, t) ==
  /\ card \in shownCards
  /\ <<card, t>> \in tags
  /\ tags' = tags \ {<<card, t>>}
  /\ UNCHANGED <<shownCards, topics, messages, media, blobs, cut, calls>>

-----------------------------------------------------------------------------
(* Messages. *)

CreateMessage(card, m) ==
  /\ card \in shownCards
  /\ m \notin DOMAIN messages
  /\ messages' = Put(messages, m, [card |-> card, active |-> TRUE])
  /\ UNCHANGED <<shownCards, topics, tags, media, blobs, cut, calls>>

ArchiveMessage(card, m) ==
  /\ m \in Thread(card)
  /\ messages' = [messages EXCEPT ![m].active = FALSE]
  /\ UNCHANGED <<shownCards, topics, tags, media, blobs, cut, calls>>

-----------------------------------------------------------------------------
(* Attachments.  A file that exists is taken to hold its content; one that *)
(* is written is emptied first.                                            *)

AddMedia(c, card, m, b) ==
  /\ calls[c] = NoCall
  /\ Call(c, IF blobs[b] = "absent" THEN "open" ELSE "attach", card, m, b)
  /\ UNCHANGED <<shownCards, topics, tags, messages, media, blobs, cut>>

OpenBlob(c) ==
  /\ calls[c].step = "open"
  /\ blobs' = [blobs EXCEPT ![calls[c].blob] = "part"]
  /\ Goes(c, "write")
  /\ UNCHANGED <<shownCards, topics, tags, messages, media, cut>>

WriteBlob(c) ==
  /\ calls[c].step = "write"
  /\ blobs' = [blobs EXCEPT ![calls[c].blob] = "whole"]
  /\ Goes(c, "attach")
  /\ UNCHANGED <<shownCards, topics, tags, messages, media, cut>>

\* The row, for an active message of the card that was named.
AttachMediaAnywhere(c, a) ==
  LET r == calls[c]
  IN /\ r.step = "attach"
     /\ a \notin DOMAIN media
     /\ r.id \in DOMAIN messages
     /\ media' = Put(media, a, [message |-> r.id, blob |-> r.blob, active |-> TRUE])
     /\ Goes(c, "none")
     /\ UNCHANGED <<shownCards, topics, tags, messages, blobs, cut>>

AttachMediaFirst(c, a) ==
  /\ calls[c].step \in {"open", "attach"}
  /\ calls[c].id \in Thread(calls[c].card)
  /\ a \notin DOMAIN media
  /\ media' = Put(media, a, [message |-> calls[c].id, blob |-> calls[c].blob,
                             active |-> TRUE])
  /\ Goes(c, IF calls[c].step = "open" THEN "open" ELSE "none")
  /\ UNCHANGED <<shownCards, topics, tags, messages, blobs, cut>>

AttachMedia(c, a) ==
  /\ calls[c].step = "attach"
  /\ calls[c].id \in Thread(calls[c].card)
  /\ AttachMediaAnywhere(c, a)

\* The row is kept, and the file; an archived message does not matter here.
ArchiveMedia(card, a) ==
  /\ a \in DOMAIN media
  /\ media[a].active
  /\ messages[media[a].message].card = card
  /\ media' = [media EXCEPT ![a].active = FALSE]
  /\ UNCHANGED <<shownCards, topics, tags, messages, blobs, cut, calls>>

-----------------------------------------------------------------------------
(* The rest of the world. *)

\* A step is refused, or the client ends; a file it was writing stays short.
Stop(c) ==
  /\ calls[c] # NoCall
  /\ cut' = IF calls[c].step = "write" THEN cut \cup {calls[c].blob} ELSE cut
  /\ Goes(c, "none")
  /\ UNCHANGED <<shownCards, topics, tags, messages, media, blobs>>

\* Board archives cards and restores them.
ArchiveOrRestore(card) ==
  /\ shownCards' = IF card \in shownCards THEN shownCards \ {card} ELSE shownCards \cup {card}
  /\ UNCHANGED <<topics, tags, messages, media, blobs, cut, calls>>

Next ==
  \/ \E t \in Topics :
       CreateTopic(t) \/ ArchiveTopic(t) \/ \E card \in Cards : DetachTopic(card, t)
  \/ \E c \in Clients, card \in Cards :
       \/ \E t \in Topics : RequireActiveTopic(c, card, t)
       \/ \E m \in DOMAIN messages, b \in Blobs : AddMedia(c, card, m, b)
  \/ \E c \in Clients :
       \/ AttachTopic(c) \/ OpenBlob(c) \/ WriteBlob(c) \/ Stop(c)
       \/ \E a \in Media : AttachMedia(c, a)
  \/ \E card \in Cards :
       \/ ArchiveOrRestore(card)
       \/ \E m \in Messages : CreateMessage(card, m)
       \/ \E m \in DOMAIN messages : ArchiveMessage(card, m)
       \/ \E a \in DOMAIN media : ArchiveMedia(card, a)

Spec == Init /\ [][Next]_vars

-----------------------------------------------------------------------------
(* The file of an attachment is there, and it is short only while some     *)
(* client is about to write it, or when a write of it was cut.  (Once cut, *)
(* it stays short: the next client that adds the same bytes finds a file   *)
(* and writes nothing.)                                                    *)
MediaHasBlob ==
  \A a \in DOMAIN media :
    /\ blobs[media[a].blob] # "absent"
    /\ blobs[media[a].blob] = "part" =>
         \/ media[a].blob \in cut
         \/ \E c \in Clients : calls[c].step = "write" /\ calls[c].blob = media[a].blob

(* What a client attaches is on a message of the card it named, though the *)
(* card, the message and the attachment are checked in different steps.    *)
MediaOfItsCard ==
  [][ \A c \in Clients, a \in Media, card \in Cards :
        /\ a \in DOMAIN media' \ DOMAIN media
        /\ calls'[c] # calls[c] /\ calls[c].card = card
        => a \in ShownMedia(card)' ]_vars

=============================================================================
