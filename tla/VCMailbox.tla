----------------------------- MODULE VCMailbox -----------------------------
(***************************************************************************)
(* The VideoCore mailbox: vc_mailbox_call_sync of machine/io/vc/            *)
(* vc_mailbox.c, one register access per action, and the firmware at the    *)
(* other end, as the code takes it to behave.                               *)
(*                                                                          *)
(* The kernel runs on one core. Its stack of contexts is main and, above    *)
(* it, what exceptions and panics have interrupted it with; only the top    *)
(* one runs. A message lies in its caller's stack frame, so the depth of a  *)
(* context stands for the address, which its next call uses again.          *)
(***************************************************************************)
EXTENDS Naturals, Sequences

CONSTANTS
  MaxContexts,    \* bound: main and the panics on top of it
  RequestDepth,   \* words the mailbox holds for the firmware
  ReplyDepth,     \* words it holds for the kernel
  MaxOtherWords,  \* bound: words for nobody that the firmware sends
  Tags,           \* what a message can ask for
  NoTag

ASSUME MailboxAssumption ==
  /\ MaxContexts \in Nat \ {0} /\ MaxOtherWords \in Nat
  /\ RequestDepth \in Nat \ {0} /\ ReplyDepth \in Nat \ {0}
  /\ NoTag \notin Tags

VARIABLES
  contexts,     \* the stack: what each runs, and where it is in it
  message,      \* the message in each context's frame
  requests,     \* addresses written to the mailbox, not yet taken
  serving,      \* addresses the firmware has taken and works on
  replies,      \* words to be read from the mailbox
  other_words   \* how many of them were for nobody

mailboxVars == <<contexts, message, requests, serving, replies, other_words>>

REQUEST == "request"
RESPONSE == "response"
FAILED == "failed"

(* Bytes of the answer in the tag: the field is zeroed by message_init.     *)
Lengths == {"zero", "short", "complete"}

OtherWord == 0
Addresses == 1 .. MaxContexts

top == Len(contexts)
Top == contexts[top]
Goto(pc) == contexts' = [contexts EXCEPT ![top].pc = pc]

EmptyMessage == [tag |-> NoTag, type |-> REQUEST, length |-> "zero", buffer |-> NoTag]

----------------------------------------------------------------------------
(* The caller                                                               *)

(* Builds the message over whatever the frame held.                         *)
SetUpMessage_not_zeroed(tag) ==
  message' = [message EXCEPT ![top].tag = tag, ![top].type = REQUEST]

(* message_init and message_add_tag.                                        *)
SetUpMessage(tag) == message' = [message EXCEPT ![top] = [EmptyMessage EXCEPT !.tag = tag]]

WaitWhileFull ==
  /\ Top.pc = "full"
  /\ Len(requests) < RequestDepth
  /\ Goto("write")
  /\ UNCHANGED <<message, requests, serving, replies, other_words>>

WriteRequest ==
  /\ Top.pc = "write"
  /\ requests' = Append(requests, top)
  /\ Goto("empty")
  /\ UNCHANGED <<message, serving, replies, other_words>>

WaitWhileEmpty ==
  /\ Top.pc = "empty"
  /\ replies # <<>>
  /\ Goto("read")
  /\ UNCHANGED <<message, requests, serving, replies, other_words>>

(* Takes the first word for the reply.                                      *)
ReadReply_first_word ==
  /\ Top.pc = "read"
  /\ replies # <<>>
  /\ replies' = Tail(replies)
  /\ Goto("answered")
  /\ UNCHANGED <<message, requests, serving, other_words>>

(* A word that is not the reply is dropped.                                 *)
ReadReply ==
  /\ Top.pc = "read"
  /\ replies # <<>>
  /\ replies' = Tail(replies)
  /\ Goto(IF Head(replies) = top THEN "answered" ELSE "empty")
  /\ UNCHANGED <<message, requests, serving, other_words>>

Call == WaitWhileFull \/ WriteRequest \/ WaitWhileEmpty \/ ReadReply

(* What vc_mailbox_call_sync returns.                                       *)
Succeeded == message[top].type = RESPONSE

----------------------------------------------------------------------------
(* The firmware: it takes requests in order, answers them in any, fails     *)
(* them, skips a tag it does not know, and sends words of its own.          *)

FirmwareTakes ==
  /\ requests # <<>>
  /\ requests' = Tail(requests)
  /\ serving' = serving \cup {Head(requests)}
  /\ UNCHANGED <<contexts, message, replies, other_words>>

FirmwareReplies(a) ==
  /\ a \in serving
  /\ Len(replies) < ReplyDepth
  /\ serving' = serving \ {a}
  /\ replies' = Append(replies, a)
  /\ \/ message' = [message EXCEPT ![a].type = FAILED]
     \/ message' = [message EXCEPT ![a].type = RESPONSE]
     \/ \E length \in {"short", "complete"} :
          message' = [message EXCEPT ![a].type = RESPONSE, ![a].length = length,
                                     ![a].buffer = message[a].tag]
  /\ UNCHANGED <<contexts, requests, other_words>>

FirmwareSendsOther ==
  /\ other_words < MaxOtherWords
  /\ Len(replies) < ReplyDepth
  /\ replies' = Append(replies, OtherWord)
  /\ other_words' = other_words + 1
  /\ UNCHANGED <<contexts, message, requests, serving>>

Firmware ==
  \/ FirmwareTakes
  \/ \E a \in Addresses : FirmwareReplies(a)
  \/ FirmwareSendsOther

----------------------------------------------------------------------------
Contents(queue) == { queue[i] : i \in DOMAIN queue }

(* Between the read of the status register and the access it allows no      *)
(* interrupting caller has filled or emptied the mailbox.                   *)
StatusIsCurrent ==
  /\ Top.pc = "write" => Len(requests) < RequestDepth
  /\ Top.pc = "read" => replies # <<>>

(* The firmware writes its answer into the caller's stack: as long as it    *)
(* may, that caller has not returned from vc_mailbox_call_sync.             *)
RequestsStayLive ==
  \A a \in Contents(requests) \cup serving :
    /\ a <= top
    /\ contexts[a].pc \in {"empty", "read"}
    /\ message[a].type = REQUEST

(* When the call returns the firmware is done with the message: it has      *)
(* answered it and neither request nor reply is left, which the next call   *)
(* from this frame would take for its own.                                  *)
AnswerIsForThisCall ==
  Top.pc = "answered" =>
    /\ message[top].type # REQUEST
    /\ top \notin Contents(requests) \cup serving \cup Contents(replies)

=============================================================================
