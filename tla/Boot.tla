-------------------------------- MODULE Boot --------------------------------
(***************************************************************************)
(* The boot core from main on (core/start/start.c), and what becomes of it  *)
(* when something goes wrong: exceptions, failed assertions and refused     *)
(* answers all end in debug_panic (lib/debug.c), which uses the mailbox to  *)
(* light the LED and idles. It may interrupt main, or an earlier panic, at  *)
(* any instruction, also in the middle of a mailbox call.                   *)
(*                                                                          *)
(* pmap_vm_init is a single step here; PmapInit and PFA have its inside.    *)
(***************************************************************************)
EXTENDS VCMailbox, FiniteSets

VARIABLES
  tried_set_activity_panic_marker,
  answers            \* main's variables, in the order it asks for them

vars == <<contexts, message, requests, serving, replies, other_words,
          tried_set_activity_panic_marker, answers>>

ARM_MEMORY_REGION == "GET_ARM_MEMORY_REGION"
BOARD_MODEL == "GET_BOARD_MODEL"
FIRMWARE_REVISION == "GET_FIRMWARE_REVISION"
LED_STATUS == "SET_LED_STATUS"
BootTags == {ARM_MEMORY_REGION, BOARD_MODEL, FIRMWARE_REVISION, LED_STATUS}

ASSUME BootAssumption == BootTags \subseteq Tags

(* arm_ram, board_model, board_revision (with the firmware's tag, as the    *)
(* code has it), videocore_fw.                                              *)
Questions == <<ARM_MEMORY_REGION, BOARD_MODEL, FIRMWARE_REVISION, FIRMWARE_REVISION>>

(* Before main zeroes it, the BSS holds anything.                           *)
Init ==
  /\ contexts = << [code |-> "main", pc |-> "entry"] >>
  /\ message = [a \in Addresses |-> EmptyMessage]
  /\ requests = <<>> /\ replies = <<>> /\ serving = {} /\ other_words = 0
  /\ tried_set_activity_panic_marker \in BOOLEAN
  /\ answers = <<>>

----------------------------------------------------------------------------
(* main                                                                     *)

Main(pc) == Top.code = "main" /\ Top.pc = pc

ZeroBss ==
  /\ Main("entry")
  /\ tried_set_activity_panic_marker' = FALSE
  /\ Goto("ask")
  /\ UNCHANGED <<message, requests, serving, replies, other_words, answers>>

Ask ==
  /\ Main("ask")
  /\ Len(answers) < Len(Questions)
  /\ SetUpMessage(Questions[Len(answers) + 1])
  /\ Goto("full")
  /\ UNCHANGED <<requests, serving, replies, other_words,
                 tried_set_activity_panic_marker, answers>>

Accepted == Succeeded /\ message[top].length = "complete"

TakeAnswer ==
  /\ Main("answered")
  /\ Accepted
  /\ answers' = Append(answers, message[top].buffer)
  /\ Goto("ask")
  /\ UNCHANGED <<message, requests, serving, replies, other_words,
                 tried_set_activity_panic_marker>>

pmap_vm_init ==
  /\ Main("ask")
  /\ Len(answers) = Len(Questions)
  /\ Goto("shutdown")
  /\ UNCHANGED <<message, requests, serving, replies, other_words,
                 tried_set_activity_panic_marker, answers>>

pmc_shutdown ==
  /\ Main("shutdown")
  /\ Goto("idle")
  /\ UNCHANGED <<message, requests, serving, replies, other_words,
                 tried_set_activity_panic_marker, answers>>

----------------------------------------------------------------------------
(* Panics                                                                   *)

Panicking(pc) == Top.code = "panic" /\ Top.pc = pc

EnterPanic ==
  /\ contexts' = Append(contexts, [code |-> "panic", pc |-> "marker"])
  /\ UNCHANGED <<message, requests, serving, replies, other_words,
                 tried_set_activity_panic_marker, answers>>

RefuseAnswer ==
  /\ Main("answered")
  /\ ~ Accepted
  /\ top < MaxContexts
  /\ EnterPanic

(* An exception, or an assertion that fails; also out of the idle loop.     *)
Exception ==
  /\ top < MaxContexts
  /\ EnterPanic

TestMarker ==
  /\ Panicking("marker")
  /\ Goto(IF tried_set_activity_panic_marker THEN "idle" ELSE "mark")
  /\ UNCHANGED <<message, requests, serving, replies, other_words,
                 tried_set_activity_panic_marker, answers>>

(* Calls the firmware first and would remember it later.                    *)
SetMarker_after_the_call ==
  /\ Panicking("mark")
  /\ Goto("led")
  /\ UNCHANGED <<message, requests, serving, replies, other_words,
                 tried_set_activity_panic_marker, answers>>

SetMarker ==
  /\ Panicking("mark")
  /\ tried_set_activity_panic_marker' = TRUE
  /\ Goto("led")
  /\ UNCHANGED <<message, requests, serving, replies, other_words, answers>>

vc_functions_set_activity_led ==
  /\ Panicking("led")
  /\ SetUpMessage(LED_STATUS)
  /\ Goto("full")
  /\ UNCHANGED <<requests, serving, replies, other_words,
                 tried_set_activity_panic_marker, answers>>

(* Goes back to what was interrupted.                                       *)
Idle_returns ==
  /\ Panicking("answered")
  /\ contexts' = SubSeq(contexts, 1, top - 1)
  /\ UNCHANGED <<message, requests, serving, replies, other_words,
                 tried_set_activity_panic_marker, answers>>

(* Whether the LED was lit only changes what is printed.                    *)
Idle ==
  /\ Panicking("answered")
  /\ Goto("idle")
  /\ UNCHANGED <<message, requests, serving, replies, other_words,
                 tried_set_activity_panic_marker, answers>>

----------------------------------------------------------------------------
CallStep == Call /\ UNCHANGED <<tried_set_activity_panic_marker, answers>>

Run ==
  \/ ZeroBss \/ Ask \/ CallStep \/ TakeAnswer \/ RefuseAnswer
  \/ pmap_vm_init \/ pmc_shutdown
  \/ TestMarker \/ SetMarker \/ vc_functions_set_activity_led \/ Idle

FirmwareStep == Firmware /\ UNCHANGED <<tried_set_activity_panic_marker, answers>>

Next == Run \/ Exception \/ FirmwareStep

Spec == Init /\ [][Next]_vars

(* The core executes, and the firmware answers what it is asked: the code   *)
(* waits for it without a timeout. While there is no room for its reply the *)
(* firmware may also leave a request where it is, until the core reads.     *)
FairSpec ==
  /\ Spec
  /\ WF_vars(Run)
  /\ WF_vars(/\ FirmwareTakes /\ Len(replies) < ReplyDepth
             /\ UNCHANGED <<tried_set_activity_panic_marker, answers>>)
  /\ \A a \in Addresses :
       WF_vars(FirmwareReplies(a) /\ UNCHANGED <<tried_set_activity_panic_marker, answers>>)

----------------------------------------------------------------------------

(* Every value main goes on with is the firmware's answer to the question   *)
(* it asked, never what an earlier message left in the same stack frame.    *)
AnswersAreToQuestions == \A i \in DOMAIN answers : answers[i] = Questions[i]

(* However panics interrupt each other, also between the test of the marker *)
(* and its being set, a single one of them calls the firmware for the LED:  *)
(* a panic inside that call does not call again.                            *)
AsksForLed(i) == contexts[i].code = "panic" /\ message[i].tag = LED_STATUS

OneLedAttempt == Cardinality({ i \in 1 .. top : AsksForLed(i) }) <= 1

(* The boot ends, in pmc_shutdown or in a panic, with the core idle: it is  *)
(* never stuck waiting for room or for a reply, also where a panic took the *)
(* interrupted call's reply out of the mailbox or left its own request, and *)
(* not where the replies are full of words that only a call still to be     *)
(* written would read: the core never waits for the firmware to take a      *)
(* request while the firmware waits for it to read a reply.                 *)
BootSettles == <>[](Top.pc = "idle")

=============================================================================
