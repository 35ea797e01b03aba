---------------------------- MODULE Boot_proofs ----------------------------
(* Theorems about Boot and the mailbox for any number of nested panics, any *)
(* depth of the mailbox and any number of words for nobody. One inductive   *)
(* invariant has the life of a message: its caller waits as long as its     *)
(* address is in the mailbox or with the firmware, and it is there once.    *)
EXTENDS Boot, SequenceTheorems, FiniteSetTheorems, TLAPS

CallPlaces == {"full", "write", "empty", "read", "answered"}

Context ==
  [code : {"main"}, pc : {"entry", "ask", "shutdown", "idle"} \cup CallPlaces]
  \cup [code : {"panic"}, pc : {"marker", "mark", "led", "idle"} \cup CallPlaces]

Message == [tag : BootTags \cup {NoTag}, type : {REQUEST, RESPONSE, FAILED},
            length : Lengths, buffer : BootTags \cup {NoTag}]

Typed ==
  /\ contexts \in Seq(Context) /\ top \in Addresses
  /\ message \in [Addresses -> Message]
  /\ requests \in Seq(Addresses)
  /\ serving \in SUBSET Addresses
  /\ replies \in Seq(Addresses \cup {OtherWord})
  /\ tried_set_activity_panic_marker \in BOOLEAN
  /\ answers \in Seq(BootTags)

(* No address is in a queue twice; a word for nobody may be.                *)
Distinct(queue) ==
  \A i, j \in DOMAIN queue : queue[i] = queue[j] /\ queue[i] # OtherWord => i = j

AtFirmware == Contents(requests) \cup serving

(* The firmware or the mailbox has the address of a message only while the  *)
(* call that sent it waits, and the message says how far it is.             *)
Mail ==
  /\ Distinct(requests) /\ Distinct(replies)
  /\ Contents(requests) \cap serving = {}
  /\ \A a \in AtFirmware \cup (Contents(replies) \ {OtherWord}) :
       /\ a \in 1 .. top /\ contexts[a].pc \in {"empty", "read"}
       /\ a \in AtFirmware => message[a].type = REQUEST
       /\ a \in Contents(replies) => message[a].type # REQUEST
  /\ \A i \in 1 .. top :
       /\ contexts[i].pc \in {"full", "write"} => message[i].type = REQUEST
       /\ contexts[i].pc = "answered" => message[i].type # REQUEST

(* main is at the bottom; a message that has an answer has it to its tag,   *)
(* and main's message asks for what it has no answer to yet.                *)
Asking ==
  /\ \A i \in 1 .. top : contexts[i].code = "main" <=> i = 1
  /\ \A a \in Addresses : message[a].length # "zero" => message[a].buffer = message[a].tag
  /\ contexts[1].pc \in CallPlaces =>
       Len(answers) < Len(Questions) /\ message[1].tag = Questions[Len(answers) + 1]
  /\ Len(answers) <= Len(Questions)
  /\ AnswersAreToQuestions

(* A panic that has asked for the LED has set the marker before, and one    *)
(* that is about to ask is the first.                                       *)
Led ==
  /\ \A i \in 1 .. top : contexts[i].pc \in {"marker", "mark", "led"} => ~ AsksForLed(i)
  /\ \A a \in Addresses : a > top => message[a].tag # LED_STATUS
  /\ \A i \in 1 .. top : AsksForLed(i) \/ contexts[i].pc = "led" =>
       tried_set_activity_panic_marker
  /\ Top.pc \in {"mark", "led"} => \A i \in 1 .. top : ~ AsksForLed(i)
  /\ \A i, j \in 1 .. top : AsksForLed(i) /\ AsksForLed(j) => i = j

IInv == Typed /\ StatusIsCurrent /\ Mail /\ Asking /\ Led

----------------------------------------------------------------------------
(* Queues and the stack                                                     *)

(* Appending an address that a queue does not have, or a word for nobody.   *)
LEMMA AppendWord ==
  ASSUME NEW W, NEW q \in Seq(W), NEW w \in W, Distinct(q),
         w \notin Contents(q) \/ w = OtherWord
  PROVE  /\ Append(q, w) \in Seq(W)
         /\ Contents(Append(q, w)) = Contents(q) \cup {w}
         /\ Distinct(Append(q, w))
<1> DEFINE r == Append(q, w)
<1>1. /\ r \in Seq(W) /\ Len(q) \in Nat /\ Len(r) = Len(q) + 1
      /\ DOMAIN q = 1 .. Len(q) /\ DOMAIN r = 1 .. Len(q) + 1
      /\ \A i \in 1 .. Len(q) : r[i] = q[i]
      /\ r[Len(q) + 1] = w
  BY AppendProperties
<1> HIDE DEF r
<1>2. Contents(r) = Contents(q) \cup {w}
  BY <1>1 DEF Contents
<1>3. Distinct(r)
  BY <1>1 DEF Distinct, Contents
<1> QED
  BY <1>1, <1>2, <1>3 DEF r

(* What taking the first word leaves.                                       *)
LEMMA TakeWord ==
  ASSUME NEW W, NEW q \in Seq(W), q # <<>>, Distinct(q)
  PROVE  /\ Tail(q) \in Seq(W) /\ Head(q) \in W
         /\ Contents(q) = {Head(q)} \cup Contents(Tail(q))
         /\ Head(q) # OtherWord => Head(q) \notin Contents(Tail(q))
         /\ Distinct(Tail(q))
         /\ Len(Tail(q)) < Len(q)
<1> DEFINE r == Tail(q)
<1>1. /\ r \in Seq(W) /\ Len(q) \in Nat \ {0} /\ Len(r) = Len(q) - 1
      /\ DOMAIN q = 1 .. Len(q) /\ DOMAIN r = 1 .. Len(q) - 1
      /\ \A i \in 1 .. Len(q) - 1 : r[i] = q[i + 1]
      /\ Head(q) = q[1] /\ q[1] \in W
  BY HeadTailProperties, EmptySeq
<1> HIDE DEF r
<1>2. \A i \in DOMAIN q : i # 1 => i - 1 \in DOMAIN r /\ q[i] = r[i - 1]
  BY <1>1
<1>3. \A i \in DOMAIN r : i + 1 \in DOMAIN q /\ r[i] = q[i + 1] /\ i + 1 # 1
  BY <1>1
<1>4. Contents(q) = {q[1]} \cup Contents(r)
  <2>1. 1 \in DOMAIN q
    BY <1>1
  <2> QED
    BY <1>2, <1>3, <2>1 DEF Contents
<1>5. Head(q) # OtherWord => q[1] \notin Contents(r)
  <2>1. 1 \in DOMAIN q
    BY <1>1
  <2> QED
    BY <1>1, <1>3, <2>1 DEF Contents, Distinct
<1>6. Distinct(r)
  <2> SUFFICES ASSUME NEW i \in DOMAIN r, NEW j \in DOMAIN r, r[i] = r[j], r[i] # OtherWord
               PROVE  i = j
    BY DEF Distinct
  <2>1. i + 1 = j + 1
    BY <1>3 DEF Distinct
  <2> QED
    BY <1>1, <2>1
<1> QED
  BY <1>1, <1>4, <1>5, <1>6 DEF r

(* The running context moves on.                                            *)
LEMMA GotoStep ==
  ASSUME Typed, NEW pc, Goto(pc), [code |-> Top.code, pc |-> pc] \in Context
  PROVE  /\ contexts' \in Seq(Context) /\ top' = top
         /\ \A i \in 1 .. top : contexts'[i].pc = IF i = top THEN pc ELSE contexts[i].pc
         /\ \A i \in 1 .. top : contexts'[i].code = contexts[i].code
<1>1. contexts \in Seq(Context) /\ top \in Nat \ {0} /\ top \in 1 .. Len(contexts)
      /\ DOMAIN contexts = 1 .. top
  BY MailboxAssumption DEF Typed, top, Addresses
<1> DEFINE new == [code |-> Top.code, pc |-> pc]
<1>2. Top \in Context
  BY <1>1, ElementOfSeq DEF Top
<1>3. [Top EXCEPT !.pc = pc] = new
  BY <1>2 DEF Context
<1>4. contexts' = [contexts EXCEPT ![top] = new]
  BY <1>3 DEF Goto, Top
<1> HIDE DEF new
<1>5. contexts' \in Seq(Context) /\ Len(contexts') = Len(contexts)
      /\ \A i \in 1 .. top : contexts'[i] = IF i = top THEN new ELSE contexts[i]
  BY <1>1, <1>4, ExceptSeq DEF new, top
<1> QED
  BY <1>5 DEF new, top, Top

(* A panic begins on top of what it interrupts.                             *)
LEMMA PushStep ==
  ASSUME Typed, EnterPanic, top < MaxContexts
  PROVE  /\ contexts' \in Seq(Context) /\ top' = top + 1 /\ top' \in Addresses
         /\ \A i \in 1 .. top : contexts'[i] = contexts[i]
         /\ contexts'[top'].pc = "marker" /\ contexts'[top'].code = "panic"
<1> DEFINE new == [code |-> "panic", pc |-> "marker"]
<1>1. contexts \in Seq(Context) /\ new \in Context /\ contexts' = Append(contexts, new)
  BY DEF Typed, Context, EnterPanic
<1> HIDE DEF new
<1>2. contexts' \in Seq(Context) /\ Len(contexts') = Len(contexts) + 1
      /\ contexts'[Len(contexts) + 1] = new
      /\ \A i \in 1 .. Len(contexts) : contexts'[i] = contexts[i]
  BY <1>1, AppendProperties
<1>3. top \in Nat /\ top + 1 \in Addresses
  BY MailboxAssumption DEF Typed, Addresses
<1> QED
  BY <1>2, <1>3 DEF new, top

(* Where a context of each kind can be.                                     *)
LEMMA Places ==
  ASSUME Typed
  PROVE  /\ top \in Nat \ {0} /\ 1 \in 1 .. top /\ top \in 1 .. top
         /\ \A i \in 1 .. top : i \in Addresses /\ contexts[i].code \in {"main", "panic"}
         /\ \A pc \in CallPlaces \cup {"idle"} : [code |-> Top.code, pc |-> pc] \in Context
         /\ Top.code = "main" =>
              /\ Top.pc \in {"entry", "ask", "shutdown", "idle"} \cup CallPlaces
              /\ \A pc \in {"entry", "ask", "shutdown"} : [code |-> Top.code, pc |-> pc] \in Context
         /\ Top.code = "panic" =>
              /\ Top.pc \in {"marker", "mark", "led", "idle"} \cup CallPlaces
              /\ \A pc \in {"marker", "mark", "led"} : [code |-> Top.code, pc |-> pc] \in Context
<1>1. contexts \in Seq(Context) /\ top \in Nat \ {0} /\ top <= MaxContexts /\ top = Len(contexts)
  BY MailboxAssumption DEF Typed, top, Addresses
<1>2. \A i \in 1 .. top : i \in Addresses /\ contexts[i] \in Context
  BY <1>1, ElementOfSeq, MailboxAssumption DEF Addresses
<1>3. Top \in Context
  BY <1>1, <1>2 DEF Top
<1> QED
  BY <1>1, <1>2, <1>3 DEF Context

----------------------------------------------------------------------------
(* The kernel's steps                                                       *)

(* A caller finds the status it waits for.                                  *)
LEMMA WaitStep ==
  ASSUME IInv, WaitWhileFull \/ WaitWhileEmpty,
         UNCHANGED <<tried_set_activity_panic_marker, answers>>
  PROVE  IInv'
<1> USE DEF CallPlaces
<1>1. PICK pc \in {"write", "read"} :
        /\ Goto(pc)
        /\ Top.pc = IF pc = "write" THEN "full" ELSE "empty"
        /\ IF pc = "write" THEN Len(requests) < RequestDepth ELSE replies # <<>>
        /\ UNCHANGED <<message, requests, serving, replies>>
  BY DEF WaitWhileFull, WaitWhileEmpty
<1>2. /\ contexts' \in Seq(Context) /\ top' = top
      /\ \A i \in 1 .. top : contexts'[i].pc = IF i = top THEN pc ELSE contexts[i].pc
      /\ \A i \in 1 .. top : contexts'[i].code = contexts[i].code
  BY <1>1, GotoStep, Places DEF IInv
<1>3. top \in 1 .. top /\ 1 \in 1 .. top
  BY Places DEF IInv
<1>4. Typed'
  BY <1>1, <1>2 DEF IInv, Typed
<1>5. StatusIsCurrent'
  BY <1>1, <1>2, <1>3 DEF StatusIsCurrent, Top
<1>6. Mail'
  <2>1. /\ Contents(requests)' = Contents(requests) /\ Contents(replies)' = Contents(replies)
        /\ Distinct(requests)' /\ Distinct(replies)'
    BY <1>1 DEF IInv, Mail, Contents, Distinct
  <2> QED
    BY <1>1, <1>2, <1>3, <2>1 DEF IInv, Mail, AtFirmware, Top
<1>7. Asking'
  BY <1>1, <1>2, <1>3 DEF IInv, Asking, AnswersAreToQuestions, Top
<1>8. Led'
  BY <1>1, <1>2, <1>3 DEF IInv, Led, AsksForLed, Top
<1> QED
  BY <1>4, <1>5, <1>6, <1>7, <1>8 DEF IInv

(* The request goes out: its address is nowhere else.                       *)
LEMMA WriteRequestStep ==
  ASSUME IInv, WriteRequest, UNCHANGED <<tried_set_activity_panic_marker, answers>>
  PROVE  IInv'
<1> USE DEF CallPlaces
<1>1. /\ Goto("empty") /\ Top.pc = "write"
      /\ requests' = Append(requests, top)
      /\ UNCHANGED <<message, serving, replies>>
  BY DEF WriteRequest
<1>2. /\ contexts' \in Seq(Context) /\ top' = top
      /\ \A i \in 1 .. top : contexts'[i].pc = IF i = top THEN "empty" ELSE contexts[i].pc
      /\ \A i \in 1 .. top : contexts'[i].code = contexts[i].code
  BY <1>1, GotoStep, Places DEF IInv
<1>3. top \in 1 .. top /\ 1 \in 1 .. top /\ top \in Addresses
  BY Places DEF IInv
<1>4. top \notin AtFirmware /\ top \notin Contents(replies) /\ message[top].type = REQUEST
  <2>1. top # OtherWord
    BY <1>3, MailboxAssumption DEF Addresses, OtherWord
  <2> QED
    BY <1>1, <1>3, <2>1 DEF IInv, Mail, Top
<1>5. /\ requests' \in Seq(Addresses) /\ Distinct(requests')
      /\ Contents(requests') = Contents(requests) \cup {top}
  BY <1>1, <1>3, <1>4, AppendWord DEF IInv, Typed, Mail, AtFirmware
<1>6. Contents(replies)' = Contents(replies) /\ Distinct(replies)' /\ Distinct(requests)'
      /\ Contents(requests)' = Contents(requests) \cup {top}
  BY <1>1, <1>5 DEF IInv, Mail, Contents, Distinct
<1>7. Typed'
  BY <1>1, <1>2, <1>5 DEF IInv, Typed
<1>8. StatusIsCurrent'
  BY <1>2, <1>3 DEF StatusIsCurrent, Top
<1>9. Mail'
  <2>1. /\ \A a \in AtFirmware \cup (Contents(replies) \ {OtherWord}) :
             /\ a \in 1 .. top /\ contexts[a].pc \in {"empty", "read"}
             /\ a \in AtFirmware => message[a].type = REQUEST
             /\ a \in Contents(replies) => message[a].type # REQUEST
        /\ \A i \in 1 .. top :
             /\ contexts[i].pc \in {"full", "write"} => message[i].type = REQUEST
             /\ contexts[i].pc = "answered" => message[i].type # REQUEST
        /\ Contents(requests) \cap serving = {}
    BY DEF IInv, Mail
  <2>2. AtFirmware' = AtFirmware \cup {top}
    BY <1>1, <1>6 DEF AtFirmware
  <2>3. (\A a \in AtFirmware \cup (Contents(replies) \ {OtherWord}) :
             /\ a \in 1 .. top /\ contexts[a].pc \in {"empty", "read"}
             /\ a \in AtFirmware => message[a].type = REQUEST
             /\ a \in Contents(replies) => message[a].type # REQUEST)'
    BY <1>1, <1>2, <1>3, <1>4, <1>6, <2>1, <2>2
  <2>4. (\A i \in 1 .. top :
             /\ contexts[i].pc \in {"full", "write"} => message[i].type = REQUEST
             /\ contexts[i].pc = "answered" => message[i].type # REQUEST)'
    BY <1>1, <1>2, <2>1
  <2>5. (Contents(requests) \cap serving = {})'
    BY <1>1, <1>4, <1>6, <2>1 DEF AtFirmware
  <2> QED
    BY <1>6, <2>3, <2>4, <2>5 DEF Mail
<1>10. Asking'
  BY <1>1, <1>2, <1>3 DEF IInv, Asking, AnswersAreToQuestions, Top
<1>11. Led'
  <2>1. \A i \in 1 .. top : AsksForLed(i)' <=> AsksForLed(i)
    BY <1>1, <1>2 DEF AsksForLed
  <2>2. Top'.pc = contexts'[top].pc
    BY <1>2 DEF Top
  <2>3. \A i \in 1 .. top : contexts'[i].pc \in {"marker", "mark", "led"} => contexts'[i].pc = contexts[i].pc
    BY <1>2
  <2>4. /\ \A i \in 1 .. top : contexts[i].pc \in {"marker", "mark", "led"} => ~ AsksForLed(i)
        /\ \A a \in Addresses : a > top => message[a].tag # LED_STATUS
        /\ \A i \in 1 .. top : AsksForLed(i) \/ contexts[i].pc = "led" =>
             tried_set_activity_panic_marker
        /\ \A i, j \in 1 .. top : AsksForLed(i) /\ AsksForLed(j) => i = j
    BY DEF IInv, Led
  <2>5. (\A i \in 1 .. top : contexts[i].pc \in {"marker", "mark", "led"} => ~ AsksForLed(i))'
    BY <1>2, <2>1, <2>3, <2>4
  <2>6. (\A a \in Addresses : a > top => message[a].tag # LED_STATUS)'
    BY <1>1, <1>2, <2>4
  <2>7. (\A i \in 1 .. top : AsksForLed(i) \/ contexts[i].pc = "led" =>
             tried_set_activity_panic_marker)'
    BY <1>2, <2>1, <2>3, <2>4
  <2>8. (Top.pc \in {"mark", "led"} => \A i \in 1 .. top : ~ AsksForLed(i))'
    BY <1>2, <1>3, <2>2, <1>1
  <2>9. (\A i, j \in 1 .. top : AsksForLed(i) /\ AsksForLed(j) => i = j)'
    BY <1>2, <2>1, <2>4
  <2> QED
    BY <2>5, <2>6, <2>7, <2>8, <2>9 DEF Led
<1> QED
  BY <1>7, <1>8, <1>9, <1>10, <1>11 DEF IInv

(* A word is read: the reply to this call, or one that is dropped.          *)
LEMMA ReadReplyStep ==
  ASSUME IInv, ReadReply, UNCHANGED <<tried_set_activity_panic_marker, answers>>
  PROVE  IInv'
<1> USE DEF CallPlaces
<1>1. PICK pc \in {"answered", "empty"} :
        /\ Goto(pc) /\ Top.pc = "read"
        /\ pc = "answered" <=> Head(replies) = top
        /\ replies # <<>> /\ replies' = Tail(replies)
        /\ UNCHANGED <<message, requests, serving>>
  BY DEF ReadReply
<1>2. /\ contexts' \in Seq(Context) /\ top' = top
      /\ \A i \in 1 .. top : contexts'[i].pc = IF i = top THEN pc ELSE contexts[i].pc
      /\ \A i \in 1 .. top : contexts'[i].code = contexts[i].code
  BY <1>1, GotoStep, Places DEF IInv
<1>3. top \in 1 .. top /\ 1 \in 1 .. top /\ top # OtherWord
  BY Places DEF IInv, OtherWord
<1>4. /\ replies' \in Seq(Addresses \cup {OtherWord}) /\ Distinct(replies')
      /\ Contents(replies) = {Head(replies)} \cup Contents(replies')
      /\ Head(replies) # OtherWord => Head(replies) \notin Contents(replies')
  BY <1>1, TakeWord DEF IInv, Typed, Mail
<1>5. Contents(requests)' = Contents(requests) /\ Distinct(requests)' /\ Distinct(replies)'
      /\ Contents(replies)' = Contents(replies')
  BY <1>1, <1>4 DEF IInv, Mail, Contents, Distinct
<1>6. pc = "answered" =>
        /\ message[top].type # REQUEST
        /\ top \notin AtFirmware /\ top \notin Contents(replies')
  BY <1>1, <1>3, <1>4 DEF IInv, Mail
<1>7. Typed'
  BY <1>1, <1>2, <1>4 DEF IInv, Typed
<1>8. StatusIsCurrent'
  BY <1>2, <1>3 DEF StatusIsCurrent, Top
<1>9. Mail'
  <2>1. /\ \A a \in AtFirmware \cup (Contents(replies) \ {OtherWord}) :
             /\ a \in 1 .. top /\ contexts[a].pc \in {"empty", "read"}
             /\ a \in AtFirmware => message[a].type = REQUEST
             /\ a \in Contents(replies) => message[a].type # REQUEST
        /\ \A i \in 1 .. top :
             /\ contexts[i].pc \in {"full", "write"} => message[i].type = REQUEST
             /\ contexts[i].pc = "answered" => message[i].type # REQUEST
        /\ Contents(requests) \cap serving = {}
    BY DEF IInv, Mail
  <2>2. AtFirmware' = AtFirmware
    BY <1>1, <1>5 DEF AtFirmware
  <2>3. \A a \in AtFirmware \cup (Contents(replies') \ {OtherWord}) : a # top \/ pc = "empty"
    BY <1>6
  <2>4. (\A a \in AtFirmware \cup (Contents(replies) \ {OtherWord}) :
             /\ a \in 1 .. top /\ contexts[a].pc \in {"empty", "read"}
             /\ a \in AtFirmware => message[a].type = REQUEST
             /\ a \in Contents(replies) => message[a].type # REQUEST)'
    BY <1>1, <1>2, <1>4, <1>5, <2>1, <2>2, <2>3
  <2>5. (\A i \in 1 .. top :
             /\ contexts[i].pc \in {"full", "write"} => message[i].type = REQUEST
             /\ contexts[i].pc = "answered" => message[i].type # REQUEST)'
    BY <1>1, <1>2, <1>6, <2>1
  <2>6. (Contents(requests) \cap serving = {})'
    BY <1>1, <1>5, <2>1
  <2> QED
    BY <1>5, <2>4, <2>5, <2>6 DEF Mail
<1>10. Asking'
  BY <1>1, <1>2, <1>3 DEF IInv, Asking, AnswersAreToQuestions, Top
<1>11. Led'
  <2>1. \A i \in 1 .. top : AsksForLed(i)' <=> AsksForLed(i)
    BY <1>1, <1>2 DEF AsksForLed
  <2>2. Top'.pc = contexts'[top].pc
    BY <1>2 DEF Top
  <2>3. \A i \in 1 .. top : contexts'[i].pc \in {"marker", "mark", "led"} => contexts'[i].pc = contexts[i].pc
    BY <1>2
  <2>4. /\ \A i \in 1 .. top : contexts[i].pc \in {"marker", "mark", "led"} => ~ AsksForLed(i)
        /\ \A a \in Addresses : a > top => message[a].tag # LED_STATUS
        /\ \A i \in 1 .. top : AsksForLed(i) \/ contexts[i].pc = "led" =>
             tried_set_activity_panic_marker
        /\ \A i, j \in 1 .. top : AsksForLed(i) /\ AsksForLed(j) => i = j
    BY DEF IInv, Led
  <2>5. (\A i \in 1 .. top : contexts[i].pc \in {"marker", "mark", "led"} => ~ AsksForLed(i))'
    BY <1>2, <2>1, <2>3, <2>4
  <2>6. (\A a \in Addresses : a > top => message[a].tag # LED_STATUS)'
    BY <1>1, <1>2, <2>4
  <2>7. (\A i \in 1 .. top : AsksForLed(i) \/ contexts[i].pc = "led" =>
             tried_set_activity_panic_marker)'
    BY <1>2, <2>1, <2>3, <2>4
  <2>8. (Top.pc \in {"mark", "led"} => \A i \in 1 .. top : ~ AsksForLed(i))'
    BY <1>2, <1>3, <2>2, <1>1
  <2>9. (\A i, j \in 1 .. top : AsksForLed(i) /\ AsksForLed(j) => i = j)'
    BY <1>2, <2>1, <2>4
  <2> QED
    BY <2>5, <2>6, <2>7, <2>8, <2>9 DEF Led
<1> QED
  BY <1>7, <1>8, <1>9, <1>10, <1>11 DEF IInv

(* main and panics between calls: a step that leaves mailbox, messages,     *)
(* marker and answers alone and does not enter a call.                      *)
LEMMA PlainStep ==
  ASSUME IInv, NEW pc \in {"ask", "shutdown", "mark", "idle"}, Goto(pc),
         [code |-> Top.code, pc |-> pc] \in Context,
         UNCHANGED <<message, requests, serving, replies, tried_set_activity_panic_marker>>,
         Top.pc \notin {"empty", "read"},
         pc = "mark" => Top.pc = "marker" /\ ~ tried_set_activity_panic_marker,
         answers' \in Seq(BootTags), Asking'
  PROVE  IInv'
<1>2. /\ contexts' \in Seq(Context) /\ top' = top
      /\ \A i \in 1 .. top : contexts'[i].pc = IF i = top THEN pc ELSE contexts[i].pc
      /\ \A i \in 1 .. top : contexts'[i].code = contexts[i].code
  BY GotoStep DEF IInv
<1>3. top \in 1 .. top /\ 1 \in 1 .. top
  BY Places DEF IInv
<1>4. Typed'
  BY <1>2 DEF IInv, Typed
<1>5. StatusIsCurrent'
  BY <1>2, <1>3 DEF StatusIsCurrent, Top
<1>6. Mail'
  <2>1. /\ Contents(requests)' = Contents(requests) /\ Contents(replies)' = Contents(replies)
        /\ Distinct(requests)' /\ Distinct(replies)'
    BY DEF IInv, Mail, Contents, Distinct
  <2> QED
    BY <1>2, <1>3, <2>1 DEF IInv, Mail, AtFirmware, Top
<1>8. Led'
  BY <1>2, <1>3 DEF IInv, Led, AsksForLed, Top
<1> QED
  BY <1>4, <1>5, <1>6, <1>8 DEF IInv

(* The questions are tags.                                                  *)
LEMMA QuestionsTyped ==
  Questions \in Seq(BootTags) /\ Len(Questions) = 4 /\ NoTag \notin BootTags
  BY MailboxAssumption, BootAssumption DEF Questions, BootTags

(* main takes an answer: the firmware has filled in what was asked for.     *)
LEMMA TakeAnswerStep ==
  ASSUME IInv, TakeAnswer
  PROVE  IInv'
<1> USE DEF CallPlaces
<1>1. /\ Top.code = "main" /\ Top.pc = "answered" /\ Goto("ask")
      /\ message[top].length = "complete"
      /\ answers' = Append(answers, message[top].buffer)
      /\ UNCHANGED <<message, requests, serving, replies, tried_set_activity_panic_marker>>
  BY DEF TakeAnswer, Main, Accepted
<1>2. [code |-> Top.code, pc |-> "ask"] \in Context /\ 1 \in 1 .. top /\ top \in 1 .. top
      /\ top \in Addresses
  BY <1>1, Places DEF IInv
<1>3. top = 1
  BY <1>1, <1>2 DEF IInv, Asking, Top
<1>4. /\ contexts' \in Seq(Context) /\ top' = top
      /\ \A i \in 1 .. top : contexts'[i].pc = IF i = top THEN "ask" ELSE contexts[i].pc
      /\ \A i \in 1 .. top : contexts'[i].code = contexts[i].code
  BY <1>1, <1>2, GotoStep DEF IInv
<1>5. /\ message[1].buffer = Questions[Len(answers) + 1] /\ Len(answers) < Len(Questions)
  BY <1>1, <1>2, <1>3 DEF IInv, Asking, Top
<1>6. message[1].buffer \in BootTags
  <2>1. Len(answers) \in Nat /\ Len(answers) + 1 \in 1 .. Len(Questions)
    BY <1>5, QuestionsTyped DEF IInv, Typed
  <2> QED
    BY <1>5, <2>1, QuestionsTyped, ElementOfSeq
<1>7. /\ answers' \in Seq(BootTags) /\ Len(answers') = Len(answers) + 1 /\ Len(answers) \in Nat
      /\ DOMAIN answers = 1 .. Len(answers) /\ DOMAIN answers' = 1 .. Len(answers) + 1
      /\ \A i \in 1 .. Len(answers) : answers'[i] = answers[i]
      /\ answers'[Len(answers) + 1] = message[1].buffer
  BY <1>1, <1>3, <1>6, AppendProperties DEF IInv, Typed
<1>8. AnswersAreToQuestions'
  BY <1>5, <1>7 DEF IInv, Asking, AnswersAreToQuestions, Questions
<1>9. Asking'
  BY <1>1, <1>2, <1>3, <1>4, <1>5, <1>7, <1>8, QuestionsTyped DEF IInv, Asking, Questions
<1> QED
  BY <1>1, <1>2, <1>7, <1>9, PlainStep

(* Steps of main and of panics that ask nothing.                            *)
LEMMA QuietStep ==
  ASSUME IInv, pmap_vm_init \/ pmc_shutdown \/ TestMarker \/ Idle
  PROVE  IInv'
<1> USE DEF CallPlaces
<1>1. PICK pc \in {"shutdown", "idle", "mark"} :
        /\ Goto(pc)
        /\ [code |-> Top.code, pc |-> pc] \in Context
        /\ Top.pc \notin {"empty", "read"}
        /\ pc = "mark" => Top.pc = "marker" /\ ~ tried_set_activity_panic_marker
        /\ UNCHANGED <<message, requests, serving, replies, tried_set_activity_panic_marker,
                       answers>>
  <2>1. CASE pmap_vm_init
    BY <2>1, Places DEF IInv, pmap_vm_init, Main
  <2>2. CASE pmc_shutdown
    BY <2>2, Places DEF IInv, pmc_shutdown, Main
  <2>3. CASE TestMarker
    BY <2>3, Places DEF IInv, TestMarker, Panicking
  <2>4. CASE Idle
    BY <2>4, Places DEF IInv, Idle, Panicking
  <2> QED
    BY <2>1, <2>2, <2>3, <2>4
<1>2. /\ top' = top /\ 1 \in 1 .. top
      /\ \A i \in 1 .. top : contexts'[i].pc = IF i = top THEN pc ELSE contexts[i].pc
      /\ \A i \in 1 .. top : contexts'[i].code = contexts[i].code
  BY <1>1, GotoStep, Places DEF IInv
<1>3. Asking'
  BY <1>1, <1>2 DEF IInv, Asking, AnswersAreToQuestions
<1> QED
  BY <1>1, <1>3, PlainStep DEF IInv, Typed

(* main zeroes the BSS: nothing has panicked, or main would not run.        *)
LEMMA ZeroBssStep ==
  ASSUME IInv, ZeroBss
  PROVE  IInv'
<1> USE DEF CallPlaces
<1>1. /\ Top.code = "main" /\ Top.pc = "entry" /\ Goto("ask")
      /\ tried_set_activity_panic_marker' = FALSE
      /\ UNCHANGED <<message, requests, serving, replies, answers>>
  BY DEF ZeroBss, Main
<1>2. [code |-> Top.code, pc |-> "ask"] \in Context /\ 1 \in 1 .. top /\ top \in 1 .. top
  BY <1>1, Places DEF IInv
<1>3. top = 1
  BY <1>1, <1>2 DEF IInv, Asking, Top
<1>4. /\ contexts' \in Seq(Context) /\ top' = top
      /\ \A i \in 1 .. top : contexts'[i].pc = IF i = top THEN "ask" ELSE contexts[i].pc
      /\ \A i \in 1 .. top : contexts'[i].code = contexts[i].code
  BY <1>1, <1>2, GotoStep DEF IInv
<1>5. Typed'
  BY <1>1, <1>4 DEF IInv, Typed
<1>6. StatusIsCurrent'
  BY <1>2, <1>4 DEF StatusIsCurrent, Top
<1>7. Mail'
  <2>1. /\ Contents(requests)' = Contents(requests) /\ Contents(replies)' = Contents(replies)
        /\ Distinct(requests)' /\ Distinct(replies)'
    BY <1>1 DEF IInv, Mail, Contents, Distinct
  <2> QED
    BY <1>1, <1>2, <1>4, <2>1 DEF IInv, Mail, AtFirmware, Top
<1>8. Asking'
  BY <1>1, <1>2, <1>4 DEF IInv, Asking, AnswersAreToQuestions
<1>9. Led'
  <2>1. \A i \in 1 .. top : contexts'[i].code = "main" /\ contexts'[i].pc = "ask"
    BY <1>1, <1>3, <1>4 DEF Top
  <2> QED
    BY <1>1, <1>2, <1>4, <2>1 DEF IInv, Led, AsksForLed, Top
<1> QED
  BY <1>5, <1>6, <1>7, <1>8, <1>9 DEF IInv

(* The panic marks that the LED is tried, before it tries.                  *)
LEMMA SetMarkerStep ==
  ASSUME IInv, SetMarker
  PROVE  IInv'
<1> USE DEF CallPlaces
<1>1. /\ Top.code = "panic" /\ Top.pc = "mark" /\ Goto("led")
      /\ tried_set_activity_panic_marker' = TRUE
      /\ UNCHANGED <<message, requests, serving, replies, answers>>
  BY DEF SetMarker, Panicking
<1>2. [code |-> Top.code, pc |-> "led"] \in Context /\ 1 \in 1 .. top /\ top \in 1 .. top
  BY <1>1, Places DEF IInv
<1>4. /\ contexts' \in Seq(Context) /\ top' = top
      /\ \A i \in 1 .. top : contexts'[i].pc = IF i = top THEN "led" ELSE contexts[i].pc
      /\ \A i \in 1 .. top : contexts'[i].code = contexts[i].code
  BY <1>1, <1>2, GotoStep DEF IInv
<1>5. Typed'
  BY <1>1, <1>4 DEF IInv, Typed
<1>6. StatusIsCurrent'
  BY <1>2, <1>4 DEF StatusIsCurrent, Top
<1>7. Mail'
  <2>1. /\ Contents(requests)' = Contents(requests) /\ Contents(replies)' = Contents(replies)
        /\ Distinct(requests)' /\ Distinct(replies)'
    BY <1>1 DEF IInv, Mail, Contents, Distinct
  <2> QED
    BY <1>1, <1>2, <1>4, <2>1 DEF IInv, Mail, AtFirmware, Top
<1>8. Asking'
  BY <1>1, <1>2, <1>4 DEF IInv, Asking, AnswersAreToQuestions, Top
<1>9. Led'
  BY <1>1, <1>2, <1>4 DEF IInv, Led, AsksForLed, Top
<1> QED
  BY <1>5, <1>6, <1>7, <1>8, <1>9 DEF IInv

(* A call begins: the message is made anew, with nothing of it left in the  *)
(* mailbox.                                                                 *)
LEMMA AskStep ==
  ASSUME IInv, Ask \/ vc_functions_set_activity_led
  PROVE  IInv'
<1> USE DEF CallPlaces
<1>1. PICK tag \in BootTags :
        /\ SetUpMessage(tag) /\ Goto("full")
        /\ UNCHANGED <<requests, serving, replies, tried_set_activity_panic_marker, answers>>
        /\ \/ /\ Top.code = "main" /\ Top.pc = "ask"
              /\ Len(answers) < Len(Questions) /\ tag = Questions[Len(answers) + 1]
           \/ Top.code = "panic" /\ Top.pc = "led" /\ tag = LED_STATUS
  <2>1. CASE Ask
    <3>1. Len(answers) \in Nat /\ Len(answers) + 1 \in 1 .. Len(Questions)
      BY <2>1, QuestionsTyped DEF Ask, IInv, Typed
    <3>2. Questions[Len(answers) + 1] \in BootTags
      BY <3>1, QuestionsTyped, ElementOfSeq
    <3> QED
      BY <2>1, <3>2 DEF Ask, Main
  <2>2. CASE vc_functions_set_activity_led
    BY <2>2 DEF vc_functions_set_activity_led, Panicking, BootTags
  <2> QED
    BY <2>1, <2>2
<1>2. top \in 1 .. top /\ 1 \in 1 .. top /\ top \in Addresses
      /\ \A i \in 1 .. top : i \in Addresses
  BY Places DEF IInv
<1>3. /\ contexts' \in Seq(Context) /\ top' = top
      /\ \A i \in 1 .. top : contexts'[i].pc = IF i = top THEN "full" ELSE contexts[i].pc
      /\ \A i \in 1 .. top : contexts'[i].code = contexts[i].code
  BY <1>1, GotoStep, Places DEF IInv
<1> DEFINE new == [tag |-> tag, type |-> REQUEST, length |-> "zero", buffer |-> NoTag]
<1>4. /\ message' = [message EXCEPT ![top] = new] /\ new \in Message
      /\ new.tag = tag /\ new.type = REQUEST /\ new.length = "zero"
  <2>1. new \in Message
    BY DEF Message, Lengths
  <2>2. EmptyMessage \in Message
    BY DEF EmptyMessage, Message, Lengths
  <2>3. [EmptyMessage EXCEPT !.tag = tag] = new
    BY <2>1, <2>2 DEF EmptyMessage, Message
  <2> QED
    BY <1>1, <2>1, <2>3 DEF SetUpMessage
<1> HIDE DEF new
<1>5. /\ message' \in [Addresses -> Message]
      /\ \A a \in Addresses : message'[a] = IF a = top THEN new ELSE message[a]
  BY <1>2, <1>4 DEF IInv, Typed
<1>6. Typed'
  BY <1>1, <1>3, <1>5 DEF IInv, Typed
<1>7. StatusIsCurrent'
  BY <1>2, <1>3 DEF StatusIsCurrent, Top
<1>8. Mail'
  <2>1. /\ Contents(requests)' = Contents(requests) /\ Contents(replies)' = Contents(replies)
        /\ Distinct(requests)' /\ Distinct(replies)'
    BY <1>1 DEF IInv, Mail, Contents, Distinct
  <2> QED
    BY <1>1, <1>2, <1>3, <1>4, <1>5, <2>1 DEF IInv, Mail, AtFirmware, Top
<1>9. Asking'
  <2>1. Top.code = "main" <=> top = 1
    BY <1>2 DEF IInv, Asking, Top
  <2>2. \A a \in Addresses : message'[a].length # "zero" => message'[a].buffer = message'[a].tag
    BY <1>4, <1>5 DEF IInv, Asking
  <2>3. AnswersAreToQuestions'
    BY <1>1 DEF IInv, Asking, AnswersAreToQuestions
  <2>4. contexts'[1].pc \in CallPlaces =>
          Len(answers') < Len(Questions) /\ message'[1].tag = Questions[Len(answers') + 1]
    BY <1>1, <1>2, <1>3, <1>4, <1>5, <2>1 DEF IInv, Asking
  <2> QED
    BY <1>1, <1>3, <2>2, <2>3, <2>4 DEF IInv, Asking
<1>10. Led'
  <2>1. CASE Top.code = "main"
    <3>1. top = 1
      BY <1>2, <2>1 DEF IInv, Asking, Top
    <3>2. \A i \in 1 .. top : contexts'[i].code = "main" /\ contexts'[i].pc = "full"
      BY <1>3, <2>1, <3>1 DEF Top
    <3>3. \A a \in Addresses : a > top => message'[a].tag # LED_STATUS
      BY <1>5, <1>2 DEF IInv, Led
    <3> QED
      BY <1>1, <1>2, <1>3, <3>2, <3>3 DEF Led, AsksForLed, Top
  <2>2. CASE Top.code = "panic" /\ Top.pc = "led" /\ tag = LED_STATUS
    <3>1. \A i \in 1 .. top : AsksForLed(i)' <=> i = top
      BY <1>2, <1>3, <1>4, <1>5, <2>2 DEF IInv, Led, AsksForLed, Top
    <3>2. tried_set_activity_panic_marker'
      BY <1>1, <1>2, <2>2 DEF IInv, Led, Top
    <3>3. \A a \in Addresses : a > top => message'[a].tag # LED_STATUS
      BY <1>5, <1>2 DEF IInv, Led
    <3>4. \A i \in 1 .. top : contexts'[i].pc \in {"marker", "mark", "led"} => ~ AsksForLed(i)'
      BY <1>2, <1>3, <3>1
    <3> QED
      BY <1>2, <1>3, <3>1, <3>2, <3>3, <3>4 DEF Led, Top
  <2> QED
    BY <1>1, <2>1, <2>2
<1> QED
  BY <1>6, <1>7, <1>8, <1>9, <1>10 DEF IInv

(* A panic begins: nothing is known of its frame but that no address in the *)
(* mailbox is its own.                                                      *)
LEMMA PanicStep ==
  ASSUME IInv, RefuseAnswer \/ Exception
  PROVE  IInv'
<1> USE DEF CallPlaces
<1>1. /\ EnterPanic /\ top < MaxContexts
      /\ UNCHANGED <<message, requests, serving, replies, tried_set_activity_panic_marker,
                     answers>>
  BY DEF RefuseAnswer, Exception, EnterPanic
<1>2. /\ contexts' \in Seq(Context) /\ top' = top + 1 /\ top' \in Addresses
      /\ \A i \in 1 .. top : contexts'[i] = contexts[i]
      /\ contexts'[top'].pc = "marker" /\ contexts'[top'].code = "panic"
  BY <1>1, PushStep DEF IInv
<1>3. top \in Nat \ {0} /\ 1 \in 1 .. top /\ \A i \in 1 .. top' : i \in 1 .. top \/ i = top'
  BY <1>2, Places DEF IInv
<1>4. Typed'
  BY <1>1, <1>2 DEF IInv, Typed
<1>5. StatusIsCurrent'
  BY <1>2 DEF StatusIsCurrent, Top
<1>6. Mail'
  <2>1. /\ Contents(requests)' = Contents(requests) /\ Contents(replies)' = Contents(replies)
        /\ Distinct(requests)' /\ Distinct(replies)'
    BY <1>1 DEF IInv, Mail, Contents, Distinct
  <2>2. \A i \in 1 .. top : i \in 1 .. top'
    BY <1>2, <1>3
  <2> QED
    BY <1>1, <1>2, <1>3, <2>1, <2>2 DEF IInv, Mail, AtFirmware
<1>7. Asking'
  BY <1>1, <1>2, <1>3 DEF IInv, Asking, AnswersAreToQuestions
<1>8. Led'
  <2>1. \A i \in 1 .. top : AsksForLed(i)' <=> AsksForLed(i)
    BY <1>1, <1>2 DEF AsksForLed
  <2>5. PICK n \in Addresses : n = top'
    BY <1>2
  <2>2. ~ AsksForLed(n)'
    BY <1>1, <1>2, <1>3, <2>5 DEF IInv, Led, AsksForLed
  <2>3. \A i \in 1 .. top' : AsksForLed(i)' => i \in 1 .. top /\ AsksForLed(i)
    BY <1>3, <2>1, <2>2, <2>5
  <2>4. \A a \in Addresses : a > top' => a > top
    BY <1>2, <1>3 DEF Addresses
  <2> QED
    BY <1>1, <1>2, <1>3, <2>3, <2>4 DEF IInv, Led, Top
<1> QED
  BY <1>4, <1>5, <1>6, <1>7, <1>8 DEF IInv

----------------------------------------------------------------------------
(* The firmware's steps                                                     *)

(* It takes a request: the same addresses are with it or on their way.      *)
LEMMA FirmwareTakesStep ==
  ASSUME IInv, FirmwareTakes, UNCHANGED <<tried_set_activity_panic_marker, answers>>
  PROVE  IInv'
<1>1. /\ requests # <<>> /\ requests' = Tail(requests)
      /\ serving' = serving \cup {Head(requests)}
      /\ UNCHANGED <<contexts, message, replies>>
  BY DEF FirmwareTakes
<1>2. top' = top /\ top \in Nat \ {0}
  BY <1>1, Places DEF IInv, top
<1>3. /\ requests' \in Seq(Addresses) /\ Head(requests) \in Addresses /\ Distinct(requests')
      /\ Contents(requests) = {Head(requests)} \cup Contents(requests')
      /\ Head(requests) # OtherWord => Head(requests) \notin Contents(requests')
      /\ Len(requests') < Len(requests)
  BY <1>1, TakeWord DEF IInv, Typed, Mail
<1>4. Head(requests) # OtherWord /\ Len(requests) \in Nat /\ Len(requests') \in Nat
  BY <1>3, MailboxAssumption DEF OtherWord, Addresses, IInv, Typed
<1>5. Contents(requests)' = Contents(requests') /\ Distinct(requests)' /\ Distinct(replies)'
      /\ Contents(replies)' = Contents(replies)
  BY <1>1, <1>3 DEF IInv, Mail, Contents, Distinct
<1>6. Typed'
  BY <1>1, <1>2, <1>3 DEF IInv, Typed
<1>7. StatusIsCurrent'
  BY <1>1, <1>2, <1>3, <1>4, MailboxAssumption DEF IInv, StatusIsCurrent, Top
<1>8. Mail'
  <2>1. AtFirmware' = AtFirmware
    BY <1>1, <1>3, <1>5 DEF AtFirmware
  <2> QED
    BY <1>1, <1>2, <1>3, <1>4, <1>5, <2>1 DEF IInv, Mail
<1>9. Asking'
  BY <1>1, <1>2 DEF IInv, Asking, AnswersAreToQuestions
<1>10. Led'
  BY <1>1, <1>2 DEF IInv, Led, AsksForLed, Top
<1> QED
  BY <1>6, <1>7, <1>8, <1>9, <1>10 DEF IInv

(* It replies: the answer is in the message of a call that waits for it.    *)
LEMMA FirmwareRepliesStep ==
  ASSUME IInv, NEW a \in Addresses, FirmwareReplies(a),
         UNCHANGED <<tried_set_activity_panic_marker, answers>>
  PROVE  IInv'
<1>1. /\ a \in serving /\ serving' = serving \ {a} /\ replies' = Append(replies, a)
      /\ UNCHANGED <<contexts, requests>>
  BY DEF FirmwareReplies
<1>2. top' = top /\ top \in Nat \ {0} /\ 1 \in 1 .. top
      /\ \A i \in 1 .. top : i \in Addresses
  BY <1>1, Places DEF IInv, top
<1>3. /\ message' \in [Addresses -> Message]
      /\ \A b \in Addresses \ {a} : message'[b] = message[b]
      /\ message'[a].type # REQUEST /\ message'[a].tag = message[a].tag
      /\ message'[a].length # "zero" => message'[a].buffer = message'[a].tag
  <2>1. message[a] \in Message /\ message \in [Addresses -> Message]
    BY DEF IInv, Typed
  <2>2. message[a].length # "zero" => message[a].buffer = message[a].tag
    BY DEF IInv, Asking
  <2>3. PICK new \in Message :
          /\ message' = [message EXCEPT ![a] = new]
          /\ new.type # REQUEST /\ new.tag = message[a].tag
          /\ new.length # "zero" => new.buffer = new.tag
    <3>1. CASE message' = [message EXCEPT ![a].type = FAILED]
      <4>1. [message[a] EXCEPT !.type = FAILED] \in Message
        BY <2>1 DEF Message
      <4> QED
        BY <2>1, <2>2, <3>1, <4>1 DEF Message, REQUEST, FAILED
    <3>2. CASE message' = [message EXCEPT ![a].type = RESPONSE]
      <4>1. [message[a] EXCEPT !.type = RESPONSE] \in Message
        BY <2>1 DEF Message
      <4> QED
        BY <2>1, <2>2, <3>2, <4>1 DEF Message, REQUEST, RESPONSE
    <3>3. ASSUME NEW length \in {"short", "complete"},
                 message' = [message EXCEPT ![a].type = RESPONSE, ![a].length = length,
                                            ![a].buffer = message[a].tag]
          PROVE  \E new \in Message :
                   /\ message' = [message EXCEPT ![a] = new]
                   /\ new.type # REQUEST /\ new.tag = message[a].tag
                   /\ new.length # "zero" => new.buffer = new.tag
      <4> DEFINE new == [message[a] EXCEPT !.type = RESPONSE, !.length = length,
                                           !.buffer = message[a].tag]
      <4>1. /\ new \in Message /\ new.type # REQUEST
            /\ new.tag = message[a].tag /\ new.buffer = message[a].tag
        BY <2>1 DEF Message, Lengths, REQUEST, RESPONSE
      <4>2. message' = [message EXCEPT ![a] = new]
        BY <2>1, <3>3 DEF Message
      <4> QED
        BY <4>1, <4>2
    <3> QED
      BY <3>1, <3>2, <3>3 DEF FirmwareReplies
  <2> QED
    BY <2>1, <2>3
<1>4. a \in AtFirmware /\ a \notin Contents(requests) /\ a \notin Contents(replies)
      /\ a \in 1 .. top /\ contexts[a].pc \in {"empty", "read"} /\ a # OtherWord
  <2>1. a \in AtFirmware
    BY <1>1 DEF AtFirmware
  <2> QED
    BY <1>1, <1>2, <2>1 DEF IInv, Mail, OtherWord
<1>5. /\ replies' \in Seq(Addresses \cup {OtherWord}) /\ Distinct(replies')
      /\ Contents(replies') = Contents(replies) \cup {a}
      /\ replies' # <<>>
  <2>1. /\ replies' \in Seq(Addresses \cup {OtherWord}) /\ Distinct(replies')
        /\ Contents(replies') = Contents(replies) \cup {a}
    BY <1>1, <1>4, AppendWord DEF IInv, Typed, Mail
  <2>2. replies' # <<>>
    BY <2>1 DEF Contents
  <2> QED
    BY <2>1, <2>2
<1>6. Contents(replies)' = Contents(replies') /\ Distinct(requests)' /\ Distinct(replies)'
      /\ Contents(requests)' = Contents(requests)
  BY <1>1, <1>5 DEF IInv, Mail, Contents, Distinct
<1>7. Typed'
  BY <1>1, <1>2, <1>3, <1>5 DEF IInv, Typed
<1>8. StatusIsCurrent'
  BY <1>1, <1>2, <1>5 DEF IInv, StatusIsCurrent, Top
<1>9. Mail'
  <2>1. AtFirmware' = AtFirmware \ {a}
    BY <1>1, <1>4, <1>6 DEF AtFirmware
  <2>2. \A i \in 1 .. top : contexts[i].pc \in {"full", "write", "answered"} => i # a
    BY <1>4
  <2>3. Contents(requests)' \cap serving' = {}
    BY <1>1, <1>6 DEF IInv, Mail
  <2>4. \A b \in AtFirmware' \cup (Contents(replies)' \ {OtherWord}) :
          /\ b \in 1 .. top /\ contexts[b].pc \in {"empty", "read"}
          /\ b \in AtFirmware' => message'[b].type = REQUEST
          /\ b \in Contents(replies)' => message'[b].type # REQUEST
    BY <1>2, <1>3, <1>4, <1>5, <1>6, <2>1 DEF IInv, Mail
  <2>5. \A i \in 1 .. top :
          /\ contexts[i].pc \in {"full", "write"} => message'[i].type = REQUEST
          /\ contexts[i].pc = "answered" => message'[i].type # REQUEST
    BY <1>2, <1>3, <2>2 DEF IInv, Mail
  <2> QED
    BY <1>1, <1>2, <1>6, <2>3, <2>4, <2>5 DEF Mail
<1>10. \A b \in Addresses : message'[b].tag = message[b].tag
  BY <1>3
<1>11. Asking'
  <2>1. 1 \in Addresses
    BY <1>2
  <2> QED
    BY <1>1, <1>2, <1>3, <1>10, <2>1 DEF IInv, Asking, AnswersAreToQuestions
<1>12. Led'
  <2>1. \A i \in 1 .. top : AsksForLed(i)' <=> AsksForLed(i)
    BY <1>1, <1>2, <1>10 DEF AsksForLed
  <2> QED
    BY <1>1, <1>2, <1>10, <2>1 DEF IInv, Led, Top
<1> QED
  BY <1>7, <1>8, <1>9, <1>11, <1>12 DEF IInv

(* A word for nobody is in no message's way.                                *)
LEMMA FirmwareSendsOtherStep ==
  ASSUME IInv, FirmwareSendsOther, UNCHANGED <<tried_set_activity_panic_marker, answers>>
  PROVE  IInv'
<1>1. /\ replies' = Append(replies, OtherWord)
      /\ UNCHANGED <<contexts, message, requests, serving>>
  BY DEF FirmwareSendsOther
<1>2. top' = top /\ top \in Nat \ {0}
  BY <1>1, Places DEF IInv, top
<1>3. /\ replies' \in Seq(Addresses \cup {OtherWord}) /\ Distinct(replies')
      /\ Contents(replies') = Contents(replies) \cup {OtherWord}
  BY <1>1, AppendWord DEF IInv, Typed, Mail
<1>4. replies' # <<>>
  BY <1>1, AppendProperties DEF IInv, Typed
<1>5. Contents(replies)' = Contents(replies') /\ Distinct(requests)' /\ Distinct(replies)'
      /\ Contents(requests)' = Contents(requests)
  BY <1>1, <1>3 DEF IInv, Mail, Contents, Distinct
<1>6. Typed'
  BY <1>1, <1>2, <1>3 DEF IInv, Typed
<1>7. StatusIsCurrent'
  BY <1>1, <1>2, <1>4 DEF IInv, StatusIsCurrent, Top
<1>8. Mail'
  <2>1. AtFirmware' = AtFirmware
    BY <1>1, <1>5 DEF AtFirmware
  <2>2. OtherWord \notin AtFirmware
    BY <1>2 DEF IInv, Mail, OtherWord
  <2> QED
    BY <1>1, <1>2, <1>3, <1>5, <2>1, <2>2 DEF IInv, Mail
<1>9. Asking'
  BY <1>1, <1>2 DEF IInv, Asking, AnswersAreToQuestions
<1>10. Led'
  BY <1>1, <1>2 DEF IInv, Led, AsksForLed, Top
<1> QED
  BY <1>6, <1>7, <1>8, <1>9, <1>10 DEF IInv

----------------------------------------------------------------------------
(* The invariant                                                            *)

(* At the start nothing is asked and nothing has panicked.                  *)
LEMMA InitIInv == Init => IInv
<1> SUFFICES ASSUME Init PROVE IInv
  OBVIOUS
<1> DEFINE first == [code |-> "main", pc |-> "entry"]
<1>1. /\ contexts = <<first>> /\ first \in Context
      /\ requests = <<>> /\ replies = <<>> /\ serving = {} /\ answers = <<>>
      /\ tried_set_activity_panic_marker \in BOOLEAN
  BY DEF Init, Context
<1>2. contexts \in Seq(Context) /\ Len(contexts) = 1 /\ contexts[1] = first
  <2> HIDE DEF first
  <2> QED
    BY <1>1
<1>3. top = 1 /\ top \in Addresses /\ contexts[1].pc = "entry" /\ contexts[1].code = "main"
  BY <1>2, MailboxAssumption DEF top, Addresses
<1>4. EmptyMessage \in Message /\ message = [a \in Addresses |-> EmptyMessage]
  BY DEF Init, EmptyMessage, Message, Lengths
<1>5. \A a \in Addresses : message[a].length = "zero" /\ message[a].tag = NoTag
  BY <1>4 DEF EmptyMessage
<1>6. LED_STATUS # NoTag
  BY QuestionsTyped DEF BootTags
<1>7. Typed
  <2> HIDE DEF first
  <2> QED
    BY <1>1, <1>2, <1>3, <1>4, EmptySeq DEF Typed
<1>8. StatusIsCurrent
  BY <1>3 DEF StatusIsCurrent, Top
<1>9. Mail
  <2>1. Contents(<<>>) = {} /\ Distinct(<<>>)
    BY DEF Contents, Distinct
  <2> QED
    BY <1>1, <1>3, <2>1 DEF Mail, AtFirmware
<1>10. Asking
  BY <1>1, <1>3, <1>5, QuestionsTyped DEF Asking, AnswersAreToQuestions, CallPlaces
<1>11. Led
  BY <1>3, <1>5, <1>6 DEF Led, AsksForLed, Top
<1> QED
  BY <1>7, <1>8, <1>9, <1>10, <1>11 DEF IInv

(* Every step of the kernel, of an exception and of the firmware keeps it.  *)
LEMMA IInvStep == IInv /\ [Next]_vars => IInv'
<1> SUFFICES ASSUME IInv, [Next]_vars PROVE IInv'
  OBVIOUS
<1>1. CASE Run
  BY <1>1, ZeroBssStep, AskStep, WaitStep, WriteRequestStep, ReadReplyStep, TakeAnswerStep,
     PanicStep, QuietStep, SetMarkerStep DEF Run, CallStep, Call
<1>2. CASE Exception
  BY <1>2, PanicStep
<1>3. CASE FirmwareStep
  BY <1>3, FirmwareTakesStep, FirmwareRepliesStep, FirmwareSendsOtherStep
     DEF FirmwareStep, Firmware
<1>4. CASE UNCHANGED vars
  <2>1. /\ UNCHANGED <<contexts, message, requests, serving, replies>>
        /\ UNCHANGED <<tried_set_activity_panic_marker, answers>>
    BY <1>4 DEF vars
  <2> QED
    BY <2>1 DEF IInv, Typed, StatusIsCurrent, Mail, Distinct, Contents, AtFirmware,
       Asking, AnswersAreToQuestions, Led, AsksForLed, Top, top
<1> QED
  BY <1>1, <1>2, <1>3, <1>4 DEF Next

(* The strengthened invariant: types, the life of a message, what main has  *)
(* asked, and who asks for the LED.                                         *)
THEOREM InductiveInvariant == Spec => []IInv
<1> QED
  BY InitIInv, IInvStep, PTL DEF Spec

(* The status a call has read still holds when it writes or reads the       *)
(* mailbox, whatever has interrupted it: nothing returns from an exception. *)
THEOREM StatusStaysCurrent == Spec => []StatusIsCurrent
<1>1. IInv => StatusIsCurrent
  BY DEF IInv
<1> QED
  BY <1>1, InductiveInvariant, PTL

(* The firmware only ever writes to messages whose callers wait for it.     *)
THEOREM MessagesOutliveRequests == Spec => []RequestsStayLive
<1>1. IInv => RequestsStayLive
  <2> SUFFICES ASSUME IInv, NEW a \in Contents(requests) \cup serving
               PROVE  /\ a <= top /\ contexts[a].pc \in {"empty", "read"}
                      /\ message[a].type = REQUEST
    BY DEF RequestsStayLive
  <2>1. a \in AtFirmware
    BY DEF AtFirmware
  <2> QED
    BY <2>1 DEF IInv, Mail
<1> QED
  BY <1>1, InductiveInvariant, PTL

(* A call returns with the answer to its own message, and leaves nothing in *)
(* the mailbox that the next call from the same frame could take for its.   *)
THEOREM CallsGetTheirAnswers == Spec => []AnswerIsForThisCall
<1>1. IInv => AnswerIsForThisCall
  <2> SUFFICES ASSUME IInv, Top.pc = "answered"
               PROVE  /\ message[top].type # REQUEST
                      /\ top \notin Contents(requests) \cup serving \cup Contents(replies)
    BY DEF AnswerIsForThisCall
  <2>1. top \in 1 .. top /\ top # OtherWord
    BY Places DEF IInv, OtherWord
  <2> QED
    BY <2>1 DEF IInv, Mail, AtFirmware, Top
<1> QED
  BY <1>1, InductiveInvariant, PTL

(* What main goes on with are answers to the questions it asked.            *)
THEOREM MainKnowsWhatItAsked == Spec => []AnswersAreToQuestions
<1>1. IInv => AnswersAreToQuestions
  BY DEF IInv, Asking
<1> QED
  BY <1>1, InductiveInvariant, PTL

(* However many panics are nested, one asks for the LED.                    *)
THEOREM OnePanicAsksForLed == Spec => []OneLedAttempt
<1>1. IInv => OneLedAttempt
  <2> SUFFICES ASSUME IInv PROVE OneLedAttempt
    OBVIOUS
  <2> DEFINE S == { i \in 1 .. top : AsksForLed(i) }
  <2>1. \A i, j \in S : i = j
    BY DEF IInv, Led
  <2>2. CASE S = {}
    BY <2>2, FS_EmptySet DEF OneLedAttempt
  <2>3. CASE S # {}
    <3>1. PICK i \in S : S = {i}
      BY <2>1, <2>3
    <3> HIDE DEF S
    <3>2. Cardinality(S) = 1
      BY <3>1, FS_Singleton
    <3> QED
      BY <3>2 DEF S, OneLedAttempt
  <2> QED
    BY <2>2, <2>3
<1> QED
  BY <1>1, InductiveInvariant, PTL

----------------------------------------------------------------------------
(* Room for requests                                                        *)

(* A panic that is in a call has asked for the LED.                         *)
Calling ==
  \A i \in 1 .. top :
    contexts[i].code = "panic" /\ contexts[i].pc \in CallPlaces => message[i].tag = LED_STATUS

(* A step within a call, or between calls, keeps what was asked.            *)
LEMMA CallingGotoStep ==
  ASSUME Typed, Calling, NEW pc, Goto(pc), [code |-> Top.code, pc |-> pc] \in Context,
         UNCHANGED message,
         pc \in CallPlaces => Top.pc \in CallPlaces
  PROVE  Calling'
<1>1. /\ top' = top
      /\ \A i \in 1 .. top : contexts'[i].pc = IF i = top THEN pc ELSE contexts[i].pc
      /\ \A i \in 1 .. top : contexts'[i].code = contexts[i].code
  BY GotoStep
<1> QED
  BY <1>1 DEF Calling, Top

(* A panic begins outside of any call.                                      *)
LEMMA CallingPanicStep ==
  ASSUME Typed, Calling, RefuseAnswer \/ Exception
  PROVE  Calling'
<1>1. EnterPanic /\ top < MaxContexts /\ UNCHANGED message
  BY DEF RefuseAnswer, Exception, EnterPanic
<1>2. /\ top' = top + 1 /\ \A i \in 1 .. top : contexts'[i] = contexts[i]
      /\ contexts'[top'].pc = "marker"
  BY <1>1, PushStep
<1>3. \A i \in 1 .. top' : i \in 1 .. top \/ i = top'
  BY <1>2, Places
<1> QED
  BY <1>1, <1>2, <1>3 DEF Calling, CallPlaces

(* What the kernel does by itself.                                          *)
LEMMA CallingRunStep == ASSUME IInv, Calling, Run PROVE Calling'
<1>1. Typed
  BY DEF IInv
<1>2. CASE CallStep
  <2>1. PICK pc \in CallPlaces : Goto(pc) /\ Top.pc \in CallPlaces /\ UNCHANGED message
    BY <1>2 DEF CallStep, Call, WaitWhileFull, WriteRequest, WaitWhileEmpty, ReadReply,
                CallPlaces
  <2> QED
    BY <1>1, <2>1, Places, CallingGotoStep
<1>3. CASE ZeroBss \/ TakeAnswer \/ pmap_vm_init \/ pmc_shutdown \/ TestMarker \/ SetMarker
           \/ Idle
  <2>1. PICK pc \in {"ask", "shutdown", "idle", "mark", "led"} :
          /\ Goto(pc) /\ UNCHANGED message
          /\ pc \in {"ask", "shutdown"} => Top.code = "main"
          /\ pc \in {"mark", "led"} => Top.code = "panic"
    BY <1>3 DEF ZeroBss, TakeAnswer, pmap_vm_init, pmc_shutdown, TestMarker, SetMarker, Idle,
                Main, Panicking
  <2>2. [code |-> Top.code, pc |-> pc] \in Context
    BY <1>1, <2>1, Places
  <2> QED
    BY <1>1, <2>1, <2>2, CallingGotoStep DEF CallPlaces
<1>4. CASE Ask \/ vc_functions_set_activity_led
  <2>1. PICK tag : /\ SetUpMessage(tag) /\ Goto("full")
                   /\ Top.code = "main" \/ tag = LED_STATUS
    BY <1>4 DEF Ask, vc_functions_set_activity_led, Main, Panicking
  <2>2. /\ top' = top
        /\ \A i \in 1 .. top : i # top => contexts'[i].pc = contexts[i].pc
        /\ \A i \in 1 .. top : contexts'[i].code = contexts[i].code
    BY <1>1, <2>1, GotoStep, Places DEF CallPlaces
  <2>3. /\ message \in [Addresses -> Message] /\ top \in Addresses
        /\ \A i \in 1 .. top : i \in Addresses
    BY <1>1, Places DEF Typed
  <2>4. message' = [message EXCEPT ![top] = [EmptyMessage EXCEPT !.tag = tag]]
    BY <2>1 DEF SetUpMessage
  <2>5. message'[top].tag = tag
    BY <2>3, <2>4 DEF EmptyMessage
  <2>6. \A i \in Addresses : i # top => message'[i] = message[i]
    BY <2>3, <2>4
  <2> QED
    BY <2>1, <2>2, <2>3, <2>5, <2>6 DEF Calling, Top
<1>5. CASE RefuseAnswer
  BY <1>1, <1>5, CallingPanicStep
<1> QED
  BY <1>2, <1>3, <1>4, <1>5 DEF Run

(* The firmware changes no tag.                                             *)
LEMMA CallingStep == ASSUME IInv, Calling, [Next]_vars PROVE Calling'
<1>1. CASE Exception
  BY <1>1, CallingPanicStep DEF IInv
<1>2. CASE FirmwareStep
  <2>1. UNCHANGED contexts /\ \A i \in Addresses : message'[i].tag = message[i].tag
    <3>1. CASE UNCHANGED <<contexts, message>>
      BY <3>1
    <3>2. CASE \E a \in Addresses : FirmwareReplies(a)
      <4>1. PICK a \in Addresses : FirmwareReplies(a)
        BY <3>2
      <4>2. message \in [Addresses -> Message]
        BY DEF IInv, Typed
      <4> QED
        BY <4>1, <4>2 DEF FirmwareReplies, Message
    <3> QED
      BY <1>2, <3>1, <3>2 DEF FirmwareStep, Firmware, FirmwareTakes, FirmwareSendsOther
  <2>2. \A i \in 1 .. top : i \in Addresses
    BY Places DEF IInv
  <2> QED
    BY <2>1, <2>2 DEF Calling, top
<1>3. CASE UNCHANGED vars
  BY <1>3 DEF vars, Calling, top
<1> QED
  BY <1>1, <1>2, <1>3, CallingRunStep DEF Next

(* At most one other call, main's, has its request still in the mailbox.    *)
LEMMA AtMostMainsRequest ==
  ASSUME IInv, Calling, Top.pc = "full"
  PROVE  Len(requests) <= 1
<1>1. Contents(requests) \subseteq {1}
  <2> SUFFICES ASSUME NEW a \in Contents(requests), a # 1 PROVE FALSE
    OBVIOUS
  <2>1. a \in 1 .. top /\ contexts[a].pc \in {"empty", "read"} /\ a # top
    BY DEF IInv, Mail, AtFirmware, Top
  <2>2. top \in 1 .. top /\ top # 1 /\ contexts[top].pc = "full"
    BY <2>1, Places DEF IInv, Top
  <2>3. contexts[a].code = "panic" /\ contexts[top].code = "panic"
    BY <2>1, <2>2, Places DEF IInv, Asking
  <2>4. AsksForLed(a) /\ AsksForLed(top)
    BY <2>1, <2>2, <2>3 DEF Calling, CallPlaces, AsksForLed
  <2> QED
    BY <2>1, <2>2, <2>4 DEF IInv, Led
<1>2. requests \in Seq(Addresses) /\ Len(requests) \in Nat
      /\ DOMAIN requests = 1 .. Len(requests) /\ Distinct(requests)
  BY DEF IInv, Typed, Mail
<1>3. \A i \in DOMAIN requests : requests[i] = 1
  BY <1>1 DEF Contents
<1>4. \A i, j \in 1 .. Len(requests) : i = j
  BY <1>2, <1>3 DEF Distinct, OtherWord
<1> QED
  BY <1>2, <1>4

(* With two words or more for requests, no call ever waits for room: the    *)
(* kernel does not wait for the firmware to take a request while the        *)
(* firmware waits for the kernel to take a reply.                           *)
THEOREM NobodyWaitsForRoom ==
  ASSUME RequestDepth >= 2
  PROVE  Spec => [](Top.pc = "full" => Len(requests) < RequestDepth)
<1>1. Init => Calling
  BY DEF Init, Calling, top, CallPlaces
<1>2. IInv /\ Calling => (Top.pc = "full" => Len(requests) < RequestDepth)
  BY AtMostMainsRequest, MailboxAssumption DEF IInv, Typed
<1>3. IInv /\ Calling /\ [Next]_vars => Calling'
  BY CallingStep
<1> QED
  BY <1>1, <1>2, <1>3, InductiveInvariant, PTL DEF Spec

=============================================================================
