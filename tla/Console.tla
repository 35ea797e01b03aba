------------------------------ MODULE Console ------------------------------
(***************************************************************************)
(* Printing (lib/stdio.c, console.c, mini_uart.c): main initialises the     *)
(* mini UART and prints; panics (lib/debug.c) interrupt it, and each other, *)
(* at any instruction, print and idle. Nothing goes back to what a panic    *)
(* interrupted. The UART takes characters into a queue and puts them on the *)
(* line in its own time.                                                    *)
(*                                                                          *)
(* vsnprintf shares no state with this. Calls of it are made here before    *)
(* main prints, one after the other; the last one's effect is kept.         *)
(***************************************************************************)
EXTENDS Format

CONSTANTS
  MainPrints, PanicPrints,  \* the printf calls of main and of a panic
  Requests,      \* what vsnprintf is asked for
  BufferSizes,   \* and for which buffers
  FifoSize,      \* the UART's queue
  MaxContexts    \* bound: main and the panics on top of each other

ASSUME ConsoleAssumption ==
  /\ FifoSize \in Nat \ {0}
  /\ MaxContexts \in Nat \ {0}
  /\ BufferSizes \subseteq Nat

VARIABLES
  contexts,            \* main, then panics, each on top of what it interrupted
  uart_initilized,
  enabled, fifo,       \* the UART
  line,                \* what it has sent
  stored               \* the last vsnprintf: its call, buffer and return value

vars == <<contexts, uart_initilized, enabled, fifo, line, stored>>

None == [call |-> NULL]    \* no vsnprintf

top == Len(contexts)
Top == contexts[top]
At(pc) == Top.pc = pc /\ stored = None

Goto(pc) == contexts' = [contexts EXCEPT ![top].pc = pc]

(* What the calls put on the line, before line ends.                        *)
TextsOf(prints) == [i \in DOMAIN prints |-> vprintf(prints[i].format, prints[i].args)]
MainTexts == TextsOf(MainPrints)
PanicTexts == TextsOf(PanicPrints)

Texts(context) == IF context.code = "main" THEN MainTexts ELSE PanicTexts

(* The conversion in the middle of other text.                              *)
Framed(r) == <<"[", "%", "%">> \o Spelled(r) \o <<"]">>

(* Every call passes the arguments that its format takes: what it prints is *)
(* then a text.                                                             *)
ASSUME TextsAssumption ==
  /\ MainTexts \in Seq(Seq(STRING)) /\ PanicTexts \in Seq(Seq(STRING))
  /\ \A r \in Requests : vprintf(Framed(r), Arguments(r)) \in Seq(STRING)

(* The BSS, with uart_initilized in it, holds anything before main zeroes   *)
(* it; the firmware may have used the UART.                                 *)
Init ==
  /\ contexts = << [code |-> "main", pc |-> "entry", call |-> 1, text |-> <<>>] >>
  /\ uart_initilized \in BOOLEAN
  /\ enabled \in BOOLEAN
  /\ fifo = <<>> /\ line = <<>>
  /\ stored = None

----------------------------------------------------------------------------
(* vsnprintf                                                                *)

(* Leaves no room for the terminator.                                       *)
vsnprintf_helper_full(aux, ch) ==
  [ aux EXCEPT
      !.length = @ + 1,
      !.buffer = IF aux.length <= aux.max_length THEN Append(@, ch) ELSE @ ]

vsnprintf_helper(aux, ch) ==
  [ aux EXCEPT
      !.length = @ + 1,
      !.buffer = IF aux.length < aux.max_length THEN Append(@, ch) ELSE @ ]

(* What is written to the buffer from its start, and the return value.      *)
vsnprintf(size, format, args) ==
  LET aux == [buffer |-> <<>>, length |-> 0, max_length |-> AtLeast(size - 1, 0)]
      text == vprintf(format, args)
      written[i \in 0 .. Len(text)] ==
        IF i = 0 THEN aux ELSE vsnprintf_helper(written[i - 1], text[i])
      done == written[Len(text)]
  IN  [ buffer |-> IF size > 0 THEN Append(done.buffer, NUL) ELSE done.buffer,
        returns |-> done.length ]

Snprintf ==
  /\ At("print") /\ top = 1 /\ Top.call = 1
  /\ \E r \in Requests, size \in BufferSizes :
       stored' = [call |-> r, size |-> size,
                  result |-> vsnprintf(size, Framed(r), Arguments(r))]
  /\ UNCHANGED <<contexts, uart_initilized, enabled, fifo, line>>

SnprintfReturns ==
  /\ stored # None
  /\ stored' = None
  /\ UNCHANGED <<contexts, uart_initilized, enabled, fifo, line>>

----------------------------------------------------------------------------
(* main and mini_uart_init                                                  *)

ZeroBss ==
  /\ At("entry")
  /\ uart_initilized' = FALSE
  /\ Goto("init")
  /\ UNCHANGED <<enabled, fifo, line, stored>>

(* Marks the UART as usable first.                                          *)
DisableUart_marked ==
  /\ At("init")
  /\ ~ uart_initilized
  /\ enabled' = FALSE /\ fifo' = <<>> /\ uart_initilized' = TRUE
  /\ Goto("enable")
  /\ UNCHANGED <<line, stored>>

DisableUart ==
  /\ At("init")
  /\ ~ uart_initilized
  /\ enabled' = FALSE /\ fifo' = <<>>
  /\ Goto("enable")
  /\ UNCHANGED <<uart_initilized, line, stored>>

EnableUart ==
  /\ At("enable")
  /\ enabled' = TRUE
  /\ Goto("mark")
  /\ UNCHANGED <<uart_initilized, fifo, line, stored>>

MarkInitialized ==
  /\ At("mark")
  /\ uart_initilized' = TRUE
  /\ Goto("print")
  /\ UNCHANGED <<enabled, fifo, line, stored>>

----------------------------------------------------------------------------
(* printf, and what a panic prints                                          *)

Printing == At("print") /\ Top.call <= Len(Texts(Top))

(* console_vprintf                                                          *)
BeginPrint ==
  /\ Printing
  /\ uart_initilized
  /\ LET text == Texts(Top)[Top.call] IN
     contexts' = [contexts EXCEPT ![top] =
       [Top EXCEPT !.call = @ + 1, !.text = text,
                    !.pc = IF text = <<>> THEN "print" ELSE "wait"]]
  /\ UNCHANGED <<uart_initilized, enabled, fifo, line, stored>>

PrintFails ==
  /\ Printing
  /\ ~ uart_initilized
  /\ contexts' = [contexts EXCEPT ![top].call = @ + 1]
  /\ UNCHANGED <<uart_initilized, enabled, fifo, line, stored>>

(* Does not look.                                                           *)
SeeRoom_at_once ==
  /\ At("wait")
  /\ Goto("write")
  /\ UNCHANGED <<uart_initilized, enabled, fifo, line, stored>>

(* mini_uart_send_char sees room in the queue. What the status register of  *)
(* a UART that is not enabled says is not known.                            *)
SeeRoom ==
  /\ At("wait")
  /\ enabled => Len(fifo) < FifoSize
  /\ Goto("write")
  /\ UNCHANGED <<uart_initilized, enabled, fifo, line, stored>>

(* A character that finds the queue full, or the UART disabled, is lost.    *)
Accepted(ch) == IF enabled /\ Len(fifo) < FifoSize THEN Append(fifo, ch) ELSE fifo

(* What is left to send after the first character: its recursive call, and  *)
(* the rest.                                                                *)
Send(text) == (IF Head(text) = "\n" THEN <<"\r">> ELSE <<>>) \o Tail(text)

SendChar ==
  /\ At("write")
  /\ fifo' = Accepted(Head(Top.text))
  /\ LET rest == Send(Top.text) IN
     contexts' = [contexts EXCEPT ![top] =
       [Top EXCEPT !.text = rest, !.pc = IF rest = <<>> THEN "print" ELSE "wait"]]
  /\ UNCHANGED <<uart_initilized, enabled, line, stored>>

(* main after pmc_shutdown, debug_panic at its end.                         *)
Idle ==
  /\ At("print") /\ Top.call > Len(Texts(Top))
  /\ Goto("idle")
  /\ UNCHANGED <<uart_initilized, enabled, fifo, line, stored>>

(* An exception or a failed assertion, also in the middle of a panic.       *)
Panic ==
  /\ stored = None
  /\ top < MaxContexts
  /\ contexts' = Append(contexts, [code |-> "panic", pc |-> "print", call |-> 1, text |-> <<>>])
  /\ UNCHANGED <<uart_initilized, enabled, fifo, line, stored>>

(* The UART sends a character.                                              *)
Transmit ==
  /\ stored = None
  /\ enabled /\ fifo # <<>>
  /\ line' = Append(line, Head(fifo)) /\ fifo' = Tail(fifo)
  /\ UNCHANGED <<contexts, uart_initilized, enabled, stored>>

----------------------------------------------------------------------------
Run ==
  \/ ZeroBss \/ DisableUart \/ EnableUart \/ MarkInitialized
  \/ BeginPrint \/ PrintFails \/ SeeRoom \/ SendChar \/ Idle \/ SnprintfReturns

Next == Run \/ Panic \/ Snprintf \/ Transmit

Spec == Init /\ [][Next]_vars

(* The core executes and the UART sends. Nothing is assumed of the status   *)
(* register of a UART that is not enabled.                                  *)
FairSpec == Spec /\ WF_vars(Run /\ (At("wait") => enabled)) /\ WF_vars(Transmit)

----------------------------------------------------------------------------
(* What is printed                                                          *)

Wired(text) ==
  FlattenSeq([i \in DOMAIN text |-> IF text[i] = "\n" THEN <<"\n", "\r">> ELSE <<text[i]>>])

(* What a context has given to the UART.                                    *)
Said(context) ==
  LET all == Wired(FlattenSeq(SubSeq(Texts(context), 1, context.call - 1)))
      left == Len(Wired(context.text))
  IN  IF uart_initilized THEN SubSeq(all, 1, Len(all) - left) ELSE <<>>

(* Nothing is lost or mixed up: the line has what main printed up to where  *)
(* it was interrupted, then so with each panic, and each line end in full.  *)
(* No character meets a full queue, also when a panic comes between the     *)
(* look at the status register and the write it allows.                     *)
LineIsWhole ==
  enabled => line \o fifo = FlattenSeq([k \in 1 .. top |-> Said(contexts[k])])

(* A panic leaves the core idle, wherever it interrupts, also in the middle *)
(* of setting up the UART; and if the console is up, with everything it has *)
(* to say on the line. Not so where main had not zeroed the BSS yet.        *)
PanicIsHeard ==
  (Top.code = "panic" /\ contexts[1].pc # "entry") ~>
    /\ Top.pc = "idle"
    /\ uart_initilized => IsSuffix(Wired(FlattenSeq(PanicTexts)), line)

(* Every number is printed such that it reads back, in the field that was   *)
(* asked for, with literal text around it in its place.                     *)
ConversionsReadBack ==
  stored # None /\ FieldIsDefined(stored.call) =>
    LET text == vprintf(Framed(stored.call), Arguments(stored.call)) IN
    /\ SubSeq(text, 1, 2) = <<"[", "%">> /\ Last(text) = "]"
    /\ Answers(stored.call, SubSeq(text, 3, Len(text) - 1))

(* A buffer gets as much of the text as it has room for with a terminator,  *)
(* never more than its size, and the caller learns how much that would be.  *)
BufferHoldsPrefix ==
  stored # None =>
    LET text == vprintf(Framed(stored.call), Arguments(stored.call))
        b == stored.result.buffer
    IN  /\ stored.result.returns = Len(text)
        /\ Len(b) = AtMost(Len(text) + 1, stored.size)
        /\ b # <<>> => Last(b) = NUL /\ IsPrefix(Front(b), text)

=============================================================================
