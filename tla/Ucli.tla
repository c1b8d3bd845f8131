-------------------------------- MODULE Ucli --------------------------------
(***************************************************************************)
(* The command line interface of ucli/: the state machine of ucli-fsm.c    *)
(* that the main loop steps with ucli_routine, the one-place event the     *)
(* receive interrupt fills with ucli_receive_data, and the ring buffer     *)
(* that holds the line.  Only the main loop uses that buffer, so it is     *)
(* taken as the sequence RingBuffer implements (ImplementsDeque).          *)
(*                                                                         *)
(* The UART is the one of the README's example: enable_receive arms the    *)
(* reception of one character, the interrupt that delivers it disarms it,  *)
(* and a character that comes in between waits in the receive register.    *)
(***************************************************************************)
EXTENDS UcliDictionary, FiniteSets

CONSTANTS Printable, Enter, Backspace, Other, Space, Nothing, Names, Junk,
          Offers,      \* the pairs of name and function the program adds
          BufferLen,   \* UCLI_BUFFER_LEN
          Preemptive,  \* whether the receive interrupt may come inside
                       \* ucli_routine: the cases to consider
          MaxReinits   \* bound: how often the program calls ucli_init again

Chars == Printable \cup Enter \cup Other \cup {Backspace}

ASSUME UcliAssumption ==
  /\ BufferLen \in Nat \ {0}
  /\ Space \in Printable
  /\ Nothing \notin Chars
  /\ Backspace \notin Printable \cup Enter \cup Other
  /\ Printable \cap Enter = {} /\ Printable \cap Other = {}
  /\ Enter \cap Other = {}
  /\ Preemptive \subseteq BOOLEAN /\ MaxReinits \in Nat
  /\ Offers \subseteq (Names \X Functions) /\ << >> \notin Names
  /\ <<Junk>> \notin Names
  /\ \A key \in Names \cup {<<Junk>>} : Hash(key) \in Nat
  /\ \A n \in 1 .. BufferLen : \A key \in [1 .. n -> Printable] : Hash(key) \in Nat

VARIABLES state,           \* ucli_state
          managed, event,  \* the fields of ucli_triggered_event
          buffer,          \* the ring buffer of ucli-fsm.c
          parsed,          \* parsed_command
          pc,              \* where the main loop is inside ucli_routine
          next,            \* the local next_state of the state function
          armed, register, \* the UART: reception armed; receive register
          preemptive,      \* the receive interrupt may come inside ucli_routine
          handled,         \* the character do_idle handled last
          prompts,         \* prompts sent since it was taken
          reply,           \* what the last line entered came to
          reinits          \* calls of ucli_init after the first

fsm  == <<state, pc, next>>
uart == <<armed, register, preemptive>>
evt  == <<managed, event>>
seen == <<handled, prompts, reply, reinits>>
vars == <<fsm, uart, evt, buffer, parsed, seen, buckets>>

NoOrder == [command |-> << >>, args |-> << >>]
Silence == [kind |-> "none", function |-> NoFunction, args |-> << >>]
Unknown == [kind |-> "reject", function |-> NoFunction, args |-> << >>]

States == {"init", "idle", "drop", "parse", "exec"}

-----------------------------------------------------------------------------
(* ucli_init and the first enable_receive of main.                         *)
Init ==
  /\ state = "init" /\ pc = "loop" /\ next = "init"
  /\ managed = TRUE /\ event = Nothing
  /\ buffer = << >> /\ parsed = NoOrder /\ buckets = DictionaryEmpty
  /\ armed = TRUE /\ register = Nothing /\ preemptive \in Preemptive
  /\ handled = Nothing /\ prompts = 0 /\ reply = Silence
  /\ reinits = 0

(* The user types while the register is free; otherwise the character is   *)
(* lost in the UART.                                                       *)
Type(c) ==
  /\ register = Nothing
  /\ register' = c
  /\ UNCHANGED <<fsm, armed, preemptive, evt, buffer, parsed, seen, buckets>>

(* ucli_event_trigger: an event not managed yet keeps its place.           *)
Trigger(c) ==
  IF managed THEN managed' = FALSE /\ event' = c
             ELSE UNCHANGED evt

(* The receive interrupt, which calls ucli_receive_data.                   *)
Receive ==
  /\ armed /\ register # Nothing
  /\ preemptive \/ pc = "loop"
  /\ armed' = FALSE /\ register' = Nothing
  /\ Trigger(register)
  /\ UNCHANGED <<fsm, preemptive, buffer, parsed, seen, buckets>>

-----------------------------------------------------------------------------
(* The end of ucli_run_state: the transition function (a prompt on the     *)
(* four ways into idle), then the new state.                               *)
(* Bug the runs have to notice: no prompt.                                 *)
FinishToSilent(s, sent) ==
  /\ state' = s
  /\ prompts' = sent
  /\ pc' = "loop" /\ next' = s

FinishTo(s, sent) ==
  /\ state' = s
  /\ prompts' = sent + (IF state # "idle" /\ s = "idle" THEN 1 ELSE 0)
  /\ pc' = "loop" /\ next' = s

(* The rest of the state function is ucli_event_status_reset.              *)
ResetThen(s, sent) ==
  /\ pc' = "enable" /\ next' = s
  /\ prompts' = sent
  /\ UNCHANGED state

EnableReceive ==
  /\ pc = "enable"
  /\ armed' = TRUE
  /\ pc' = "manage"
  /\ UNCHANGED <<state, next, register, preemptive, evt, buffer, parsed, seen, buckets>>

SetManaged ==
  /\ pc = "manage"
  /\ managed' = TRUE
  /\ FinishTo(next, prompts)
  /\ UNCHANGED <<event, uart, buffer, parsed, handled, reply, reinits, buckets>>

-----------------------------------------------------------------------------
In(s) == pc = "loop" /\ state = s

DoInit ==
  /\ In("init")
  /\ buffer' = << >> /\ handled' = Nothing
  /\ FinishTo("idle", 0)
  /\ UNCHANGED <<evt, uart, parsed, reply, reinits, buckets>>

(* do_idle without an event: the main loop spins.                          *)
IdleNothing ==
  /\ In("idle") /\ managed
  /\ UNCHANGED vars

(* do_idle with an event: the five kinds of character.                     *)
Take(c) ==
  /\ In("idle") /\ ~managed /\ event = c
  /\ handled' = c /\ reply' = Silence

(* ring_buffer_is_full.  Bug: one character too many.                      *)
LineFullLate == Len(buffer) > BufferLen

LineFull == Len(buffer) >= BufferLen

IdlePrintable ==
  /\ \E c \in Printable :
       /\ Take(c)
       /\ IF LineFull
          THEN FinishTo("drop", 0) /\ UNCHANGED buffer
          ELSE ResetThen("idle", 0) /\ buffer' = Append(buffer, c)
  /\ UNCHANGED <<evt, uart, parsed, reinits, buckets>>

(* Bug: with nothing to delete the event is left unmanaged.                *)
IdleBackspaceLeft ==
  /\ Take(Backspace)
  /\ IF buffer = << >>
     THEN FinishTo("idle", 0) /\ UNCHANGED buffer
     ELSE /\ ResetThen("idle", 0)
          /\ buffer' = SubSeq(buffer, 1, Len(buffer) - 1)
  /\ UNCHANGED <<evt, uart, parsed, reinits, buckets>>

IdleBackspace ==
  /\ Take(Backspace)
  /\ buffer' = IF buffer = << >> THEN buffer
               ELSE SubSeq(buffer, 1, Len(buffer) - 1)
  /\ ResetThen("idle", 0)
  /\ UNCHANGED <<evt, uart, parsed, reinits, buckets>>

IdleEnter ==
  /\ \E c \in Enter : Take(c)
  /\ IF buffer = << >>
     THEN ResetThen("idle", 1)
     ELSE FinishTo("parse", 0)
  /\ UNCHANGED <<evt, uart, buffer, parsed, reinits, buckets>>

IdleOther ==
  /\ \E c \in Other : Take(c)
  /\ FinishTo("drop", 0)
  /\ UNCHANGED <<evt, uart, buffer, parsed, reinits, buckets>>

(* Bugs: the line is kept; the event is left unmanaged.                    *)
DoDropKeeps ==
  /\ In("drop")
  /\ ResetThen("idle", 0)
  /\ UNCHANGED <<evt, uart, buffer, parsed, handled, reply, reinits, buckets>>

DoDropLeaves ==
  /\ In("drop")
  /\ buffer' = << >>
  /\ FinishTo("idle", 0)
  /\ UNCHANGED <<evt, uart, parsed, handled, reply, reinits, buckets>>

DoDrop ==
  /\ In("drop")
  /\ buffer' = << >>
  /\ ResetThen("idle", 0)
  /\ UNCHANGED <<evt, uart, parsed, handled, reply, reinits, buckets>>

(* strtok: where the next token begins and ends.                           *)
TokenStart(line, from) ==
  First({ i \in from .. Len(line) : line[i] # Space } \cup {Len(line) + 1})

TokenEnd(line, start) ==
  First({ j \in start .. Len(line) : j = Len(line) \/ line[j + 1] = Space }
          \cup {Len(line) + 1})

TokenN == (BufferLen + 1) \div 2

Nth(S, n) == CHOOSE i \in S : Cardinality({ j \in S : j <= i }) = n

(* tokens[i].token_type of a token and its value.                          *)
Classified(value) ==
  [type |-> IF ContainsKey(value) THEN "command" ELSE "argument", value |-> value]
NoToken == [type |-> "unknown", value |-> << >>]

(* ucli_parser_lexer: the ends of the tokens, and the array of them.       *)
Ends(line) ==
  LET ends[n \in 0 .. TokenN] ==
        IF n = 0 THEN 0 ELSE TokenEnd(line, TokenStart(line, ends[n - 1] + 1))
  IN  ends

Lexer(line) ==
  [n \in 1 .. TokenN |->
     LET start == TokenStart(line, Ends(line)[n - 1] + 1)
     IN  IF start > Len(line) THEN NoToken
         ELSE Classified(SubSeq(line, start, Ends(line)[n]))]

(* BufferLen characters leave no room for the terminator, so a token that  *)
(* reaches the end of tmp_buffer goes on in whatever follows it, which may *)
(* complete the name of a command.                                         *)
RunsOff(line) == Len(line) >= BufferLen /\ line[Len(line)] # Space

Completes(name, value) ==
  /\ ContainsKey(name) /\ Len(value) <= Len(name)
  /\ SubSeq(name, 1, Len(value)) = value

Tokens(line) ==
  IF ~RunsOff(line) THEN { Lexer(line) }
  ELSE LET last  == CHOOSE n \in 1 .. TokenN : Ends(line)[n] = Len(line)
           value == Lexer(line)[last].value
       IN  { [Lexer(line) EXCEPT ![last] = Classified(v)] :
               v \in { name \in Names : Completes(name, value) }
                        \cup {value, <<Junk>>} }

(* ucli_parser_parse: later tokens that are commands are left out.         *)
Parsed(tokens) ==
  LET arguments == { n \in 2 .. TokenN : tokens[n].type = "argument" }
  IN  [command |-> tokens[1].value,
       args    |-> [i \in 1 .. Cardinality(arguments) |->
                      tokens[Nth(arguments, i)].value]]

DoParse ==
  /\ In("parse")
  /\ buffer' = << >>
  /\ \E tokens \in Tokens(buffer) :
       IF tokens[1].type = "command"
       THEN /\ \/ parsed' = Parsed(tokens)
               \/ /\ RunsOff(buffer)   \* what follows holds one more word
                  /\ parsed' = [Parsed(tokens) EXCEPT !.args = @ \o << <<Junk>> >>]
            /\ FinishTo("exec", 0) /\ UNCHANGED reply
       ELSE ResetThen("idle", 0) /\ reply' = Unknown /\ UNCHANGED parsed
  /\ UNCHANGED <<evt, uart, handled, reinits, buckets>>

DoExec ==
  /\ In("exec")
  /\ reply' = IF ContainsKey(parsed.command)
              THEN [kind |-> "run", function |-> Get(parsed.command),
                    args |-> parsed.args]
              ELSE Unknown
  /\ parsed' = NoOrder
  /\ ResetThen("idle", 0)
  /\ UNCHANGED <<evt, uart, buffer, handled, reinits, buckets>>

(* ucli_add_command, by the main loop between two routines.                *)
AddCommand(name, function) ==
  /\ pc = "loop"
  /\ Add(name, function)
  /\ UNCHANGED <<fsm, uart, evt, buffer, parsed, seen>>

(* ucli_init again, between two routines; what was parsed is not read any  *)
(* more.                                                                   *)
Reinit ==
  /\ reinits < MaxReinits /\ pc = "loop"
  /\ reinits' = reinits + 1
  /\ state' = "init" /\ parsed' = NoOrder /\ buckets' = DictionaryEmpty
  /\ UNCHANGED <<pc, next, uart, evt, buffer, handled, prompts, reply>>

Main ==
  \/ DoInit \/ IdleNothing \/ IdlePrintable \/ IdleBackspace \/ IdleEnter
  \/ IdleOther \/ DoDrop \/ DoParse \/ DoExec
  \/ EnableReceive \/ SetManaged

Next ==
  \/ \E c \in Chars : Type(c)
  \/ Receive
  \/ Main
  \/ Reinit
  \/ \E offer \in Offers : AddCommand(offer[1], offer[2])

(* The main loop never stops calling ucli_routine, and the UART delivers a *)
(* character it has been armed for.  The user may stop typing.             *)
Spec == Init /\ [][Next]_vars /\ WF_vars(Main) /\ WF_vars(Receive)

-----------------------------------------------------------------------------
TypeOK ==
  /\ state \in States /\ next \in States
  /\ pc \in {"loop", "enable", "manage"}
  /\ managed \in BOOLEAN /\ event \in Chars \cup {Nothing}
  /\ buffer \in Seq(Printable) /\ Len(buffer) <= BufferLen
  /\ parsed.command \in Names \cup {<< >>} /\ Len(parsed.args) <= TokenN
  /\ armed \in BOOLEAN /\ register \in Chars \cup {Nothing}
  /\ preemptive \in Preemptive
  /\ handled \in Chars \cup {Nothing} /\ prompts \in 0 .. 2
  /\ reply.kind \in {"none", "run", "reject"}
  /\ (reply.kind = "run") = (reply.function \in Functions)
  /\ reinits \in 0 .. MaxReinits

(* The event is pending from the interrupt until do_idle takes it; the     *)
(* line is gone once a state other than idle works on it.                  *)
L == INSTANCE LineEditor WITH
       pending <- IF ~managed /\ pc = "loop" /\ state \in {"init", "idle"}
                  THEN event ELSE Nothing,
       restarts <- reinits,
       line    <- IF state = "idle" THEN buffer ELSE << >>,
       entered <- IF In("parse") THEN buffer ELSE << >>,
       order   <- parsed,
       registry <- [n \in Names |-> IF ContainsKey(n) THEN Get(n) ELSE NoFunction]

(* The state machine implements the line editor: no character is handled   *)
(* twice or skipped once it is accepted, no edit is lost in drop, parse or *)
(* exec, and the next character waits until the line entered is answered.  *)
(* When ucli_init is called again the line is lost, and a character that   *)
(* was handled but not managed yet comes up once more.                     *)
ImplementsLineEditor == L!Spec

(* Back in idle, exactly one prompt has been sent for the last character   *)
(* if a new line begins, none if the line goes on.                         *)
PromptOncePerLine ==
  pc = "loop" /\ state = "idle" /\ managed =>
    prompts = IF buffer = << >> /\ handled # Backspace THEN 1 ELSE 0

(* An accepted character does not block the interface for good: in the end *)
(* ucli_routine answers OK again.                                          *)
EveryEventManaged == ~managed ~> managed

(* The interface goes on listening: reception is armed again and again.    *)
KeepsListening == []<>armed

(* It does when characters are delivered between two calls of ucli_routine,*)
(* although no state function but the four that manage an event arms the   *)
(* reception, and ucli_init may come in the middle of a line.              *)
ListensWhenPolled == []<>(armed \/ preemptive)
=============================================================================
