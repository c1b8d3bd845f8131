----------------------------- MODULE LineEditor -----------------------------
(***************************************************************************)
(* What the command line promises its user: each character it accepts is   *)
(* handled exactly once, before the next one is accepted, and edits the    *)
(* line as a terminal does; a line that is entered is answered once, by    *)
(* running the function registered first for the command it names, with    *)
(* its arguments, or by an error.                                          *)
(***************************************************************************)
EXTENDS Integers, Sequences, FiniteSets

CONSTANTS Printable,   \* the printable characters
          Enter,       \* line feed and carriage return
          Backspace,
          Other,       \* any other character (Ctrl-C, escape sequences...)
          Space,       \* the printable character that separates tokens
          Nothing,     \* no character
          Names,       \* of commands that the program may register
          Functions,   \* what commands run
          NoFunction,
          Junk,        \* what a line without end goes on with in memory
          BufferLen,   \* the longest line
          MaxReinits   \* bound on restarts

VARIABLES pending,     \* the character accepted and not handled yet
          line,        \* the line being edited
          entered,     \* the line entered and not understood yet
          order,       \* the command understood and not run yet
          reply,       \* the answer to the last line
          registry,    \* the function of every name registered
          restarts

lvars == <<pending, line, entered, order, reply, registry, restarts>>

Chars == Printable \cup Enter \cup Other \cup {Backspace}

NoOrder == [command |-> << >>, args |-> << >>]
Silence == [kind |-> "none", function |-> NoFunction, args |-> << >>]
Unknown == [kind |-> "reject", function |-> NoFunction, args |-> << >>]

Init ==
  /\ pending = Nothing /\ line = << >> /\ entered = << >> /\ order = NoOrder
  /\ reply = Silence /\ restarts = 0
  /\ registry = [n \in Names |-> NoFunction]

(* The first function registered for a name is the one.                    *)
Register(n, f) ==
  /\ registry[n] = NoFunction
  /\ registry' = [registry EXCEPT ![n] = f]
  /\ UNCHANGED <<pending, line, entered, order, reply, restarts>>

Accept(c) ==
  /\ pending = Nothing /\ entered = << >> /\ order = NoOrder
  /\ pending' = c
  /\ UNCHANGED <<line, entered, order, reply, registry, restarts>>

Edited(c) ==
  CASE c \in Printable /\ Len(line) < BufferLen -> Append(line, c)
    [] c = Backspace /\ line # << >>            -> SubSeq(line, 1, Len(line) - 1)
    [] OTHER                                    -> << >>

Handle ==
  /\ pending # Nothing
  /\ pending' = Nothing
  /\ line' = Edited(pending)
  /\ entered' = IF pending \in Enter THEN line ELSE << >>
  /\ reply' = Silence
  /\ UNCHANGED <<order, registry, restarts>>

(* The words of a line: what spaces leave over.                            *)
WordStarts(l) == { i \in 1 .. Len(l) : l[i] # Space /\ (i > 1 => l[i - 1] = Space) }
WordEnds(l)   == { i \in 1 .. Len(l) : l[i] # Space /\ (i < Len(l) => l[i + 1] = Space) }

Nth(S, n) == CHOOSE i \in S : Cardinality({ j \in S : j <= i }) = n

Words(l) ==
  [n \in 1 .. Cardinality(WordStarts(l)) |->
     SubSeq(l, Nth(WordStarts(l), n), Nth(WordEnds(l), n))]

(* A line that fills the buffer has no end: its last word may go on, and   *)
(* another may follow it.                                                  *)
Unterminated(l) == Len(l) = BufferLen /\ l[Len(l)] # Space

Readings(l) ==
  IF ~Unterminated(l) THEN { Words(l) }
  ELSE { [Words(l) EXCEPT ![Len(Words(l))] = word] \o more :
           word \in Names \cup {Words(l)[Len(Words(l))], <<Junk>>},
           more \in { << >>, << <<Junk>> >> } }

Registered == { n \in Names : registry[n] # NoFunction }

(* The first word is the command; its arguments are the others, but for    *)
(* those that name a command themselves.                                   *)
Arguments(words) ==
  LET others == { n \in 2 .. Len(words) : words[n] \notin Registered }
  IN  [i \in 1 .. Cardinality(others) |-> words[Nth(others, i)]]

Understand(words) ==
  /\ words[1] \in Registered
  /\ order' = [command |-> words[1], args |-> Arguments(words)]
  /\ UNCHANGED reply

Refuse(words) ==
  /\ words[1] \notin Registered
  /\ reply' = Unknown
  /\ UNCHANGED order

Read ==
  /\ entered # << >>
  /\ entered' = << >>
  /\ \E words \in Readings(entered) :
       IF words = << >> THEN reply' = Unknown /\ UNCHANGED order
                        ELSE Understand(words) \/ Refuse(words)
  /\ UNCHANGED <<pending, line, registry, restarts>>

Run ==
  /\ order # NoOrder
  /\ reply' = [kind |-> "run", function |-> registry[order.command], args |-> order.args]
  /\ order' = NoOrder
  /\ UNCHANGED <<pending, line, entered, registry, restarts>>

(* The program starts the interface again: lines and commands are lost,    *)
(* and a character whose handling was not complete may be handled once     *)
(* more.                                                                   *)
Restart ==
  /\ restarts < MaxReinits
  /\ restarts' = restarts + 1
  /\ line' = << >> /\ entered' = << >> /\ order' = NoOrder
  /\ registry' = [n \in Names |-> NoFunction]
  /\ pending' \in IF pending = Nothing THEN Chars \cup {Nothing} ELSE {pending}
  /\ UNCHANGED reply

Next ==
  \/ \E n \in Names, f \in Functions : Register(n, f)
  \/ \E c \in Chars : Accept(c)
  \/ Handle \/ Read \/ Run \/ Restart

Spec == Init /\ [][Next]_lvars
=============================================================================
