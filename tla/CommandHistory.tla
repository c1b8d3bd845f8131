--------------------------- MODULE CommandHistory ---------------------------
(***************************************************************************)
(* What the older command line promises its user: a line with a cursor in  *)
(* it, keys made of several characters, and the lines entered before,      *)
(* which can be recalled and edited; one that is like the last is not kept *)
(* twice.                                                                  *)
(***************************************************************************)
EXTENDS Integers, Sequences

CONSTANTS Printable,
          Esc, Bracket, Enter, Erase, Break,      \* characters
          Ignored,                                \* any that has no effect
          Up, Down, Right, Left, Delete,          \* that end a key
          Nothing,
          Help                                    \* an empty line asks for it

VARIABLES arriving,     \* the character that comes next
          line, cursor, \* cursor: how many characters are before it
          origin,       \* of the line: "cleared", or "junk" behind the latest one
          mode,         \* "text", "escape" inside a key, "key" at its end
          key,          \* the character that ended it
          entered,      \* the line is to be run
          past,         \* the lines entered, latest first, with origin and mode
          at,           \* the one recalled; 0 for the line that is new
          ran,          \* the last line run
          lost          \* what happens from here on is unknown

hvars == <<arriving, line, cursor, origin, mode, key, entered, past, at, ran, lost>>

Before == SubSeq(line, 1, cursor)
After  == SubSeq(line, cursor + 1, Len(line))

Init ==
  /\ arriving = Nothing /\ line = << >> /\ cursor = 0 /\ origin = "cleared"
  /\ mode = "text" /\ key = Nothing /\ entered = FALSE
  /\ past = << >> /\ at = 0 /\ ran = << >> /\ lost = FALSE

Type(c) ==
  /\ arriving = Nothing /\ arriving' = c
  /\ UNCHANGED <<line, cursor, origin, mode, key, entered, past, at, ran>>

(* A character outside a key edits the line, inside one it ends it; Esc    *)
(* begins one, and what else controls the line does so anyway.             *)
Accept ==
  /\ arriving' = Nothing
  /\ UNCHANGED <<origin, past, at, ran>>
  /\ \/ /\ arriving = Esc
        /\ mode' = "escape" /\ key' = Nothing
        /\ UNCHANGED <<line, cursor, entered>>
     \/ arriving = Enter /\ entered' = TRUE /\ UNCHANGED <<line, cursor, mode, key>>
     \/ /\ arriving = Break
        /\ line' = <<Break>> /\ cursor' = 1 /\ entered' = TRUE
        /\ UNCHANGED <<mode, key>>
     \/ /\ arriving = Erase
        /\ IF cursor = 0 THEN UNCHANGED <<line, cursor>>
           ELSE cursor' = cursor - 1 /\ line' = SubSeq(line, 1, cursor - 1) \o After
        /\ UNCHANGED <<mode, key, entered>>
     \/ /\ arriving \in Printable /\ mode # "escape"
        /\ line' = Before \o <<arriving>> \o After /\ cursor' = cursor + 1
        /\ UNCHANGED <<mode, key, entered>>
     \/ /\ arriving \in Printable \ {Bracket} /\ mode = "escape"
        /\ mode' = "key" /\ key' = arriving
        /\ UNCHANGED <<line, cursor, entered>>
     \/ /\ \/ arriving \notin Printable \cup {Esc, Enter, Break, Erase}
           \/ arriving = Bracket /\ mode = "escape"
        /\ UNCHANGED <<line, cursor, mode, key, entered>>

(* A line recalled comes with the mode it was entered in.  Beyond the      *)
(* latest one there is an empty line, of which nothing else is known: a    *)
(* key may seem to have begun or ended, and junk may be all there is       *)
(* behind the line.                                                        *)
Recall(n) ==
  /\ at' = n
  /\ IF n = 0
     THEN /\ line' = << >> /\ origin' \in {"cleared", "junk"}
          /\ mode' \in {"text", "escape", "key"}
     ELSE /\ line' = past[n].line /\ origin' = past[n].origin
          /\ mode' = past[n].mode /\ key' = Nothing
  /\ cursor' = Len(line')

Act ==
  /\ mode = "key"
  /\ UNCHANGED <<arriving, entered, past, ran>>
  /\ \/ key = Up /\ at < Len(past) /\ Recall(at + 1)
     \/ key = Down /\ at > 0 /\ Recall(at - 1)
     \/ /\ mode' = "text" /\ key' = Nothing /\ UNCHANGED <<origin, at>>
        /\ \/ key = Up /\ at = Len(past) /\ UNCHANGED <<line, cursor>>
           \/ key = Down /\ at = 0 /\ UNCHANGED <<line, cursor>>
           \/ /\ key = Left /\ cursor' = IF cursor = 0 THEN 0 ELSE cursor - 1
              /\ UNCHANGED line
           \/ /\ key = Right
              /\ cursor' = IF cursor = Len(line) THEN cursor ELSE cursor + 1
              /\ UNCHANGED line
           \/ /\ key = Delete /\ UNCHANGED cursor
              /\ IF cursor < Len(line) THEN line' = Before \o Tail(After)
                 ELSE SubSeq(line', 1, cursor) = line  \* old text may come back
           \/ key \notin {Up, Down, Right, Left, Delete} /\ UNCHANGED <<line, cursor>>

(* Only a deletion at the end of a line that goes back to junk leads away. *)
Lose ==
  /\ mode = "key" /\ key = Delete /\ cursor = Len(line) /\ origin = "junk"
  /\ lost' = TRUE
  /\ UNCHANGED <<arriving, line, cursor, origin, mode, key, entered, past, at, ran>>

(* An empty line, which asks for help, and one like the last are not kept. *)
Run ==
  /\ entered /\ mode # "key"
  /\ entered' = FALSE
  /\ ran' = IF line = << >> THEN <<Help>> ELSE line
  /\ past' = IF line = << >> \/ (past # << >> /\ past[1].line = line) THEN past
             ELSE << [line |-> line, origin |-> origin, mode |-> mode] >> \o past
  /\ line' = << >> /\ cursor' = 0 /\ at' = 0
  /\ UNCHANGED <<arriving, origin, mode, key>>

Next ==
  /\ ~lost
  /\ \/ /\ \/ \E c \in Printable \cup {Esc, Enter, Erase, Break, Ignored} : Type(c)
           \/ Accept \/ Act \/ Run
        /\ UNCHANGED lost
     \/ Lose

Spec == Init /\ [][Next]_hvars
=============================================================================
