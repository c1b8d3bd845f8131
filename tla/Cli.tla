-------------------------------- MODULE Cli --------------------------------
(***************************************************************************)
(* cli-legacy/cli.c: a line in an array with a terminator, moved about by  *)
(* loops over the array, and the history, a linked list (the sequence that *)
(* LList implements) whose first entry is an empty one.  The array is      *)
(* never cleared: behind the terminator is what older lines left there.    *)
(*                                                                         *)
(* The receive interrupt stores a character and sets a flag; cli_loop      *)
(* handles the character, and only then starts the next reception.  Lines  *)
(* have no blanks and are shorter than the array by two characters, for    *)
(* the code writes behind it when a full line is edited.  A deletion that  *)
(* runs out of the array ends the model: the program is lost.              *)
(***************************************************************************)
EXTENDS Integers, Sequences

CONSTANTS Plain,       \* the printable characters users type in lines
          BufSize,     \* BUF_SIZE
          Junk,        \* what malloc may leave in a buffer
          MaxHistory   \* bound: lines entered while so many are kept

Nul     == "nul"
Esc     == "esc"
Enter   == "cr"
Erase   == "bs"
Break   == "etx"
Ignored == "~"             \* and '\n', see CharReceive
Bracket == "["
Up      == "A"
Down    == "B"
Right   == "C"
Left    == "D"
Delete  == "3"

Letters == {Up, Down, Right, Left, Delete}
Stored  == Plain \cup {Nul, Break, "?"}
Places  == 0 .. (BufSize - 1)
Modes   == {"received", "waiting", "none"}

Keys    == Letters \cup Plain \cup {Nul}
Buffers == [index : Nat, mode : Modes, escape : Keys, text : [Places -> Stored]]

(* Of the memory from malloc: escape_state is one of its three values, and *)
(* the text has no control character that the code looks for.              *)
CliAssumption ==
  /\ BufSize \in Nat /\ BufSize > 2
  /\ Plain \cap (Letters \cup {Bracket, Nul, Esc, Enter, Erase, Break, Ignored}) = {}
  /\ Junk \subseteq Buffers

VARIABLES cmd,        \* current_command: index, mode (escape_state), escape, text
          history,    \* latest first; the first is the empty one
          histIndex,  \* current_hist_index
          receive, complete, input,
          pc,         \* in cli_loop: before or behind cli_char_receive, or lost
          ran         \* the command looked up last, as it was entered

vars == <<cmd, history, histIndex, receive, complete, input, pc, ran>>

(* strlen.                                                                 *)
Length(text) ==
  CHOOSE n \in Places : text[n] = Nul /\ \A m \in 0 .. (n - 1) : text[m] # Nul

(* cli_buf_init.                                                           *)
Emptied(buf) == [buf EXCEPT !.index = 0, !.text[0] = Nul]

Empty == [index |-> 0, mode |-> "none", escape |-> Nul, text |-> [i \in Places |-> Nul]]

(* cli_init on a handle in static memory.                                  *)
Init ==
  /\ cmd = Empty
  /\ history = << Empty >> /\ histIndex = 0
  /\ receive = TRUE /\ complete = FALSE /\ input = Nul
  /\ pc = "receive" /\ ran = << >>

(* The reception is on from the end of one cli_char_receive to the next.   *)
(* A character that comes in the rest of cli_loop is not looked at before  *)
(* the next call, so it may as well come at its end.  Bounds: the length   *)
(* of a line and of the history; letters of keys are typed only in keys.   *)
HandleInterrupt(c) ==
  /\ pc = "receive" /\ ~receive
  /\ c \in Plain /\ cmd.mode # "waiting" => Length(cmd.text) < BufSize - 2
  /\ c \in Letters \cup {Bracket} => cmd.mode = "waiting"
  /\ c \in {Enter, Break} => Len(history) <= MaxHistory
  /\ receive' = TRUE /\ input' = c
  /\ UNCHANGED <<cmd, history, histIndex, complete, pc, ran>>

-----------------------------------------------------------------------------
(* The loop of a deletion at place i: until the first terminator behind i, *)
(* or out of the array.                                                    *)
Closes(text, i) == \E n \in (i + 1) .. (BufSize - 1) : text[n] = Nul

CloseUp(text, i) ==
  LET end == CHOOSE n \in (i + 1) .. (BufSize - 1) :
               text[n] = Nul /\ \A m \in (i + 1) .. (n - 1) : text[m] # Nul
  IN  [j \in Places |-> IF j \in i .. (end - 1) THEN text[j + 1] ELSE text[j]]

(* The loop of an insertion.  Bug the runs have to notice: the terminator  *)
(* stays where it is.                                                      *)
OpenUpShort(text, i) ==
  [j \in Places |-> IF j \in (i + 1) .. Length(text) THEN text[j - 1] ELSE text[j]]

OpenUp(text, i) ==
  [j \in Places |-> IF j \in (i + 1) .. (Length(text) + 1) THEN text[j - 1] ELSE text[j]]

(* A '\n' counts only behind a '\r' and a '\r' takes a '\n' before it away:  *)
(* neither is ever stored.  Before the first character both look at the    *)
(* byte in front of the array, which is one of escape_state's.             *)
CharReceive ==
  \/ /\ input \in {Nul, Ignored}
     /\ UNCHANGED <<cmd, complete>>
  \/ /\ input = Esc
     /\ cmd' = [cmd EXCEPT !.mode = "waiting"]
     /\ UNCHANGED complete
  \/ /\ input = Enter
     /\ complete' = TRUE
     /\ UNCHANGED cmd
  \/ /\ input = Erase
     /\ cmd' = IF cmd.index = 0 THEN cmd
               ELSE [cmd EXCEPT !.index = @ - 1, !.text = CloseUp(@, cmd.index - 1)]
     /\ UNCHANGED complete
  \/ /\ input = Break
     /\ cmd' = [cmd EXCEPT !.index = 1, !.text = [@ EXCEPT ![0] = Break, ![1] = Nul]]
     /\ complete' = TRUE
  \/ /\ input \in Plain \cup Letters \cup {Bracket}
     /\ cmd' = IF cmd.mode = "waiting"
               THEN IF input = Bracket THEN cmd
                    ELSE [cmd EXCEPT !.mode = "received", !.escape = input]
               ELSE [cmd EXCEPT !.index = @ + 1,
                                !.text = [OpenUp(@, cmd.index) EXCEPT ![cmd.index] = input]]
     /\ UNCHANGED complete

(* The first part of cli_loop.                                             *)
LoopReceive ==
  /\ pc = "receive" /\ pc' = "rest"
  /\ IF receive
     THEN CharReceive /\ receive' = FALSE /\ input' = Nul
     ELSE UNCHANGED <<cmd, complete, receive, input>>
  /\ UNCHANGED <<history, histIndex, ran>>

-----------------------------------------------------------------------------
Plainly == [cmd EXCEPT !.mode = "none", !.escape = Nul]

(* _cli_handle_history_escape.  The first entry comes from malloc, and     *)
(* cli_buf_init sets only the index and the terminator.  The escape is not *)
(* read before it is set again, but for the one malloc left.               *)
Recall(i) ==
  IF i \notin 0 .. (Len(history) - 1)
  THEN cmd' = Plainly /\ UNCHANGED histIndex
  ELSE /\ histIndex' = i
       /\ IF i = 0 THEN \E junk \in Junk : cmd' = Emptied(junk)
          ELSE cmd' = history[i + 1]

(* _cli_handle_rl_escape.                                                  *)
Leftwards(buf)  == [buf EXCEPT !.index = IF @ = 0 THEN 0 ELSE @ - 1]
Rightwards(buf) == [buf EXCEPT !.index = IF buf.text[@] = Nul THEN @ ELSE @ + 1]

(* cli_handle_escape.                                                      *)
HandleEscape ==
  /\ cmd.escape = Delete => Closes(cmd.text, cmd.index)
  /\ CASE cmd.escape = Up     -> Recall(histIndex + 1)
       [] cmd.escape = Down   -> Recall(histIndex - 1)
       [] cmd.escape = Right  -> cmd' = Rightwards(Plainly) /\ UNCHANGED histIndex
       [] cmd.escape = Left   -> cmd' = Leftwards(Plainly) /\ UNCHANGED histIndex
       [] cmd.escape = Delete -> /\ cmd' = [Plainly EXCEPT !.text = CloseUp(@, cmd.index)]
                                 /\ UNCHANGED histIndex
       [] OTHER               -> cmd' = Plainly /\ UNCHANGED histIndex
  /\ UNCHANGED <<history, complete, ran>>

Line(text) == [i \in 1 .. Length(text) |-> text[i - 1]]

(* cli_clean has nothing to remove and finds the length.  The entry that   *)
(* was empty takes the command, and a new one goes in front.               *)
Saved(cleaned) ==
  IF cleaned.index > 0
     /\ (Len(history) > 1 => Line(history[2].text) # Line(cleaned.text))
  THEN << Empty, cleaned >> \o Tail(history) ELSE history

(* An empty command becomes the one that shows the help.                   *)
Completed ==
  LET cleaned == [cmd EXCEPT !.index = Length(cmd.text)]
      asked   == IF cleaned.index = 0
                 THEN [cleaned EXCEPT !.text = [@ EXCEPT ![0] = "?", ![1] = Nul]]
                 ELSE cleaned
  IN  /\ complete' = FALSE
      /\ history' = Saved(cleaned)
      /\ ran' = Line(asked.text)
      /\ cmd' = Emptied(asked)
      /\ histIndex' = 0

LoopRest ==
  /\ pc = "rest" /\ pc' = "receive"
  /\ IF cmd.mode = "received" THEN HandleEscape
     ELSE IF complete THEN Completed
     ELSE UNCHANGED <<cmd, history, histIndex, complete, ran>>
  /\ UNCHANGED <<receive, input>>

(* The deletion in cli_handle_escape goes on behind the array.             *)
LoopLost ==
  /\ pc = "rest" /\ pc' = "lost"
  /\ cmd.mode = "received" /\ cmd.escape = Delete /\ ~Closes(cmd.text, cmd.index)
  /\ UNCHANGED <<cmd, history, histIndex, receive, complete, input, ran>>

(* Of a program that is lost nothing more is said.                         *)
Lost == pc = "lost" /\ UNCHANGED vars

Next ==
  \/ \E c \in Plain \cup Letters \cup {Bracket, Esc, Enter, Erase, Break, Ignored} :
       HandleInterrupt(c)
  \/ LoopReceive \/ LoopRest
  \/ LoopLost \/ Lost

Spec == Init /\ [][Next]_vars

-----------------------------------------------------------------------------
(* The cursor stays on the line, the line ends two places before the end   *)
(* of the array, and the entry recalled is one of the history.             *)
TypeOK ==
  /\ cmd.mode \in Modes /\ cmd.text \in [Places -> Stored]
  /\ cmd.index \in 0 .. Length(cmd.text) /\ Length(cmd.text) <= BufSize - 2
  /\ histIndex \in 0 .. (Len(history) - 1)
  /\ history[1].index = 0

Mode(mode) == CASE mode = "received" -> "key" [] mode = "waiting" -> "escape"
                [] mode = "none" -> "text"

(* The last place is never written: it tells an array that was cleared     *)
(* from one that malloc left full.                                         *)
Origin(text) == IF text[BufSize - 1] = Nul THEN "cleared" ELSE "junk"

H == INSTANCE CommandHistory WITH
       Printable <- Plain \cup Letters \cup {Bracket}, Nothing <- Nul,
       arriving <- input,
       line <- Line(cmd.text), cursor <- cmd.index, origin <- Origin(cmd.text),
       mode <- Mode(cmd.mode),
       key <- IF cmd.mode = "received" THEN cmd.escape ELSE Nul,
       entered <- complete,
       past <- [i \in 1 .. (Len(history) - 1) |->
                  [line |-> Line(history[i + 1].text), origin |-> Origin(history[i + 1].text),
                   mode |-> Mode(history[i + 1].mode)]],
       at <- histIndex, Help <- "?", lost <- pc = "lost"

(* The arrays are the lines, whatever older ones left in them: every key   *)
(* does to the line what it says, and a line recalled is the one that was  *)
(* entered.  Promised of a deletion at the end is only what comes before,  *)
(* and not even that where the line goes back to the empty entry.          *)
ImplementsHistory == H!Spec
=============================================================================
