----------------------------- MODULE UartHistory -----------------------------
(***************************************************************************)
(* The command line of the terminal (src/adaptation/uart_term.c): the line *)
(* that is edited and the ring of former commands the arrow keys walk      *)
(* through.  Editing inside a line (insert, delete, cursor, completion) is *)
(* one step to any other line.  What is edited is written back into the    *)
(* entry it came from before another one is loaded.                        *)
(***************************************************************************)
EXTENDS Integers

CONSTANTS Lines,      \* what may stand in the line; "" is the empty line
          HistoryLen  \* CMD_HISTORY_LEN

VARIABLES buf, head, iterCursor, isFull,  \* hist
          charBuf,   \* the line; maxLen is exceeded when it is "long"
          original,  \* originalInput
          replaced,  \* the line shown comes from the history
          typed,     \* what the user left in the line of his own (history)
          stale      \* the last walk was left in its middle (history)

termVars == <<buf, head, iterCursor, isFull, charBuf, original, replaced, typed, stale>>
hist     == <<buf, head, isFull>>

Null == "null"
NoInput == ""
Slots == 0..(HistoryLen - 1)

Init ==
  /\ buf = [i \in Slots |-> Null] /\ head = 0 /\ iterCursor = 0 /\ isFull = FALSE
  /\ charBuf = NoInput /\ original = Null /\ replaced = FALSE
  /\ typed = NoInput /\ stale = FALSE

PrevHead == IF head > 0 THEN head - 1 ELSE IF isFull THEN HistoryLen - 1 ELSE 0
NextHead == (head + 1) % HistoryLen

\* A printable character, a deletion or a completion; a line that is too long ends.
Edit(line) ==
  /\ line # charBuf /\ charBuf # "long"
  /\ charBuf' = line
  /\ typed' = IF replaced THEN typed ELSE line
  /\ UNCHANGED <<hist, iterCursor, original, replaced, stale>>

\* "write changes to currently edited command": the line goes back to where it came from
\* and the entry comes into it.
Load(line) ==
  /\ charBuf' = line
  /\ IF replaced
     THEN buf' = [buf EXCEPT ![iterCursor] = charBuf] /\ UNCHANGED original
     ELSE original' = charBuf /\ UNCHANGED buf

\* prevHistoryCommand
AtOldest ==
  \/ iterCursor = 0 /\ (~isFull \/ head = HistoryLen - 1)
  \/ iterCursor > 0 /\ iterCursor - 1 = head

Older == (iterCursor + HistoryLen - 1) % HistoryLen

CursorUp ==
  /\ ~AtOldest /\ charBuf # "long"
  /\ iterCursor' = Older
  /\ IF buf[Older] = Null THEN UNCHANGED <<buf, charBuf, original, replaced>>
                          ELSE Load(buf[Older]) /\ replaced' = TRUE
  /\ UNCHANGED <<head, isFull, typed, stale>>

\* Past the newest command the user's own line comes back.
BackToLine ==
  /\ replaced /\ iterCursor = PrevHead /\ charBuf # "long"
  /\ Load(original) /\ iterCursor' = head /\ replaced' = FALSE
  /\ UNCHANGED <<head, isFull, typed, stale>>

\* nextHistoryCommand
Newer == (iterCursor + 1) % HistoryLen

CursorDown ==
  /\ ~(replaced /\ iterCursor = PrevHead) /\ iterCursor # head /\ charBuf # "long"
  /\ iterCursor' = Newer
  /\ IF buf[Newer] = Null THEN UNCHANGED <<buf, charBuf, original>> ELSE Load(buf[Newer])
  /\ UNCHANGED <<head, isFull, replaced, typed, stale>>

\* startNewLine: the next line begins empty, wherever the walk was left.
NewLine(cursor) ==
  /\ iterCursor' = cursor
  /\ charBuf' = NoInput /\ typed' = NoInput /\ original' = Null /\ replaced' = FALSE

\* pushCommand: a command that repeats the last one is not pushed.
Push ==
  /\ charBuf \notin {NoInput, "long"}
  /\ buf[PrevHead] # charBuf
  /\ buf' = [buf EXCEPT ![head] = charBuf]
  /\ head' = NextHead
  /\ isFull' = (isFull \/ NextHead = 0)
  /\ NewLine(NextHead)
  /\ stale' = FALSE

\* The command repeats the last one, or the line is empty or too long.
EndWithoutPush ==
  /\ charBuf \in {NoInput, "long"} \/ buf[PrevHead] = charBuf
  /\ NewLine(iterCursor)
  /\ stale' = (iterCursor # head)
  /\ UNCHANGED hist

Next ==
  \/ \E line \in Lines : Edit(line)
  \/ CursorUp \/ CursorDown \/ BackToLine \/ Push \/ EndWithoutPush

Spec == Init /\ [][Next]_termVars

-----------------------------------------------------------------------------
\* Walking up and down again gives the user back the line he had typed, and a walk begins
\* at the newest command; unless the walk of an earlier line was left in its middle by a
\* line that was not pushed, which does not reset the cursor (uart_term.c:869).
WalkReturns ==
  ~stale => /\ ~replaced => charBuf = typed /\ iterCursor = head
            /\ replaced => original = typed /\ iterCursor # head /\ buf[iterCursor] # Null
=============================================================================
