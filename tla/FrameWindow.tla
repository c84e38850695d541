----------------------------- MODULE FrameWindow -----------------------------
(***************************************************************************)
(* What a frame ring promises the pane that draws from it: a window on the *)
(* frames recorded so far, oldest first and without a gap, and one step of  *)
(* it on screen.  Recording adds the next step at the new end and may       *)
(* forget steps at the old end, never the newest.  The step on screen is    *)
(* the reader's: recording moves it only when the reader follows the        *)
(* recording, or when the step itself was forgotten.                        *)
(*                                                                         *)
(* `History' (web/src/history.ts) implements this.                          *)
(***************************************************************************)
EXTENDS Sequences, FiniteSetsExt

CONSTANT FrameLimit      \* bound: frames recorded between two clears

VARIABLES window,        \* the steps whose frames are held, oldest first
          shown,         \* the step on screen, 0 when nothing is held
          following      \* does the reader follow the recording?

fwVars == <<window, shown, following>>

Oldest == window[1]
Newest == window[Len(window)]

WindowInit ==
    /\ window = <<>>
    /\ shown = 0
    /\ following = FALSE

-----------------------------------------------------------------------------
(* The window after step `next' was recorded and the `gone' oldest steps    *)
(* were forgotten.                                                          *)
Extended(next, gone) == SubSeq(Append(window, next), gone + 1, Len(window) + 1)

WindowRecord ==
    \E gone \in 0..Len(window) :
        LET next == IF window = <<>> THEN 0 ELSE Newest + 1
            w    == Extended(next, gone)
        IN  /\ next < FrameLimit
            /\ window' = w
            /\ shown' = IF following THEN next ELSE Max({shown, w[1]})
            /\ UNCHANGED following

(* The reader chooses a step; on the newest one it follows from then on.    *)
WindowSeek ==
    /\ window /= <<>>
    /\ \E s \in Oldest..Newest :
          /\ shown' = s
          /\ following' = (s = Newest)
    /\ UNCHANGED window

(* Stepping back leaves the recording even from the oldest step.            *)
WindowBack ==
    /\ window /= <<>>
    /\ shown' = Max({Oldest, shown - 1})
    /\ following' = FALSE
    /\ UNCHANGED window

WindowForward ==
    /\ window /= <<>>
    /\ shown' = Min({Newest, shown + 1})
    /\ following' = (shown' = Newest)
    /\ UNCHANGED window

WindowClear ==
    /\ window' = <<>>
    /\ shown' = 0
    /\ following' = FALSE

WindowNext ==
    \/ WindowRecord
    \/ WindowSeek
    \/ WindowBack
    \/ WindowForward
    \/ WindowClear

WindowSpec == WindowInit /\ [][WindowNext]_fwVars
=============================================================================
