----------------------------- MODULE SharedFile -----------------------------
(***************************************************************************)
(* What a file that several processes write at once may contain.  fs::write *)
(* and File::create empty the file first; each writer then writes its whole *)
(* text from the beginning, over what others have written since.            *)
(***************************************************************************)

Absent == [state |-> "absent"]

Empty == [state |-> "empty"]

Whole(text) == [state |-> "whole", text |-> text]

(* The beginning of some text and the end of a longer one. *)
Mixed(longest) == [state |-> "mixed", text |-> longest]

(* longer: does the text that is there reach beyond the one that is written? *)
Overwritten(content, text, longer) ==
    IF content.state \in {"whole", "mixed"} /\ longer
    THEN Mixed(content.text)
    ELSE Whole(text)
=============================================================================
