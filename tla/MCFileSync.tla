----------------------------- MODULE MCFileSync -----------------------------
(* A tree of a file of two chunks, a file of one, and an empty file in a   *)
(* subdirectory.                                                           *)
EXTENDS FileSync

CONSTANTS big, small, empty, top, sub

ThreeFiles == {big, small, empty}
Chunks == [f \in {big, small, empty} |->
             CASE f = big -> <<1, 2>> [] f = small -> <<3>> [] OTHER -> <<>>]
Tree == [x \in {big, small, empty, sub, top} |->
           CASE x = empty -> sub [] x = top -> None [] OTHER -> top]
AllCommands == {"push", "install", "pushdir", "sync", "list", "pull", "pulldir", "ls"}

============================================================================
