------------------------------- MODULE MCMenu -------------------------------
(***************************************************************************)
(* The lists of main.c, each with the sets of entries system_check and the *)
(* version file can leave blocked, and lists of one to seven games.  An    *)
(* empty version file blocks every entry whose arg is "": of theme_menu    *)
(* and more_menu all of them.                                              *)
(***************************************************************************)
EXTENDS Menu

NoOpens == [s \in {} |-> {}]
List(n, starts, exits) ==
    [options |-> n, starts |-> starts, exits |-> exits, closes |-> {}, opens |-> NoOpens]

recovery_menu == List(5, {{}, {1}, {0, 1}}, {4})
installer_menu == List(4, {{}, {0}, {2}, {1, 2, 3}}, {3})
files_menu == List(11, {{}} \union {{v} : v \in 0..10}, {})
theme_menu ==
    [options |-> 5, starts |-> {{a} \union b : a \in {0, 1}, b \in {{2}, {3}, {2, 3}}} \union {0..4},
     exits |-> {4}, closes |-> {2, 3}, opens |-> [s \in {2, 3} |-> {5 - s}]]
more_menu ==
    [options |-> 9, starts |-> (SUBSET {0, 1, 2, 3}) \union {0..8},
     exits |-> {8}, closes |-> {1, 2, 3}, opens |-> [s \in {1, 2, 3} |-> {}]]
GameLists == {List(n, {{}}, {}) : n \in 1..7}

MCMenus == {recovery_menu, installer_menu, files_menu, theme_menu, more_menu} \union GameLists

=============================================================================
