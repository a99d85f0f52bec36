---------------------------- MODULE MCInstaller ----------------------------
(***************************************************************************)
(* Values for the constants of Installer: two games, one release of the    *)
(* old folder and two of the new one, of which only the latest has a       *)
(* usbdevice.skprx, and configs as taiHENkaku's own installer leaves them. *)
(***************************************************************************)
EXTENDS Installer

CONSTANTS r_fix2, r_v2, r_v51

G1 == "PCSG00001"
G2 == "PCSG00002"
OneGame == {G1}
TwoGames == {G1, G2}

(* Games with both files; and one that has an EBOOT.PBP and is not listed  *)
(* beside one that is listed and has none.                                 *)
OfficialOnly == {[marked |-> {G1}, playable |-> {G1}]}
OfficialOrOdd ==
    {[marked |-> TwoGames, playable |-> TwoGames], [marked |-> {G2}, playable |-> {G1}]}

(* The stock config, and one with plugins of the user's for the kernel and *)
(* for a game, one of them in a directory with the game's name.            *)
Stock == {Header(1, Kernel), Header(2, "main"), Plugin(2, "user", "henkaku.suprx")}
WithOwnGame ==
    {Header(1, Kernel), Plugin(1, "user", "nonpdrm.skprx"),
     Header(2, G1), Plugin(2, "user", "cheat.suprx"), Plugin(2, "user", G1)}

AnyWord == STRING
Ux0 == {"ux0"}
Ur0 == {"ur0"}
ThreeReleases == {r_fix2, r_v2, r_v51}
TwoReleases == {r_fix2, r_v51}
OldOnes == {r_fix2}
UsbOnes == {r_v51}
StockConfig == {Stock}
OwnGameConfig == {WithOwnGame}

-----------------------------------------------------------------------------
(* What a comment or a table of the code says and the code does not do.    *)

(* The start-up check removes an entry because "the game was deleted": no  *)
(* step of it loses the header of a section that is no game's, such as     *)
(* *KERNEL and *main.                                                      *)
SystemHeaders(file) == {h \in LinesOf(file) : h.kind = "head" /\ h.of \notin Games}
SystemSectionsKept ==
    [][ram.op = "check" /\ clean' =>
          SystemHeaders(config[ram.tai]) \subseteq
              (LinesOf(config[before.tai]) \union LinesOf(temp))']_vars

=============================================================================
