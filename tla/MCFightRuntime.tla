--------------------------- MODULE MCFightRuntime ---------------------------
EXTENDS FightRuntime, TLC

CONSTANTS file, live

\* The desired states of this instance.  Between two of them a camera is started, moved,
\* stopped, or loses or gains Fight; the last two leave nobody who wants Fight.
Wish(f, l) == file :> f @@ live :> l
MCLoads == {Wish("fight", "fight"), Wish("moved", "plain"), Wish("plain", "fight"),
            Wish("off", "moved"), Wish("off", "off")}
=============================================================================
