----------------------------- MODULE MCDailyBars -----------------------------
EXTENDS DailyBars

CONSTANTS listed, pin, spy

TheLegacy == {<<listed, 0>>}
=============================================================================
