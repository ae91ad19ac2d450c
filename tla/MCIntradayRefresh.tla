-------------------------- MODULE MCIntradayRefresh --------------------------
\* Instances of IntradayRefresh for TLC.
EXTENDS IntradayRefresh

MCStories == [ticker : {"A"}, kind : {"near", "plain"}]
=============================================================================
