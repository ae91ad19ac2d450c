-------------------------- MODULE MCSourceIngestion --------------------------
\* An instance of SourceIngestion for TLC.
EXTENDS SourceIngestion

CONSTANTS t1, t2

MCTickers == <<t1, t2>>
MCFamilies == {"technical", "fundamental", "option_chain", "events_news", "social_macro"}

\* Social feed and option chain are wired in no deployment of this instance.
MCUnwired == {{"social_macro", "option_chain", "premarket_price"},
              {"social_macro", "option_chain", "intraday", "condenser"}}
=============================================================================
