---- MODULE MCExchangeReplay ----
\* The instance of MCExchange with the book rebuilt from the log.
EXTENDS ExchangeReplay, MCExchange
====
