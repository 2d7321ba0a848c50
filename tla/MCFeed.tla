------------------------------- MODULE MCFeed -------------------------------
(***************************************************************************)
(* Small instances of the feed.                                            *)
(***************************************************************************)
EXTENDS FeedProperties

Accepted(trader, market) ==
  [type |-> "order_accepted", market |-> market, trader |-> trader]

MCNames == {"BTC", "ETH", "aa", "bb"}

\* One trader's order rests; another trades with a part of it; the first cancels
\* what is left and sends an order to a market without a book.
MCRestored == << Accepted("aa", "BTC") >>
Cancelled == [type |-> "order_cancelled", order |-> 1]
MCCalls ==
  << << Accepted("bb", "BTC"),
        [type |-> "fill", market |-> "BTC", taker |-> "bb", maker |-> "aa"] >>,
     << Cancelled >>,
     << Accepted("aa", "ETH") >> >>
MCBookless == {"ETH"}

\* Instead, the first only cancels the order.
MCCancelCalls == << << Cancelled >> >>

\* The private channel of the first trader.
MCChannels == { <<"orders", "aa">> }

MCFromSeqs == {0, 1}
=============================================================================
