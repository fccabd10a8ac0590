CONSTANTS
    MaxItems = 2
SPECIFICATION Spec
INVARIANTS StrangersDoNothing ExpiredIsNotServed
INVARIANTS OneAnswerElsewhere GoodRequestsAreServedElsewhere ServedAsAskedElsewhere
