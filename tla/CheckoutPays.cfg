\* One buyer, with one of three wallets, at two replicas whose clocks differ by a tick.
SPECIFICATION FairSpec
CONSTANTS
    r1 = r1  r2 = r2  b1 = b1  seller = seller
    NoTable = NoTable  Unpriced = Unpriced  Nowhere = Nowhere  NoOffer = NoOffer
    Networks = {"testnet", "mainnet"}
    Payees = {seller}
    SkewAllowance = 1
    Buyers = {b1}
    Wallets <- mcWallets
    Patience = 3
    MaxLosses = 1
    Replicas = {r1, r2}
    Skew <- mcSkew
    MaxServe = 1
    Prices <- mcPrices
    MaxEvents = 2
    MaxTime = 4
INVARIANTS TypeOK ChargedAsQuoted ErrorMeansUncharged
PROPERTIES HonestPaymentHonoured PayEnds
CHECK_DEADLOCK FALSE
