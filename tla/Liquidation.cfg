SPECIFICATION Spec
CONSTANTS
    None = None
    Wbtc = "wbtc"
    Adapter = "adapter"
    Borrowers <- TwoPositions
    Debt <- TwoDebts
    Seized <- Proceeds
    Fee = 1
    FlashSwaps <- OneSwap
    LoanVenue <- AaveLoan
    Premium = 1
    Markets <- SixMarkets
    SlippageBps = 5000
    MinProfit = 1
    HandMade <- TwoByHand
    MaxGift = 2
    MaxUint = 60
INVARIANTS CallsEndWhole EveryLiquidationPays FreshQuoteStands
