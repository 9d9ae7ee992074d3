SPECIFICATION FairSpec
CONSTANTS
  MaxWords = 3
  Interrupts = FALSE
  Halts = FALSE
PROPERTIES TxArrives TxDelivery RxDelivery
