\* The cable is pulled during a download.
SPECIFICATION FastbootSpec
PROPERTIES InterruptedTransactionFails
