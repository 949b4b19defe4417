SPECIFICATION Spec
CONSTANTS
  Value = {v1, v2}
  Zero = Zero
  BaseSize = 2
  MaxCount = 5
  MaxBatch = 3
SYMMETRY Symmetry
PROPERTIES ImplementsFifo NoRetention
