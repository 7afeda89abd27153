SPECIFICATION RulesSpec
CONSTANTS
  Kind = {"route_pattern", "confidence_correction", "time_pattern", "eta_math", "aviation_strike_pattern", "launch_site_pattern"}
  Past <- MCPast
  Learner = {l1, l2}
  Score = {85}
  MaxReflection = 1
  MaxAttempt = 2
  MaxTrouble = 1
INVARIANT OverestimationLowers
